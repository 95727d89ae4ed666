-------------------------- MODULE StrixScan_proofs --------------------------
(***************************************************************************)
(* Proofs about StrixScan, for all sets of scans, servers and cancels.     *)
(***************************************************************************)
EXTENDS StrixScan, TLAPS

(* Each invariant is inductive together with the types: one step per       *)
(* action, each from the guard and the assignments of the action.          *)
-----------------------------------------------------------------------------
(* A key that has no row yet has no runner.                                *)
FreshIsIdle == \A k \in Scans : task[k].state = "fresh" => runner[k].pc = "none"

LEMMA InitScan ==
    Init => TypeOK /\ FreshIsIdle /\ RegistryIsCurrent /\ NoStrayProcess /\ RunningHasRunner
BY ScanConstants DEF Init, FreshIsIdle, TypeOK, RegistryIsCurrent, NoStrayProcess, RunningHasRunner,
   NoTask, NoRunner, NewRequest, TaskRow, Runner, Request, Processes, Active, Live

(* Writing one row, one local state, keeps the types of all of them.       *)
RunnerType ==
    /\ runner \in [Scans -> Runner]
    /\ \A k \in Scans : runner[k].pc \in Active => runner[k].home \in Servers

ReqType ==
    /\ req \in [Cancels -> Request]
    /\ \A r \in Cancels : req[r].pc \in {"pop", "kill", "commit"} =>
                             req[r].server \in Servers /\ req[r].scan \in Scans

LEMMA TaskStep ==
    ASSUME TypeOK, NEW k \in Scans, NEW row \in TaskRow, task' = [task EXCEPT ![k] = row]
    PROVE  task' \in [Scans -> TaskRow]
BY DEF TypeOK

LEMMA RunnerStep ==
    ASSUME TypeOK, NEW k \in Scans, NEW r \in Runner, r.pc \in Active => r.home \in Servers,
           runner' = [runner EXCEPT ![k] = r]
    PROVE  RunnerType'
BY DEF TypeOK, RunnerType

LEMMA GotoStep ==
    ASSUME TypeOK, NEW k \in Scans, runner[k].pc \in Active,
           NEW pc \in {"over", "raised"} \cup Active, Goto(k, pc)
    PROVE  RunnerType'
<1>1. /\ runner[k] \in Runner /\ runner[k].home \in Servers
      /\ runner' = [runner EXCEPT ![k] = [runner[k] EXCEPT !.pc = pc]]
  BY DEF TypeOK, Goto
<1>2. /\ [runner[k] EXCEPT !.pc = pc] \in Runner
      /\ [runner[k] EXCEPT !.pc = pc].home \in Servers
  BY <1>1 DEF Runner
<1>. QED
  BY <1>1, <1>2, RunnerStep

LEMMA ReqStep ==
    ASSUME TypeOK, NEW r \in Cancels, NEW q \in Request,
           q.pc \in {"pop", "kill", "commit"} => q.server \in Servers /\ q.scan \in Scans,
           req' = [req EXCEPT ![r] = q]
    PROVE  ReqType'
BY DEF TypeOK, ReqType

LEMMA StatusStep ==
    ASSUME TypeOK, NEW k \in Scans, NEW status \in {"success", "failed", "cancelled"},
           task' = [task EXCEPT ![k].status = IF Live(k) THEN status ELSE @]
    PROVE  task' \in [Scans -> TaskRow]
<1> DEFINE row == [task[k] EXCEPT !.status = IF Live(k) THEN status ELSE @]
<1>1. row \in TaskRow /\ task' = [task EXCEPT ![k] = row]
  BY DEF TypeOK, TaskRow
<1>. QED
  BY <1>1, TaskStep

(* A runner whose wait is over, and what it will commit.                   *)
LEMMA VerdictStep ==
    ASSUME TypeOK, NEW k \in Scans, runner[k].pc \in Active,
           NEW verdict \in {"success", "failed"},
           runner' = [runner EXCEPT ![k].pc = "unregister", ![k].verdict = verdict]
    PROVE  RunnerType'
<1> DEFINE r == [runner[k] EXCEPT !.pc = "unregister", !.verdict = verdict]
<1>1. runner[k] \in Runner /\ runner[k].home \in Servers
  BY DEF TypeOK
<1>2. r \in Runner /\ r.home \in Servers
  BY <1>1 DEF Runner, Active
<1>3. runner' = [runner EXCEPT ![k] = r]
  OBVIOUS
<1>. QED
  BY <1>2, <1>3, RunnerStep

LEMMA CrashStep ==
    ASSUME TypeOK, NEW v \in Servers, Crash(v)
    PROVE  TypeOK'
<1>1. \A k \in Scans : [runner[k] EXCEPT !.pc = "dead"] \in Runner
  BY DEF TypeOK, Runner
<1>2. \A k \in Scans : runner'[k] = runner[k] \/ runner'[k] = [runner[k] EXCEPT !.pc = "dead"]
  BY DEF Crash
<1>3. runner' \in [Scans -> Runner]
  BY <1>1, <1>2 DEF TypeOK, Crash
<1>4. \A k \in Scans : runner'[k].pc \in Active => runner'[k] = runner[k]
  BY <1>2 DEF TypeOK, Runner, Active
<1>5. \A r \in Cancels : /\ [req[r] EXCEPT !.pc = "done"] \in Request
                         /\ [req[r] EXCEPT !.pc = "done"].pc = "done"
  BY DEF TypeOK, Request
<1>6. \A r \in Cancels : req'[r] = req[r] \/ req'[r] = [req[r] EXCEPT !.pc = "done"]
  BY DEF Crash
<1>7. req' \in [Cancels -> Request]
  BY <1>5, <1>6 DEF TypeOK, Crash
<1>8. \A r \in Cancels : req'[r].pc \in {"pop", "kill", "commit"} => req'[r] = req[r]
  BY <1>5, <1>6
<1>9. table' \in [Servers -> SUBSET Scans] /\ crashes' \in 0 .. MaxCrashes
  BY ScanConstants DEF TypeOK, Crash
<1>. QED
  BY <1>3, <1>4, <1>7, <1>8, <1>9 DEF TypeOK, Crash

LEMMA NextScanTypes == TypeOK /\ [Next]_vars => TypeOK'
<1>. SUFFICES ASSUME TypeOK, [Next]_vars PROVE TypeOK'
  OBVIOUS
<1>. USE DEF RunnerType, ReqType
<1>1. ASSUME NEW k \in Scans, NEW v \in Servers, StartScan(k, v) PROVE TypeOK'
  <2> DEFINE r == [runner[k] EXCEPT !.pc = "script", !.home = v]
  <2>0. runner[k] \in Runner
    BY DEF TypeOK
  <2>1. r \in Runner /\ r.home \in Servers /\ runner' = [runner EXCEPT ![k] = r]
    BY <1>1, <2>0 DEF StartScan, Runner, Active
  <2>2. [state |-> "live", status |-> "running"] \in TaskRow
    BY DEF TaskRow
  <2>3. task' \in [Scans -> TaskRow]
    BY <1>1, <2>2, TaskStep DEF StartScan
  <2>. QED
    BY <1>1, <2>1, <2>3, RunnerStep DEF StartScan, TypeOK
<1>2. ASSUME NEW k \in Scans, WriteScript(k) PROVE TypeOK'
  <2>1. RunnerType'
    BY <1>2, GotoStep DEF WriteScript, Active
  <2>. QED
    BY <1>2, <2>1 DEF WriteScript, TypeOK
<1>3. ASSUME NEW k \in Scans, ScriptUnwritten(k) PROVE TypeOK'
  <2>1. RunnerType'
    BY <1>3, GotoStep DEF ScriptUnwritten, EndTask, Active
  <2>2. task' \in [Scans -> TaskRow]
    BY <1>3, StatusStep DEF ScriptUnwritten, EndTask
  <2>. QED
    BY <1>3, <2>1, <2>2 DEF ScriptUnwritten, TypeOK
<1>4. ASSUME NEW k \in Scans, Launch(k) PROVE TypeOK'
  <2>1. RunnerType'
    BY <1>4, GotoStep, VerdictStep DEF Launch, Active
  <2>. QED
    BY <1>4, <2>1 DEF Launch, Processes, TypeOK
<1>5. ASSUME NEW k \in Scans, Register(k) PROVE TypeOK'
  <2>1. RunnerType'
    BY <1>5, GotoStep DEF Register, Active
  <2>. QED
    BY <1>5, <2>1 DEF Register, TypeOK
<1>6. ASSUME NEW k \in Scans, WaitDone(k) PROVE TypeOK'
  <2>1. RunnerType'
    BY <1>6, VerdictStep DEF WaitDone, Active
  <2>. QED
    BY <1>6, <2>1 DEF WaitDone, TypeOK
<1>7. ASSUME NEW k \in Scans, WaitTimesOut(k) PROVE TypeOK'
  <2>1. RunnerType'
    BY <1>7, VerdictStep DEF WaitTimesOut, Active
  <2>. QED
    BY <1>7, <2>1 DEF WaitTimesOut, Processes, TypeOK
<1>8. ASSUME NEW k \in Scans, Unregister(k) PROVE TypeOK'
  <2>1. RunnerType'
    BY <1>8, GotoStep DEF Unregister, Active
  <2>. QED
    BY <1>8, <2>1 DEF Unregister, TypeOK
<1>9. ASSUME NEW k \in Scans, CommitVerdict(k) PROVE TypeOK'
  <2>1. RunnerType'
    BY <1>9, GotoStep DEF CommitVerdict, EndTask, Active
  <2>2. runner[k].verdict \in {"none", "success", "failed"}
    BY DEF TypeOK, Runner
  <2> DEFINE row == [task[k] EXCEPT !.status = IF Live(k) THEN runner[k].verdict ELSE @]
  <2>3. row \in TaskRow /\ task' = [task EXCEPT ![k] = row]
    BY <1>9, <2>2 DEF CommitVerdict, EndTask, TypeOK, TaskRow
  <2>4. task' \in [Scans -> TaskRow]
    BY <2>3, TaskStep
  <2>. QED
    BY <1>9, <2>1, <2>4 DEF CommitVerdict, TypeOK
<1>10. ASSUME NEW k \in Scans, DeleteScan(k) PROVE TypeOK'
  <2>1. [state |-> "gone", status |-> "none"] \in TaskRow
    BY DEF TaskRow
  <2>. QED
    BY <1>10, <2>1, TaskStep DEF DeleteScan, TypeOK
<1>11. ASSUME NEW k \in Scans, ProcessExits(k) PROVE TypeOK'
  BY <1>11 DEF ProcessExits, Processes, TypeOK
<1>12. ASSUME NEW r \in Cancels, NEW v \in Servers, NEW k \in Scans, CancelScan(r, v, k)
       PROVE TypeOK'
  <2>1. [pc |-> "pop", server |-> v, scan |-> k] \in Request
    BY DEF Request
  <2>. QED
    BY <1>12, <2>1, ReqStep DEF CancelScan, TypeOK
<1>13. ASSUME NEW r \in Cancels, PopProcess(r) PROVE TypeOK'
  <2> DEFINE q == [req[r] EXCEPT !.pc = IF req[r].scan \in table[req[r].server]
                                        THEN "kill" ELSE "commit"]
  <2>1. /\ q \in Request /\ q.server \in Servers /\ q.scan \in Scans
        /\ req' = [req EXCEPT ![r] = q]
    BY <1>13 DEF PopProcess, TypeOK, Request
  <2>2. ReqType'
    BY <2>1, ReqStep
  <2>. QED
    BY <1>13, <2>2 DEF PopProcess, TypeOK
<1>14. ASSUME NEW r \in Cancels, KillProcess(r) PROVE TypeOK'
  <2> DEFINE q == [req[r] EXCEPT !.pc = "commit"]
  <2>1. /\ q \in Request /\ q.server \in Servers /\ q.scan \in Scans
        /\ req' = [req EXCEPT ![r] = q]
    BY <1>14 DEF KillProcess, TypeOK, Request
  <2>2. ReqType'
    BY <2>1, ReqStep
  <2>. QED
    BY <1>14, <2>2 DEF KillProcess, Processes, TypeOK
<1>15. ASSUME NEW r \in Cancels, CommitCancel(r) PROVE TypeOK'
  <2> DEFINE q == [req[r] EXCEPT !.pc = "done"]
  <2>1. /\ q \in Request /\ q.pc = "done" /\ req[r].scan \in Scans
        /\ req' = [req EXCEPT ![r] = q]
    BY <1>15 DEF CommitCancel, TypeOK, Request
  <2>2. ReqType'
    BY <2>1, ReqStep
  <2>3. task' \in [Scans -> TaskRow]
    BY <1>15, <2>1, StatusStep DEF CommitCancel
  <2>. QED
    BY <1>15, <2>2, <2>3 DEF CommitCancel, TypeOK
<1>16. ASSUME NEW v \in Servers, Crash(v) PROVE TypeOK'
  BY <1>16, CrashStep
<1>17. CASE UNCHANGED vars
  BY <1>17 DEF vars, TypeOK
<1>. QED
  BY <1>1, <1>2, <1>3, <1>4, <1>5, <1>6, <1>7, <1>8, <1>9, <1>10, <1>11, <1>12,
     <1>13, <1>14, <1>15, <1>16, <1>17 DEF Next, RunScan, Cancel

LEMMA NextFresh == TypeOK /\ FreshIsIdle /\ [Next]_vars => FreshIsIdle'
<1>. SUFFICES ASSUME TypeOK, FreshIsIdle, [Next]_vars PROVE FreshIsIdle'
  OBVIOUS
<1>1. ASSUME NEW k \in Scans, NEW v \in Servers, StartScan(k, v) PROVE FreshIsIdle'
  BY <1>1 DEF StartScan, TypeOK, TaskRow, Runner, Active, FreshIsIdle
<1>2. ASSUME NEW k \in Scans, WriteScript(k) PROVE FreshIsIdle'
  BY <1>2 DEF WriteScript, Goto, TypeOK, TaskRow, Runner, Active, FreshIsIdle
<1>3. ASSUME NEW k \in Scans, ScriptUnwritten(k) PROVE FreshIsIdle'
  BY <1>3 DEF ScriptUnwritten, Goto, EndTask, TypeOK, TaskRow, Runner, Active, FreshIsIdle
<1>4. ASSUME NEW k \in Scans, Launch(k) PROVE FreshIsIdle'
  BY <1>4 DEF Launch, Goto, TypeOK, TaskRow, Runner, Active, FreshIsIdle
<1>5. ASSUME NEW k \in Scans, Register(k) PROVE FreshIsIdle'
  BY <1>5 DEF Register, Goto, TypeOK, TaskRow, Runner, Active, FreshIsIdle
<1>6. ASSUME NEW k \in Scans, WaitDone(k) PROVE FreshIsIdle'
  BY <1>6 DEF WaitDone, TypeOK, TaskRow, Runner, Active, FreshIsIdle
<1>7. ASSUME NEW k \in Scans, WaitTimesOut(k) PROVE FreshIsIdle'
  BY <1>7 DEF WaitTimesOut, TypeOK, TaskRow, Runner, Active, FreshIsIdle
<1>8. ASSUME NEW k \in Scans, Unregister(k) PROVE FreshIsIdle'
  BY <1>8 DEF Unregister, Goto, TypeOK, TaskRow, Runner, Active, FreshIsIdle
<1>9. ASSUME NEW k \in Scans, CommitVerdict(k) PROVE FreshIsIdle'
  BY <1>9 DEF CommitVerdict, Goto, EndTask, TypeOK, TaskRow, Runner, Active, FreshIsIdle
<1>10. ASSUME NEW k \in Scans, DeleteScan(k) PROVE FreshIsIdle'
  BY <1>10 DEF DeleteScan, TypeOK, TaskRow, Runner, Active, FreshIsIdle
<1>11. ASSUME NEW k \in Scans, ProcessExits(k) PROVE FreshIsIdle'
  BY <1>11 DEF ProcessExits, TypeOK, TaskRow, Runner, Active, FreshIsIdle
<1>12. ASSUME NEW r \in Cancels, NEW v \in Servers, NEW k \in Scans, CancelScan(r, v, k) PROVE FreshIsIdle'
  BY <1>12 DEF CancelScan, TypeOK, TaskRow, Runner, Active, FreshIsIdle
<1>13. ASSUME NEW r \in Cancels, PopProcess(r) PROVE FreshIsIdle'
  BY <1>13 DEF PopProcess, TypeOK, TaskRow, Runner, Active, FreshIsIdle
<1>14. ASSUME NEW r \in Cancels, KillProcess(r) PROVE FreshIsIdle'
  BY <1>14 DEF KillProcess, TypeOK, TaskRow, Runner, Active, FreshIsIdle
<1>15. ASSUME NEW r \in Cancels, CommitCancel(r) PROVE FreshIsIdle'
  BY <1>15 DEF CommitCancel, TypeOK, TaskRow, Runner, Active, FreshIsIdle
<1>16. ASSUME NEW v \in Servers, Crash(v) PROVE FreshIsIdle'
  BY <1>16 DEF Crash, TypeOK, TaskRow, Runner, Active, FreshIsIdle
<1>17. CASE UNCHANGED vars
  BY <1>17 DEF vars, TypeOK, TaskRow, Runner, Active, FreshIsIdle
<1>. QED
  BY <1>1, <1>2, <1>3, <1>4, <1>5, <1>6, <1>7, <1>8, <1>9, <1>10, <1>11,
     <1>12, <1>13, <1>14, <1>15, <1>16, <1>17 DEF Next, RunScan, Cancel

LEMMA NextRegistry ==
    TypeOK /\ FreshIsIdle /\ RegistryIsCurrent /\ [Next]_vars => RegistryIsCurrent'
<1>. SUFFICES ASSUME TypeOK, FreshIsIdle, RegistryIsCurrent, [Next]_vars PROVE RegistryIsCurrent'
  OBVIOUS
<1>1. ASSUME NEW k \in Scans, NEW v \in Servers, StartScan(k, v) PROVE RegistryIsCurrent'
  BY <1>1 DEF StartScan, FreshIsIdle, TypeOK, Runner, Active, RegistryIsCurrent
<1>2. ASSUME NEW k \in Scans, WriteScript(k) PROVE RegistryIsCurrent'
  BY <1>2 DEF WriteScript, Goto, TypeOK, Runner, Active, RegistryIsCurrent
<1>3. ASSUME NEW k \in Scans, ScriptUnwritten(k) PROVE RegistryIsCurrent'
  BY <1>3 DEF ScriptUnwritten, Goto, EndTask, TypeOK, Runner, Active, RegistryIsCurrent
<1>4. ASSUME NEW k \in Scans, Launch(k) PROVE RegistryIsCurrent'
  <2>1. CASE Goto(k, "register")
    BY <1>4, <2>1 DEF Launch, Goto, TypeOK, Runner, Active, RegistryIsCurrent
  <2>2. CASE runner' = [runner EXCEPT ![k].pc = "unregister", ![k].verdict = "failed"]
    BY <1>4, <2>2 DEF Launch, TypeOK, Runner, Active, RegistryIsCurrent
  <2>. QED
    BY <1>4, <2>1, <2>2 DEF Launch
<1>5. ASSUME NEW k \in Scans, Register(k) PROVE RegistryIsCurrent'
  BY <1>5 DEF Register, Goto, TypeOK, Runner, Active, RegistryIsCurrent
<1>6. ASSUME NEW k \in Scans, WaitDone(k) PROVE RegistryIsCurrent'
  BY <1>6 DEF WaitDone, TypeOK, Runner, Active, RegistryIsCurrent
<1>7. ASSUME NEW k \in Scans, WaitTimesOut(k) PROVE RegistryIsCurrent'
  BY <1>7 DEF WaitTimesOut, TypeOK, Runner, Active, RegistryIsCurrent
<1>8. ASSUME NEW k \in Scans, Unregister(k) PROVE RegistryIsCurrent'
  BY <1>8 DEF Unregister, Goto, TypeOK, Runner, Active, RegistryIsCurrent
<1>9. ASSUME NEW k \in Scans, CommitVerdict(k) PROVE RegistryIsCurrent'
  BY <1>9 DEF CommitVerdict, Goto, EndTask, TypeOK, Runner, Active, RegistryIsCurrent
<1>10. ASSUME NEW k \in Scans, DeleteScan(k) PROVE RegistryIsCurrent'
  BY <1>10 DEF DeleteScan, TypeOK, Runner, Active, RegistryIsCurrent
<1>11. ASSUME NEW k \in Scans, ProcessExits(k) PROVE RegistryIsCurrent'
  BY <1>11 DEF ProcessExits, TypeOK, Runner, Active, RegistryIsCurrent
<1>12. ASSUME NEW r \in Cancels, NEW v \in Servers, NEW k \in Scans, CancelScan(r, v, k) PROVE RegistryIsCurrent'
  BY <1>12 DEF CancelScan, TypeOK, Runner, Active, RegistryIsCurrent
<1>13. ASSUME NEW r \in Cancels, PopProcess(r) PROVE RegistryIsCurrent'
  BY <1>13 DEF PopProcess, TypeOK, Runner, Active, RegistryIsCurrent
<1>14. ASSUME NEW r \in Cancels, KillProcess(r) PROVE RegistryIsCurrent'
  BY <1>14 DEF KillProcess, TypeOK, Runner, Active, RegistryIsCurrent
<1>15. ASSUME NEW r \in Cancels, CommitCancel(r) PROVE RegistryIsCurrent'
  BY <1>15 DEF CommitCancel, TypeOK, Runner, Active, RegistryIsCurrent
<1>16. ASSUME NEW v \in Servers, Crash(v) PROVE RegistryIsCurrent'
  BY <1>16 DEF Crash, TypeOK, Runner, Active, RegistryIsCurrent
<1>17. CASE UNCHANGED vars
  BY <1>17 DEF vars, TypeOK, Runner, Active, RegistryIsCurrent
<1>. QED
  BY <1>1, <1>2, <1>3, <1>4, <1>5, <1>6, <1>7, <1>8, <1>9, <1>10, <1>11,
     <1>12, <1>13, <1>14, <1>15, <1>16, <1>17 DEF Next, RunScan, Cancel

LEMMA NextStray ==
    TypeOK /\ FreshIsIdle /\ NoStrayProcess /\ [Next]_vars => NoStrayProcess'
<1>. SUFFICES ASSUME TypeOK, FreshIsIdle, NoStrayProcess, [Next]_vars PROVE NoStrayProcess'
  OBVIOUS
<1>1. ASSUME NEW k \in Scans, NEW v \in Servers, StartScan(k, v) PROVE NoStrayProcess'
  BY <1>1 DEF StartScan, FreshIsIdle, TypeOK, Runner, Active, NoStrayProcess
<1>2. ASSUME NEW k \in Scans, WriteScript(k) PROVE NoStrayProcess'
  BY <1>2 DEF WriteScript, Goto, TypeOK, Runner, Active, NoStrayProcess
<1>3. ASSUME NEW k \in Scans, ScriptUnwritten(k) PROVE NoStrayProcess'
  BY <1>3 DEF ScriptUnwritten, Goto, EndTask, TypeOK, Runner, Active, NoStrayProcess
<1>4. ASSUME NEW k \in Scans, Launch(k) PROVE NoStrayProcess'
  <2>1. \A j \in Scans \ {k} : proc'[j] = proc[j] /\ runner'[j] = runner[j]
    BY <1>4 DEF Launch, Goto, TypeOK
  <2>2. proc'[k] = "running" => runner'[k].pc = "register" \/ proc[k] = "running"
    BY <1>4 DEF Launch, Goto, TypeOK, Runner
  <2>3. proc[k] # "running"
    BY <1>4 DEF Launch, NoStrayProcess
  <2>. QED
    BY <2>1, <2>2, <2>3 DEF NoStrayProcess
<1>5. ASSUME NEW k \in Scans, Register(k) PROVE NoStrayProcess'
  BY <1>5 DEF Register, Goto, TypeOK, Runner, Active, NoStrayProcess
<1>6. ASSUME NEW k \in Scans, WaitDone(k) PROVE NoStrayProcess'
  BY <1>6 DEF WaitDone, LeaderOver, TypeOK, Runner, Active, NoStrayProcess
<1>7. ASSUME NEW k \in Scans, WaitTimesOut(k) PROVE NoStrayProcess'
  BY <1>7 DEF WaitTimesOut, TypeOK, Runner, Active, NoStrayProcess
<1>8. ASSUME NEW k \in Scans, Unregister(k) PROVE NoStrayProcess'
  BY <1>8 DEF Unregister, Goto, TypeOK, Runner, Active, NoStrayProcess
<1>9. ASSUME NEW k \in Scans, CommitVerdict(k) PROVE NoStrayProcess'
  BY <1>9 DEF CommitVerdict, Goto, EndTask, TypeOK, Runner, Active, NoStrayProcess
<1>10. ASSUME NEW k \in Scans, DeleteScan(k) PROVE NoStrayProcess'
  BY <1>10 DEF DeleteScan, TypeOK, Runner, Active, NoStrayProcess
<1>11. ASSUME NEW k \in Scans, ProcessExits(k) PROVE NoStrayProcess'
  BY <1>11 DEF ProcessExits, TypeOK, Runner, Active, NoStrayProcess
<1>12. ASSUME NEW r \in Cancels, NEW v \in Servers, NEW k \in Scans, CancelScan(r, v, k) PROVE NoStrayProcess'
  BY <1>12 DEF CancelScan, TypeOK, Runner, Active, NoStrayProcess
<1>13. ASSUME NEW r \in Cancels, PopProcess(r) PROVE NoStrayProcess'
  BY <1>13 DEF PopProcess, TypeOK, Runner, Active, NoStrayProcess
<1>14. ASSUME NEW r \in Cancels, KillProcess(r) PROVE NoStrayProcess'
  BY <1>14 DEF KillProcess, TypeOK, Runner, Active, NoStrayProcess
<1>15. ASSUME NEW r \in Cancels, CommitCancel(r) PROVE NoStrayProcess'
  BY <1>15 DEF CommitCancel, TypeOK, Runner, Active, NoStrayProcess
<1>16. ASSUME NEW v \in Servers, Crash(v) PROVE NoStrayProcess'
  BY <1>16 DEF Crash, TypeOK, Runner, Active, NoStrayProcess
<1>17. CASE UNCHANGED vars
  BY <1>17 DEF vars, TypeOK, Runner, Active, NoStrayProcess
<1>. QED
  BY <1>1, <1>2, <1>3, <1>4, <1>5, <1>6, <1>7, <1>8, <1>9, <1>10, <1>11,
     <1>12, <1>13, <1>14, <1>15, <1>16, <1>17 DEF Next, RunScan, Cancel

LEMMA NextRunning == TypeOK /\ RunningHasRunner /\ [Next]_vars => RunningHasRunner'
<1>. SUFFICES ASSUME TypeOK, RunningHasRunner, [Next]_vars PROVE RunningHasRunner'
  OBVIOUS
<1>1. ASSUME NEW k \in Scans, NEW v \in Servers, StartScan(k, v) PROVE RunningHasRunner'
  BY <1>1 DEF StartScan, TypeOK, TaskRow, Runner, Request, Active, Live, RunningHasRunner
<1>2. ASSUME NEW k \in Scans, WriteScript(k) PROVE RunningHasRunner'
  BY <1>2 DEF WriteScript, Goto, TypeOK, TaskRow, Runner, Request, Active, Live, RunningHasRunner
<1>3. ASSUME NEW k \in Scans, ScriptUnwritten(k) PROVE RunningHasRunner'
  BY <1>3 DEF ScriptUnwritten, Goto, EndTask, TypeOK, TaskRow, Runner, Request, Active, Live, RunningHasRunner
<1>4. ASSUME NEW k \in Scans, Launch(k) PROVE RunningHasRunner'
  <2>1. CASE Goto(k, "register")
    BY <1>4, <2>1 DEF Launch, Goto, TypeOK, Runner, Active, Live, RunningHasRunner
  <2>2. CASE runner' = [runner EXCEPT ![k].pc = "unregister", ![k].verdict = "failed"]
    BY <1>4, <2>2 DEF Launch, TypeOK, Runner, Active, Live, RunningHasRunner
  <2>. QED
    BY <1>4, <2>1, <2>2 DEF Launch
<1>5. ASSUME NEW k \in Scans, Register(k) PROVE RunningHasRunner'
  BY <1>5 DEF Register, Goto, TypeOK, TaskRow, Runner, Request, Active, Live, RunningHasRunner
<1>6. ASSUME NEW k \in Scans, WaitDone(k) PROVE RunningHasRunner'
  BY <1>6 DEF WaitDone, TypeOK, TaskRow, Runner, Request, Active, Live, RunningHasRunner
<1>7. ASSUME NEW k \in Scans, WaitTimesOut(k) PROVE RunningHasRunner'
  BY <1>7 DEF WaitTimesOut, TypeOK, TaskRow, Runner, Request, Active, Live, RunningHasRunner
<1>8. ASSUME NEW k \in Scans, Unregister(k) PROVE RunningHasRunner'
  BY <1>8 DEF Unregister, Goto, TypeOK, TaskRow, Runner, Request, Active, Live, RunningHasRunner
<1>9. ASSUME NEW k \in Scans, CommitVerdict(k) PROVE RunningHasRunner'
  BY <1>9, SMTT(40) DEF CommitVerdict, Goto, EndTask, TypeOK, TaskRow, Runner, Request, Active, Live, RunningHasRunner
<1>10. ASSUME NEW k \in Scans, DeleteScan(k) PROVE RunningHasRunner'
  BY <1>10 DEF DeleteScan, TypeOK, TaskRow, Runner, Request, Active, Live, RunningHasRunner
<1>11. ASSUME NEW k \in Scans, ProcessExits(k) PROVE RunningHasRunner'
  BY <1>11 DEF ProcessExits, TypeOK, TaskRow, Runner, Request, Active, Live, RunningHasRunner
<1>12. ASSUME NEW r \in Cancels, NEW v \in Servers, NEW k \in Scans, CancelScan(r, v, k) PROVE RunningHasRunner'
  BY <1>12 DEF CancelScan, TypeOK, TaskRow, Runner, Request, Active, Live, RunningHasRunner
<1>13. ASSUME NEW r \in Cancels, PopProcess(r) PROVE RunningHasRunner'
  BY <1>13 DEF PopProcess, TypeOK, TaskRow, Runner, Request, Active, Live, RunningHasRunner
<1>14. ASSUME NEW r \in Cancels, KillProcess(r) PROVE RunningHasRunner'
  BY <1>14 DEF KillProcess, TypeOK, TaskRow, Runner, Request, Active, Live, RunningHasRunner
<1>15. ASSUME NEW r \in Cancels, CommitCancel(r) PROVE RunningHasRunner'
  BY <1>15 DEF CommitCancel, TypeOK, TaskRow, Runner, Request, Active, Live, RunningHasRunner
<1>16. ASSUME NEW v \in Servers, Crash(v) PROVE RunningHasRunner'
  BY <1>16 DEF Crash, TypeOK, TaskRow, Runner, Request, Active, Live, RunningHasRunner
<1>17. CASE UNCHANGED vars
  BY <1>17 DEF vars, TypeOK, TaskRow, Runner, Request, Active, Live, RunningHasRunner
<1>. QED
  BY <1>1, <1>2, <1>3, <1>4, <1>5, <1>6, <1>7, <1>8, <1>9, <1>10, <1>11,
     <1>12, <1>13, <1>14, <1>15, <1>16, <1>17 DEF Next, RunScan, Cancel

(* Scans, runners, tables and requests keep their types. *)
THEOREM ScanTypes == Spec => []TypeOK
<1>1. TypeOK /\ [Next]_vars => TypeOK'
  BY NextScanTypes
<1>. QED
  BY <1>1, InitScan, PTL DEF Spec

LEMMA FreshScans == Spec => []FreshIsIdle
<1>. QED
  BY InitScan, NextFresh, ScanTypes, PTL DEF Spec

(* An entry of _strix_processes is always that of a scan its server runs now. *)
THEOREM RegistryStaysCurrent == Spec => []RegistryIsCurrent
<1>. QED
  BY InitScan, NextRegistry, ScanTypes, FreshScans, PTL DEF Spec

(* Only the death of a server leaves the process of a scan, the leader of   *)
(* its session, without a thread that waits for it.                         *)
THEOREM ProcessesAreWaitedFor == Spec => []NoStrayProcess
<1>. QED
  BY InitScan, NextStray, ScanTypes, FreshScans, PTL DEF Spec

(* A row that says running has a thread that will still change it. *)
THEOREM RunningScansAreRun == Spec => []RunningHasRunner
<1>. QED
  BY InitScan, NextRunning, ScanTypes, PTL DEF Spec
=============================================================================
