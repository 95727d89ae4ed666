------------------------ MODULE JobScheduler_proofs ------------------------
(***************************************************************************)
(* Proofs about JobScheduler, for every value of its constants.            *)
(***************************************************************************)
EXTENDS JobScheduler, TLAPS

-----------------------------------------------------------------------------
(* Operators.                                                              *)

(* The flush of a loaded row writes a row.                                 *)
LEMMA FlushType ==
    ASSUME NEW row \in JobRow, NEW snap \in JobRow, NEW new \in JobRow
    PROVE  /\ Flush(row, snap, new) \in JobRow
           /\ Flush(row, snap, new).state = row.state
BY ZenonT(60) DEF Flush, JobRow

(* The next run computed from a schedule is NULL or a time after now.      *)
LEMMA NextRunType ==
    ASSUME NEW sched, NEW now \in 0 .. MaxTime
    PROVE  /\ NextRun(sched, now) \in Times
           /\ NextRun(sched, now) = 0 \/ NextRun(sched, now) > now
BY ConstantsAssumption DEF NextRun, Times

(* A row changed by a request body is a row.                               *)
LEMMA UpdatedType ==
    ASSUME NEW snap \in JobRow, NEW body \in Updates \cup {NoBody}, NEW next \in Times
    PROVE  Updated(snap, body, next) \in JobRow
<1>1. /\ body.status \in JobStatus \cup {"unset"}
      /\ body.runType \in RunTypes \cup {"unset"}
      /\ body.sched \in Schedules \cup {"unset"}
      /\ body.proc \in Procs \cup {"null", "unset"}
  BY ConstantsAssumption DEF NoBody
<1>. QED
  BY <1>1, ZenonT(60) DEF Updated, JobRow

LEMMA NoRows == NoJobRow \in JobRow /\ NoExecRow \in ExecRow
BY ConstantsAssumption DEF NoJobRow, NoExecRow, JobRow, ExecRow, Times, JobStatus,
   RunTypes, Schedules

LEMMA IdleType == Idle \in Thread /\ Equipped(Idle)
BY NoRows, ConstantsAssumption DEF Idle, Thread, Ops, Times, Equipped, Running

LEMMA LeaveType ==
    ASSUME TypeOK, NEW t \in Threads, NEW poison \in BOOLEAN, Leave(t, poison)
    PROVE  /\ th' \in [Threads -> Thread]
           /\ \A u \in Threads : Equipped(th[u])'
<1>1. [Idle EXCEPT !.pc = "next", !.queue = th[t].queue, !.poisoned = poison]
          \in Thread
  BY IdleType DEF TypeOK, Thread
<1>2. th' \in [Threads -> Thread]
  BY <1>1, IdleType DEF TypeOK, Leave
<1>3. th'[t].pc \in {"idle", "next"} /\ \A u \in Threads \ {t} : th'[u] = th[u]
  BY DEF TypeOK, Leave, Idle
<1>4. \A u \in Threads : Equipped(th[u])'
  BY <1>3 DEF TypeOK, Equipped, Running
<1>. QED
  BY <1>2, <1>4

(* One thread takes a new local state.                                     *)
LEMMA ThreadStep ==
    ASSUME TypeOK, NEW t \in Threads, NEW r \in Thread, Equipped(r),
           th' = [th EXCEPT ![t] = r]
    PROVE  /\ th' \in [Threads -> Thread]
           /\ \A u \in Threads : Equipped(th[u])'
BY DEF TypeOK, Equipped

(* Writing a status through a loaded row keeps the table well typed.       *)
LEMMA SetStatusType ==
    ASSUME TypeOK, NEW j, NEW snap \in JobRow, NEW status \in JobStatus,
           SetStatus(j, snap, status)
    PROVE  job' \in [Jobs -> JobRow]
<1>1. [snap EXCEPT !.status = status] \in JobRow
  BY DEF JobRow
<1>2. j \in Jobs => Flush(job[j], snap, [snap EXCEPT !.status = status]) \in JobRow
  BY <1>1, FlushType DEF TypeOK
<1>. QED
  BY <1>2 DEF SetStatus, TypeOK

(* The typed parts of a thread.                                            *)
LEMMA ThreadParts ==
    ASSUME TypeOK, NEW t \in Threads
    PROVE  /\ th[t].job \in Jobs \cup {0} /\ th[t].exec \in Execs \cup {0}
           /\ th[t].slot \in Times /\ th[t].snap \in JobRow
           /\ th[t].body \in Updates \cup {NoBody}
           /\ th[t].next \in Times /\ th[t].kids \subseteq Execs
           /\ th[t].due \subseteq Jobs /\ th[t].queue \subseteq Jobs \X Times
BY DEF TypeOK, Thread

(* The verdict of a thread keeps the table well typed.                     *)
LEMMA EndExecType ==
    ASSUME TypeOK, NEW t \in Threads, NEW status \in {"completed", "failed"},
           EndExec(t, status)
    PROVE  exec' \in [Execs -> ExecRow]
<1>1. ASSUME NEW e \in Execs PROVE [exec[e] EXCEPT !.status = status] \in ExecRow
  BY DEF TypeOK, ExecRow
<1>. QED
  BY <1>1 DEF EndExec, TypeOK

LEMMA ReleaseJobType ==
    ASSUME TypeOK, NEW t \in Threads, ReleaseJob(t)
    PROVE  job' \in [Jobs -> JobRow]
<1> DEFINE snap == IF th[t].snap.state = "fresh" THEN job[th[t].job] ELSE th[t].snap
<1>1. CASE Live(th[t].job) /\ th[t].job \in Jobs
  <2>1. snap \in JobRow
    BY <1>1, ThreadParts DEF TypeOK
  <2>2. SetStatus(th[t].job, snap, "created")
    BY <1>1 DEF ReleaseJob
  <2>. QED
    BY <2>1, <2>2, SetStatusType DEF JobStatus
<1>2. CASE ~Live(th[t].job)
  BY <1>2 DEF ReleaseJob, TypeOK
<1>3. CASE Live(th[t].job) /\ th[t].job \notin Jobs
  BY <1>3 DEF ReleaseJob, SetStatus, TypeOK
<1>. QED
  BY <1>1, <1>2, <1>3

-----------------------------------------------------------------------------
(* Type correctness.                                                       *)

LEMMA InitType == Init => TypeOK
BY NoRows, IdleType, ConstantsAssumption DEF Init, TypeOK, Times

LEMMA NextType == TypeOK /\ [Next]_vars => TypeOK'
<1> SUFFICES ASSUME TypeOK, [Next]_vars PROVE TypeOK'
  OBVIOUS
<1> USE ConstantsAssumption
<1>1. ASSUME NEW j \in Jobs, NEW c \in Creates, CreateJob(j, c) PROVE TypeOK'
  <2>1. NextRun(c.sched, clock) \in Times
    BY NextRunType DEF TypeOK
  <2>2. [state |-> "live", status |-> "created", runType |-> c.runType,
         sched |-> c.sched, next |-> NextRun(c.sched, clock), proc |-> c.proc]
            \in JobRow
    BY <2>1 DEF JobRow, JobStatus
  <2>. QED
    BY <1>1, <2>2 DEF CreateJob, TypeOK, Equipped
<1>2. ASSUME NEW t \in Threads, NEW j \in Jobs, NEW op \in Ops,
             NEW body \in Updates \cup {NoBody}, Request(t, j, op, body)
      PROVE  TypeOK'
  <2> DEFINE next == NextRun(body.sched, clock)
             kids == IF op = "delete" THEN Kids(j) ELSE {}
             r == [Idle EXCEPT !.pc = IF op = "execute" THEN "start" ELSE "write",
                               !.op = op, !.body = body, !.job = j, !.snap = job[j],
                               !.next = next, !.kids = kids]
  <2>0. job[j] \in JobRow /\ next \in Times /\ kids \subseteq Execs
    BY NextRunType DEF TypeOK, Kids
  <2> HIDE DEF next, kids
  <2>1. r \in Thread /\ Equipped(r)
    <3>1. r \in Thread
      <4> DEFINE pc == IF op = "execute" THEN "start" ELSE "write"
                 q == [Idle EXCEPT !.pc = pc, !.op = op]
      <4>1. pc \in {"start", "write"}
        OBVIOUS
      <4> HIDE DEF pc
      <4>2. q \in Thread
        BY <4>1, IdleType DEF Thread
      <4>3. r = [q EXCEPT !.body = body, !.job = j, !.snap = job[j], !.next = next,
                          !.kids = kids]
        BY DEF pc
      <4> HIDE DEF q, r
      <4>. QED
        BY <2>0, <4>2, <4>3 DEF Thread
    <3>2. r.pc \in {"start", "write"} /\ r.job = j
      BY DEF Idle
    <3>. QED
      BY <3>1, <3>2 DEF Equipped, Running
  <2>2. th' = [th EXCEPT ![t] = r]
    BY <1>2 DEF Request, next, kids
  <2> HIDE DEF r
  <2>3. /\ th' \in [Threads -> Thread]
        /\ \A u \in Threads : Equipped(th[u])'
    BY <2>1, <2>2, ThreadStep
  <2>. QED
    BY <1>2, <2>3 DEF Request, TypeOK
<1>3. ASSUME NEW t \in Threads, WriteJob(t) PROVE TypeOK'
  <2>1. /\ th' \in [Threads -> Thread]
        /\ \A u \in Threads : Equipped(th[u])'
    BY <1>3, LeaveType DEF WriteJob
  <2>2. job' \in [Jobs -> JobRow]
    <3> DEFINE j == th[t].job
               row == Flush(job[j], th[t].snap, Updated(th[t].snap, th[t].body, th[t].next))
    <3>1. \/ job' = job
          \/ \E status \in JobStatus : SetStatus(j, th[t].snap, status)
          \/ job' = [job EXCEPT ![j] = row]
      BY <1>3 DEF WriteJob, JobStatus
    <3>2. j \in Jobs => row \in JobRow
      BY ThreadParts, UpdatedType, FlushType DEF TypeOK
    <3> HIDE DEF row
    <3>3. ASSUME NEW status \in JobStatus, SetStatus(j, th[t].snap, status)
          PROVE  job' \in [Jobs -> JobRow]
      BY <3>3, ThreadParts, SetStatusType
    <3>. QED
      BY <3>1, <3>2, <3>3 DEF TypeOK
  <2>3. rewound' \subseteq Jobs
    BY <1>3 DEF WriteJob, TypeOK
  <2>. QED
    BY <1>3, <2>1, <2>2, <2>3 DEF WriteJob, TypeOK
<1>4. ASSUME NEW t \in Threads, DeleteJob(t) PROVE TypeOK'
  <2>1. /\ th' \in [Threads -> Thread]
        /\ \A u \in Threads : Equipped(th[u])'
    BY <1>4, LeaveType DEF DeleteJob
  <2>2. /\ [NoJobRow EXCEPT !.state = "gone"] \in JobRow
        /\ [NoExecRow EXCEPT !.state = "gone"] \in ExecRow
    BY NoRows DEF JobRow, ExecRow
  <2> DEFINE gone == [NoJobRow EXCEPT !.state = "gone"]
             lost_exec == [NoExecRow EXCEPT !.state = "gone"]
  <2>3. \/ UNCHANGED <<job, exec>>
        \/ /\ job' = [job EXCEPT ![th[t].job] = gone]
           /\ exec' = [e \in Execs |-> IF e \in Kids(th[t].job) THEN lost_exec ELSE exec[e]]
    BY <1>4 DEF DeleteJob
  <2> HIDE DEF gone, lost_exec
  <2>4. gone \in JobRow /\ lost_exec \in ExecRow
    BY <2>2 DEF gone, lost_exec
  <2>5. job' \in [Jobs -> JobRow] /\ exec' \in [Execs -> ExecRow]
    BY <2>3, <2>4 DEF TypeOK
  <2>. QED
    BY <1>4, <2>1, <2>5 DEF DeleteJob, TypeOK
<1>5. ASSUME NEW t \in Threads, SelectDue(t) PROVE TypeOK'
  <2> DEFINE r == [th[t] EXCEPT !.pc = "claim", !.due = DueJobs,
                                !.next = NextRun("cron", clock)]
  <2>1. r \in Thread /\ Equipped(r)
    <3>1. th[t] \in Thread /\ DueJobs \subseteq Jobs /\ NextRun("cron", clock) \in Times
      BY NextRunType DEF TypeOK, DueJobs
    <3>2. r \in Thread
      BY <3>1 DEF Thread
    <3>3. r.pc = "claim"
      BY <3>1 DEF Thread
    <3>. QED
      BY <3>2, <3>3 DEF Equipped, Running
  <2>2. th' = [th EXCEPT ![t] = r]
    BY <1>5 DEF SelectDue
  <2>3. lock' \in [Jobs -> Threads \cup {NoThread}]
    BY <1>5 DEF SelectDue, TypeOK
  <2> HIDE DEF r
  <2>4. /\ th' \in [Threads -> Thread]
        /\ \A u \in Threads : Equipped(th[u])'
    BY <2>1, <2>2, ThreadStep
  <2>. QED
    BY <1>5, <2>3, <2>4 DEF SelectDue, TypeOK
<1>6. ASSUME NEW t \in Threads, Claim(t) PROVE TypeOK'
  <2> DEFINE r == [Idle EXCEPT !.pc = "next",
                               !.queue = {<<j, job[j].next>> : j \in th[t].due}]
  <2>1. ASSUME NEW row \in JobRow PROVE Claimed(row, th[t].next) \in JobRow
    BY ThreadParts DEF Claimed, JobRow
  <2>2. {<<j, job[j].next>> : j \in th[t].due} \subseteq Jobs \X Times
    <3>1. th[t].due \subseteq Jobs
      BY ThreadParts
    <3>2. ASSUME NEW j \in Jobs PROVE job[j].next \in Times
      BY DEF TypeOK, JobRow
    <3>3. ASSUME NEW j \in th[t].due PROVE <<j, job[j].next>> \in Jobs \X Times
      BY <3>1, <3>2
    <3>. QED
      BY <3>3, Zenon
  <2>3. r \in Thread /\ Equipped(r)
    <3>1. r \in Thread
      BY <2>2, IdleType DEF Thread
    <3>2. r.pc = "next"
      BY DEF Idle
    <3>. QED
      BY <3>1, <3>2 DEF Equipped, Running
  <2>4. job' \in [Jobs -> JobRow] /\ lock' \in [Jobs -> Threads \cup {NoThread}]
    BY <1>6, <2>1 DEF Claim, TypeOK
  <2>5. th' = [th EXCEPT ![t] = r]
    BY <1>6 DEF Claim
  <2> HIDE DEF r
  <2>6. /\ th' \in [Threads -> Thread]
        /\ \A u \in Threads : Equipped(th[u])'
    BY <2>3, <2>5, ThreadStep
  <2>. QED
    BY <1>6, <2>4, <2>6 DEF Claim, TypeOK
<1>7. ASSUME NEW t \in Threads, NEW c \in Jobs \X Times, NextClaimed(t, c)
      PROVE  TypeOK'
  <2> DEFINE start == [Idle EXCEPT !.pc = "start", !.job = c[1], !.slot = c[2],
                                   !.snap = job[c[1]], !.queue = th[t].queue \ {c}]
             skip == [th[t] EXCEPT !.queue = th[t].queue \ {c}]
  <2>1. start \in Thread /\ Equipped(start)
    <3>1. /\ c[1] \in Jobs /\ c[2] \in Times /\ job[c[1]] \in JobRow
          /\ th[t].queue \ {c} \in SUBSET (Jobs \X Times)
      BY ThreadParts DEF TypeOK
    <3>2. start \in Thread /\ start.pc = "start" /\ start.job = c[1]
      BY <3>1, IdleType DEF Thread
    <3> HIDE DEF start
    <3>. QED
      BY <3>1, <3>2 DEF Equipped, Running
  <2>2. skip \in Thread /\ Equipped(skip)
    BY DEF TypeOK, Thread, Equipped
  <2>3. PICK r \in {start, skip, Idle} : th' = [th EXCEPT ![t] = r]
    BY <1>7 DEF NextClaimed
  <2>. QED
    BY <1>7, <2>1, <2>2, <2>3, IdleType, ThreadStep DEF NextClaimed, TypeOK
<1>8. ASSUME NEW t \in Threads, DropClaimed(t) PROVE TypeOK'
  BY <1>8, IdleType, ThreadStep DEF DropClaimed, TypeOK
<1>9. ASSUME NEW t \in Threads, StartExecution(t) PROVE TypeOK'
  <2>1. CASE ~Live(th[t].job) /\ Leave(t, TRUE) /\ UNCHANGED <<job, exec, origin>>
    BY <1>9, <2>1, LeaveType DEF StartExecution, TypeOK
  <2>2. CASE ~(~Live(th[t].job) /\ Leave(t, TRUE) /\ UNCHANGED <<job, exec, origin>>)
    <3>1. PICK e \in Execs :
             /\ exec' = [exec EXCEPT ![e] = [state |-> "live", job |-> th[t].job,
                                             status |-> "running"]]
             /\ origin' = [origin EXCEPT ![e] = th[t].slot]
             /\ th' = [th EXCEPT ![t].pc = "load", ![t].exec = e,
                                 ![t].snap = NoJobRow]
      BY <1>9, <2>2 DEF StartExecution
    <3> DEFINE r == [th[t] EXCEPT !.pc = "load", !.exec = e, !.snap = NoJobRow]
    <3>2. r \in Thread /\ Equipped(r)
      <4>1. th[t] \in Thread /\ th[t].job \in Jobs
        BY <1>9 DEF TypeOK, Equipped, StartExecution
      <4>2. r \in Thread
        BY <4>1, NoRows DEF Thread, Running
      <4>3. r.job \in Jobs /\ r.exec \in Execs
        BY <4>1 DEF Thread
      <4>. QED
        BY <4>2, <4>3 DEF Equipped
    <3>3. th' = [th EXCEPT ![t] = r]
      BY <3>1
    <3>4. job' \in [Jobs -> JobRow]
      BY <1>9, <2>2, ThreadParts, SetStatusType DEF StartExecution, JobStatus
    <3>5. exec' \in [Execs -> ExecRow] /\ origin' \in [Execs -> Times]
      BY <3>1, ThreadParts DEF ExecRow, TypeOK
    <3> HIDE DEF r
    <3>6. /\ th' \in [Threads -> Thread]
          /\ \A u \in Threads : Equipped(th[u])'
      BY <3>2, <3>3, ThreadStep
    <3>. QED
      BY <1>9, <3>4, <3>5, <3>6 DEF StartExecution, TypeOK
  <2>. QED
    BY <2>1, <2>2
<1>10. ASSUME NEW t \in Threads, ReadProcess(t) PROVE TypeOK'
  <2>1. CASE Leave(t, FALSE)
    BY <1>10, <2>1, LeaveType DEF ReadProcess, TypeOK
  <2>2. CASE ~Leave(t, FALSE)
    <3>1. PICK pc \in {"fail", "script", "nodes", "noproc"} :
             th' = [th EXCEPT ![t].pc = pc, ![t].snap = job[th[t].job]]
      BY <1>10, <2>2 DEF ReadProcess
    <3> DEFINE r == [th[t] EXCEPT !.pc = pc, !.snap = job[th[t].job]]
    <3>2. th[t].pc = "load" /\ th[t].job \in Jobs /\ th[t].exec \in Execs
      BY <1>10 DEF ReadProcess, TypeOK, Equipped, Running
    <3>3. r \in Thread /\ Equipped(r)
      <4>1. th[t] \in Thread /\ job[th[t].job] \in JobRow
        BY <3>2 DEF TypeOK
      <4>2. r \in Thread
        BY <4>1, ZenonT(60) DEF Thread, Running
      <4>3. r.job \in Jobs /\ r.exec \in Execs
        BY <3>2, <4>1 DEF Thread
      <4>. QED
        BY <4>2, <4>3 DEF Equipped
    <3>4. th' = [th EXCEPT ![t] = r]
      BY <3>1
    <3> HIDE DEF r
    <3>5. /\ th' \in [Threads -> Thread]
          /\ \A u \in Threads : Equipped(th[u])'
      BY <3>3, <3>4, ThreadStep
    <3>. QED
      BY <1>10, <3>5 DEF ReadProcess, TypeOK
  <2>. QED
    BY <2>1, <2>2
<1>11. ASSUME NEW t \in Threads, NoProcess(t) \/ SetExecutionFailed(t) PROVE TypeOK'
  BY <1>11, LeaveType, EndExecType DEF NoProcess, SetExecutionFailed, TypeOK
<1>12. ASSUME NEW t \in Threads, RunScript(t) PROVE TypeOK'
  <2>1. PICK pc \in {"nodes", "badscript", "fail"} : th' = [th EXCEPT ![t].pc = pc]
    BY <1>12 DEF RunScript, Goto
  <2> DEFINE r == [th[t] EXCEPT !.pc = pc]
  <2>2. r \in Thread /\ Equipped(r)
    BY <1>12 DEF RunScript, TypeOK, Thread, Equipped, Running
  <2>3. th' = [th EXCEPT ![t] = r]
    BY <2>1
  <2> HIDE DEF r
  <2>4. /\ th' \in [Threads -> Thread]
        /\ \A u \in Threads : Equipped(th[u])'
    BY <2>2, <2>3, ThreadStep
  <2>. QED
    BY <1>12, <2>4 DEF RunScript, TypeOK
<1>13. ASSUME NEW t \in Threads, ScriptFailed(t) PROVE TypeOK'
  <2> DEFINE r == [th[t] EXCEPT !.pc = "reset", !.snap = NoJobRow]
  <2>1. r \in Thread /\ Equipped(r)
    <3>1. th[t] \in Thread /\ th[t].job \in Jobs /\ th[t].exec \in Execs
      BY <1>13 DEF ScriptFailed, TypeOK, Equipped, Running
    <3>2. r \in Thread
      BY <3>1, NoRows DEF Thread
    <3>3. r.job \in Jobs /\ r.exec \in Execs
      BY <3>1 DEF Thread
    <3>. QED
      BY <3>2, <3>3 DEF Equipped
  <2>2. th' = [th EXCEPT ![t] = r]
    BY <1>13 DEF ScriptFailed
  <2> HIDE DEF r
  <2>3. /\ th' \in [Threads -> Thread]
        /\ \A u \in Threads : Equipped(th[u])'
    BY <2>1, <2>2, ThreadStep
  <2>. QED
    BY <1>13, <2>3, EndExecType DEF ScriptFailed, TypeOK
<1>14. ASSUME NEW t \in Threads, ResetJob(t) PROVE TypeOK'
  BY <1>14, LeaveType, ReleaseJobType DEF ResetJob, TypeOK
<1>15. ASSUME NEW t \in Threads, RunNodes(t) PROVE TypeOK'
  <2>1. PICK snap \in {th[t].snap, NoJobRow} :
           th' = [th EXCEPT ![t].pc = "finish", ![t].snap = snap]
    BY <1>15 DEF RunNodes
  <2> DEFINE r == [th[t] EXCEPT !.pc = "finish", !.snap = snap]
  <2>2. r \in Thread /\ Equipped(r)
    <3>1. th[t] \in Thread /\ th[t].job \in Jobs /\ th[t].exec \in Execs
      BY <1>15 DEF RunNodes, TypeOK, Equipped, Running
    <3>2. r \in Thread
      BY <3>1, NoRows DEF Thread, Running
    <3>3. r.job \in Jobs /\ r.exec \in Execs
      BY <3>1 DEF Thread
    <3>. QED
      BY <3>2, <3>3 DEF Equipped
  <2>3. th' = [th EXCEPT ![t] = r]
    BY <2>1
  <2> HIDE DEF r
  <2>4. /\ th' \in [Threads -> Thread]
        /\ \A u \in Threads : Equipped(th[u])'
    BY <2>2, <2>3, ThreadStep
  <2>. QED
    BY <1>15, <2>4 DEF RunNodes, TypeOK
<1>16. ASSUME NEW t \in Threads, NodeRaises(t) PROVE TypeOK'
  <2>1. th[t].exec \in Execs
    BY <1>16 DEF NodeRaises, TypeOK, Equipped, Running
  <2>. QED
    BY <1>16, <2>1, LeaveType DEF NodeRaises, TypeOK
<1>17. ASSUME NEW t \in Threads, FinishExecution(t) PROVE TypeOK'
  BY <1>17, LeaveType, EndExecType, ReleaseJobType DEF FinishExecution, TypeOK
<1>18. ASSUME Tick PROVE TypeOK'
  BY <1>18 DEF Tick, TypeOK
<1>19. ASSUME NEW s \in Servers, Crash(s) PROVE TypeOK'
  <2>1. /\ th' \in [Threads -> Thread]
        /\ \A u \in Threads : Equipped(th[u])'
    BY <1>19, IdleType DEF Crash, TypeOK
  <2>2. lock' \in [Jobs -> Threads \cup {NoThread}]
    BY <1>19 DEF Crash, TypeOK
  <2>3. lost' \subseteq Execs
    BY <1>19 DEF Crash, TypeOK
  <2>4. crashes' \in 0 .. MaxCrashes
    <3>1. crashes \in 0 .. MaxCrashes /\ crashes < MaxCrashes /\ crashes' = crashes + 1
      BY <1>19 DEF Crash, TypeOK
    <3>. QED
      BY <3>1
  <2>. QED
    BY <1>19, <2>1, <2>2, <2>3, <2>4 DEF Crash, TypeOK
<1>20. CASE UNCHANGED vars
  BY <1>20 DEF vars, TypeOK, Equipped
<1>. QED
  BY <1>1, <1>2, <1>3, <1>4, <1>5, <1>6, <1>7, <1>8, <1>9, <1>10, <1>11, <1>12,
     <1>13, <1>14, <1>15, <1>16, <1>17, <1>18, <1>19, <1>20
     DEF Next, Users, Step, Execute, Schedule, Ops

(* Every variable keeps its type in every reachable state.                 *)
THEOREM TypeCorrect == Spec => []TypeOK
<1>. QED
  BY InitType, NextType, PTL DEF Spec
-----------------------------------------------------------------------------
(* The rows under a claim.                                                 *)

(* Nobody is no thread: a free row is not locked.                          *)
LEMMA FreeIsUnlocked == ASSUME NEW j, NEW t \in Threads, lock[j] = t PROVE ~Free(j)
BY DEF Free, NoThread, Threads

(* What a thread that leaves its job looks like, and that it acts alone.   *)
LEMMA LeaveFrame ==
    ASSUME TypeOK, NEW t \in Threads, NEW poison, Leave(t, poison)
    PROVE  /\ th'[t].pc \in {"idle", "next"}
           /\ th'[t].exec = 0 /\ th'[t].slot = 0 /\ th'[t].job = 0
           /\ th'[t].queue = th[t].queue
           /\ \A u \in Threads \ {t} : th'[u] = th[u]
<1>1. th'[t] = IF th[t].queue = {} THEN Idle
               ELSE [Idle EXCEPT !.pc = "next", !.queue = th[t].queue,
                                 !.poisoned = poison]
  BY DEF Leave, TypeOK
<1>2. \A u \in Threads \ {t} : th'[u] = th[u]
  BY DEF Leave, TypeOK
<1>. QED
  BY <1>1, <1>2 DEF Idle

(* A thread changes no local state but its own; only the locking SELECT    *)
(* brings it to the claim, and only a request to a write.                  *)
LEMMA StepFrame ==
    ASSUME TypeOK, NEW t \in Threads, Step(t), ~SelectDue(t)
    PROVE  /\ th'[t].pc \notin {"claim", "write"}
           /\ \A u \in Threads \ {t} : th'[u] = th[u]
<1> DEFINE P == /\ th'[t].pc \notin {"claim", "write"}
                /\ \A u \in Threads \ {t} : th'[u] = th[u]
<1>0. th[t] \in Thread /\ th \in [Threads -> Thread]
  BY DEF TypeOK
<1>1. CASE StartExecution(t)
  <2>1. CASE Leave(t, TRUE)
    BY <2>1, LeaveFrame
  <2>2. CASE ~Leave(t, TRUE)
    <3>1. PICK e \in Execs :
             th' = [th EXCEPT ![t].pc = "load", ![t].exec = e, ![t].snap = NoJobRow]
      BY <1>1, <2>2 DEF StartExecution
    <3>. QED
      BY <1>0, <3>1 DEF Thread
  <2>. QED
    BY <2>1, <2>2
<1>2. CASE ReadProcess(t)
  <2>1. CASE Leave(t, FALSE)
    BY <2>1, LeaveFrame
  <2>2. CASE ~Leave(t, FALSE)
    <3>1. PICK pc \in {"fail", "script", "nodes", "noproc"} :
             th' = [th EXCEPT ![t] = [@ EXCEPT !.pc = pc, !.snap = job[th[t].job]]]
      BY <1>2, <2>2 DEF ReadProcess
    <3>. QED
      BY <1>0, <3>1 DEF Thread
  <2>. QED
    BY <2>1, <2>2
<1>3. CASE \/ NoProcess(t) \/ SetExecutionFailed(t) \/ ResetJob(t) \/ NodeRaises(t)
           \/ FinishExecution(t) \/ WriteJob(t) \/ DeleteJob(t)
  BY <1>3, LeaveFrame DEF NoProcess, SetExecutionFailed, ResetJob, NodeRaises,
     FinishExecution, WriteJob, DeleteJob
<1>4. CASE RunScript(t) \/ ScriptFailed(t) \/ RunNodes(t)
  BY <1>0, <1>4 DEF RunScript, Goto, ScriptFailed, RunNodes, Thread
<1>5. CASE Claim(t)
  <2> DEFINE q == {<<j, job[j].next>> : j \in th[t].due}
  <2>1. th' = [th EXCEPT ![t] = [Idle EXCEPT !.pc = "next", !.queue = q]]
    BY <1>5 DEF Claim
  <2> HIDE DEF q
  <2>. QED
    BY <1>0, <2>1 DEF Idle
<1>7. CASE DropClaimed(t)
  BY <1>0, <1>7 DEF DropClaimed, Idle
<1>6. ASSUME NEW c \in Jobs \X Times, NextClaimed(t, c) PROVE P
  <2>1. th[t].pc = "next" /\ Idle.pc = "idle"
    BY <1>6 DEF NextClaimed, Idle
  <2> DEFINE skip == [th[t] EXCEPT !.queue = @ \ {c}]
             start == [Idle EXCEPT !.pc = "start", !.job = c[1], !.slot = c[2],
                                   !.snap = job[c[1]], !.queue = th[t].queue \ {c}]
  <2>2. skip.pc = "next" /\ start.pc = "start"
    BY <1>0, <2>1 DEF Thread, Idle
  <2>3. PICK r \in {skip, start, Idle} : th' = [th EXCEPT ![t] = r]
    BY <1>6 DEF NextClaimed
  <2>. QED
    BY <1>0, <2>1, <2>2, <2>3
<1>. QED
  BY <1>1, <1>2, <1>3, <1>4, <1>5, <1>6, <1>7 DEF Step, Execute, Schedule

(* Every write of a thread outside the claim waits for the row lock.       *)
LEMMA WritesNeedLock ==
    ASSUME TypeOK, NEW t \in Threads, Step(t), ~SelectDue(t), ~Claim(t)
    PROVE  /\ lock' = lock /\ clock' = clock
           /\ \A j \in Jobs : ~Free(j) => job'[j] = job[j]
<1> DEFINE P == /\ lock' = lock /\ clock' = clock
                /\ \A j \in Jobs : ~Free(j) => job'[j] = job[j]
<1>0. job \in [Jobs -> JobRow]
  BY DEF TypeOK
<1>1. CASE StartExecution(t)
  BY <1>0, <1>1 DEF StartExecution, SetStatus
<1>2. CASE WriteJob(t)
  BY <1>0, <1>2 DEF WriteJob, SetStatus
<1>3. CASE DeleteJob(t)
  BY <1>0, <1>3 DEF DeleteJob
<1>4. CASE ResetJob(t) \/ FinishExecution(t)
  BY <1>0, <1>4 DEF ResetJob, FinishExecution, ReleaseJob, SetStatus
<1>5. CASE \/ ReadProcess(t) \/ NoProcess(t) \/ SetExecutionFailed(t) \/ RunScript(t)
           \/ ScriptFailed(t) \/ RunNodes(t) \/ NodeRaises(t) \/ DropClaimed(t)
  BY <1>5 DEF ReadProcess, NoProcess, SetExecutionFailed, RunScript, ScriptFailed,
     RunNodes, NodeRaises, DropClaimed
<1>6. ASSUME NEW c \in Jobs \X Times, NextClaimed(t, c) PROVE P
  BY <1>6 DEF NextClaimed
<1>. QED
  BY <1>1, <1>2, <1>3, <1>4, <1>5, <1>6 DEF Step, Execute, Schedule

(* A step that adds no claim and leaves the locked rows alone keeps the    *)
(* claimed rows stable.                                                    *)
LEMMA ClaimsKept ==
    ASSUME TypeOK, ClaimedRowsStable, clock' \in Nat, clock' >= clock,
           \A t \in Threads : th'[t].pc = "claim" => th'[t] = th[t],
           \A j \in Jobs : ~Free(j) => lock'[j] = lock[j] /\ job'[j] = job[j]
    PROVE  ClaimedRowsStable'
<1> SUFFICES ASSUME NEW t \in Threads, th'[t].pc = "claim",
                    NEW j \in th'[t].due
             PROVE  Due(j)' /\ lock'[j] = t
  BY DEF ClaimedRowsStable
<1>1. th'[t] = th[t] /\ j \in th[t].due /\ j \in Jobs
  BY ThreadParts
<1>2. Due(j) /\ lock[j] = t
  BY <1>1 DEF ClaimedRowsStable
<1>3. lock'[j] = lock[j] /\ job'[j] = job[j]
  BY <1>1, <1>2, FreeIsUnlocked
<1>4. clock \in Nat /\ job[j].next \in Nat
  BY <1>1, ConstantsAssumption DEF TypeOK, JobRow, Times
<1>. QED
  BY <1>2, <1>3, <1>4 DEF Due, Live

LEMMA NextClaims == TypeOK /\ TypeOK' /\ ClaimedRowsStable /\ [Next]_vars => ClaimedRowsStable'
<1> SUFFICES ASSUME TypeOK, TypeOK', ClaimedRowsStable, [Next]_vars
             PROVE  ClaimedRowsStable'
  OBVIOUS
<1>0. /\ clock \in Nat /\ clock' \in Nat
      /\ th \in [Threads -> Thread] /\ job \in [Jobs -> JobRow]
      /\ lock \in [Jobs -> Threads \cup {NoThread}]
  BY ConstantsAssumption DEF TypeOK
<1>1. ASSUME NEW j \in Jobs, NEW c \in Creates, CreateJob(j, c)
      PROVE  ClaimedRowsStable'
  <2>1. /\ ~Live(j) /\ UNCHANGED <<lock, th, clock>>
        /\ \A i \in Jobs \ {j} : job'[i] = job[i]
    BY <1>0, <1>1 DEF CreateJob, Live
  <2> SUFFICES ASSUME NEW t \in Threads, th[t].pc = "claim", NEW i \in th[t].due
               PROVE  Due(i)' /\ lock[i] = t
    BY <2>1 DEF ClaimedRowsStable
  <2>2. Due(i) /\ lock[i] = t /\ i \in Jobs
    BY ThreadParts DEF ClaimedRowsStable
  <2>3. i # j
    BY <2>1, <2>2 DEF Due
  <2>. QED
    BY <2>1, <2>2, <2>3 DEF Due, Live
<1>2. ASSUME NEW t \in Threads, NEW j \in Jobs, NEW op \in Ops,
             NEW body \in Updates \cup {NoBody}, Request(t, j, op, body)
      PROVE  ClaimedRowsStable'
  <2>1. th'[t].pc # "claim" /\ \A u \in Threads \ {t} : th'[u] = th[u]
    BY <1>0, <1>2 DEF Request, Idle
  <2>2. UNCHANGED <<job, lock, clock>>
    BY <1>2 DEF Request
  <2>. QED
    BY <1>0, <2>1, <2>2, ClaimsKept
<1>3. ASSUME NEW t \in Threads, SelectDue(t) PROVE ClaimedRowsStable'
  <2>1. /\ UNCHANGED <<job, clock>>
        /\ \A j \in DueJobs : Free(j)
        /\ lock' = [j \in Jobs |-> IF j \in DueJobs THEN t ELSE lock[j]]
        /\ th'[t].due = DueJobs
        /\ \A u \in Threads \ {t} : th'[u] = th[u]
    BY <1>0, <1>3 DEF SelectDue, Thread
  <2>2. \A j \in Jobs : Due(j)' <=> Due(j)
    BY <2>1 DEF Due, Live
  <2> SUFFICES ASSUME NEW u \in Threads, th'[u].pc = "claim", NEW j \in th'[u].due
               PROVE  Due(j)' /\ lock'[j] = u
    BY DEF ClaimedRowsStable
  <2>3. CASE u = t
    BY <2>1, <2>2, <2>3 DEF DueJobs
  <2>4. CASE u # t
    <3>1. Due(j) /\ lock[j] = u /\ j \in Jobs
      BY <2>1, <2>4, ThreadParts DEF ClaimedRowsStable
    <3>2. ~Free(j)
      BY <3>1, FreeIsUnlocked
    <3>. QED
      BY <2>1, <2>2, <3>1, <3>2
  <2>. QED
    BY <2>3, <2>4
<1>4. ASSUME NEW t \in Threads, Claim(t) PROVE ClaimedRowsStable'
  <2>1. th'[t].pc # "claim" /\ \A u \in Threads \ {t} : th'[u] = th[u]
    BY <1>4, StepFrame DEF Step, Schedule, Claim, SelectDue
  <2>2. /\ th[t].pc = "claim" /\ clock' = clock
        /\ \A j \in Jobs \ th[t].due : job'[j] = job[j] /\ lock'[j] = lock[j]
    BY <1>0, <1>4 DEF Claim
  <2> SUFFICES ASSUME NEW u \in Threads, th'[u].pc = "claim", NEW j \in th'[u].due
               PROVE  Due(j)' /\ lock'[j] = u
    BY DEF ClaimedRowsStable
  <2>3. u # t /\ Due(j) /\ lock[j] = u /\ j \in Jobs
    BY <2>1, ThreadParts DEF ClaimedRowsStable
  <2>4. j \notin th[t].due
    BY <2>2, <2>3 DEF ClaimedRowsStable
  <2>. QED
    BY <2>2, <2>3, <2>4 DEF Due, Live
<1>5. ASSUME NEW t \in Threads, Step(t), ~SelectDue(t), ~Claim(t)
      PROVE  ClaimedRowsStable'
  BY <1>0, <1>5, StepFrame, WritesNeedLock, ClaimsKept
<1>6. CASE Tick
  BY <1>0, <1>6, ClaimsKept DEF Tick
<1>7. ASSUME NEW s \in Servers, Crash(s) PROVE ClaimedRowsStable'
  <2> DEFINE mine == {t \in Threads : t[1] = s}
  <2>1. /\ UNCHANGED <<job, clock>>
        /\ lock' = [j \in Jobs |-> IF lock[j] \in mine THEN NoThread ELSE lock[j]]
        /\ \A t \in Threads : th'[t] = IF t \in mine THEN Idle ELSE th[t]
    BY <1>7 DEF Crash
  <2> SUFFICES ASSUME NEW u \in Threads, th'[u].pc = "claim", NEW j \in th'[u].due
               PROVE  Due(j)' /\ lock'[j] = u
    BY DEF ClaimedRowsStable
  <2>2. u \notin mine /\ th'[u] = th[u]
    BY <2>1 DEF Idle
  <2>3. Due(j) /\ lock[j] = u /\ j \in Jobs
    BY <2>2, ThreadParts DEF ClaimedRowsStable
  <2>. QED
    BY <2>1, <2>2, <2>3 DEF Due, Live
<1>8. CASE UNCHANGED vars
  BY <1>0, <1>8, ClaimsKept DEF vars
<1>. QED
  BY <1>1, <1>2, <1>3, <1>4, <1>5, <1>6, <1>7, <1>8 DEF Next, Users, Ops

(* Between the locking SELECT and the commit of the claim no other thread  *)
(* changes, terminates or deletes a selected row.                          *)
THEOREM ClaimsAreStable == Spec => []ClaimedRowsStable
<1>1. Init => ClaimedRowsStable
  BY DEF Init, Idle, ClaimedRowsStable
<1>. QED
  BY <1>1, NextClaims, TypeCorrect, PTL DEF Spec
-----------------------------------------------------------------------------
(* The threads behind running executions.                                  *)

(* An execution belongs to at most one thread, is running in the table as  *)
(* long as that thread is inside execute_job, and goes with its job.       *)
Owned ==
    /\ \A t \in Threads : th[t].exec # 0 => exec[th[t].exec].state # "fresh"
    /\ \A t, u \in Threads : t # u /\ th[t].exec # 0 => th[u].exec # th[t].exec

OwnerRuns ==
    \A t \in Threads : th[t].pc \in Running /\ ExecLive(th[t].exec) =>
        exec[th[t].exec].status = "running" /\ exec[th[t].exec].job = th[t].job

ExecOfJob ==
    \A e \in Execs : ExecLive(e) => exec[e].job \in Jobs /\ Live(exec[e].job)

DriverInv == Owned /\ OwnerRuns /\ ExecOfJob /\ RunningHasDriver

(* The pcs inside execute_job between its first and its last commit.       *)
LEMMA RunningPcs ==
    /\ "idle" \notin Running /\ "next" \notin Running /\ "write" \notin Running
    /\ "start" \notin Running /\ "claim" \notin Running /\ "reset" \notin Running
    /\ "load" \in Running
BY DEF Running

(* Inside execute_job a thread has its execution.                          *)
LEMMA RunningHasExec ==
    ASSUME TypeOK, NEW t \in Threads, th[t].pc \in Running
    PROVE  th[t].exec \in Execs /\ th[t].exec # 0 /\ th[t].job \in Jobs
BY ConstantsAssumption DEF TypeOK, Equipped

(* A step that leaves the executions alone, and in which threads keep their*)
(* execution, or give it up once it is lost, gone or not theirs to run.    *)
LEMMA DriversKept ==
    ASSUME TypeOK, DriverInv, exec' = exec, lost \subseteq lost',
           \A j \in Jobs : Live(j) => job'[j].state = "live",
           \A t \in Threads :
              \/ /\ th'[t].exec = th[t].exec /\ th'[t].job = th[t].job
                 /\ th'[t].pc \in Running <=> th[t].pc \in Running
              \/ /\ th'[t].exec = 0 /\ th'[t].pc \notin Running
                 /\ \/ th[t].pc \notin Running
                    \/ th[t].exec \in lost'
                    \/ ~ExecLive(th[t].exec)
    PROVE  DriverInv'
<1>0. \A t \in Threads : th'[t].exec # 0 => th'[t].exec = th[t].exec
  OBVIOUS
<1>1. Owned'
  BY <1>0 DEF DriverInv, Owned
<1>2. OwnerRuns'
  BY DEF DriverInv, OwnerRuns, ExecLive
<1>3. ExecOfJob'
  BY DEF DriverInv, ExecOfJob, ExecLive, Live
<1>4. RunningHasDriver'
  BY DEF DriverInv, RunningHasDriver, ExecLive
<1>. QED
  BY <1>1, <1>2, <1>3, <1>4 DEF DriverInv

(* A thread that gives the verdict on its execution is done with it.       *)
LEMMA VerdictGiven ==
    ASSUME TypeOK, DriverInv, NEW t \in Threads, th[t].pc \in Running,
           NEW status \in {"completed", "failed"}, EndExec(t, status),
           th'[t].pc \notin Running, th'[t].exec \in {0, th[t].exec},
           \A u \in Threads \ {t} : th'[u] = th[u],
           \A j \in Jobs : Live(j) => job'[j].state = "live", lost' = lost
    PROVE  DriverInv'
<1>0. /\ th[t].exec \in Execs
      /\ \A e \in Execs \ {th[t].exec} : exec'[e] = exec[e]
      /\ \A e \in Execs : exec'[e].state = exec[e].state /\ exec'[e].job = exec[e].job
      /\ ExecLive(th[t].exec) => exec'[th[t].exec].status = status
  BY RunningHasExec DEF EndExec, TypeOK, ExecRow, ExecLive
<1>1. Owned'
  <2>1. \A u \in Threads : th'[u].exec # 0 => th'[u].exec = th[u].exec
    OBVIOUS
  <2>2. \A u \in Threads : th'[u].exec # 0 => th'[u].exec \in Execs
    BY <2>1, ThreadParts
  <2>. QED
    BY <1>0, <2>1, <2>2 DEF DriverInv, Owned
<1>2. OwnerRuns'
  <2> SUFFICES ASSUME NEW u \in Threads, th'[u].pc \in Running, ExecLive(th[u].exec)'
               PROVE  exec'[th'[u].exec].status = "running"
                      /\ exec'[th'[u].exec].job = th'[u].job
    BY DEF OwnerRuns
  <2>1. u # t /\ th'[u] = th[u]
    OBVIOUS
  <2>2. th[u].exec \in Execs /\ th[u].exec # 0
    BY <2>1, RunningHasExec
  <2>3. th[u].exec # th[t].exec
    BY <2>1, <2>2 DEF DriverInv, Owned
  <2>. QED
    BY <1>0, <2>1, <2>2, <2>3 DEF DriverInv, OwnerRuns, ExecLive
<1>3. ExecOfJob'
  BY <1>0 DEF DriverInv, ExecOfJob, ExecLive, Live
<1>4. RunningHasDriver'
  <2> SUFFICES ASSUME NEW e \in Execs, ExecLive(e)', exec'[e].status = "running"
               PROVE  e \in lost \/ \E u \in Threads : th'[u].exec = e /\ th'[u].pc \in Running
    BY DEF RunningHasDriver
  <2>1. e # th[t].exec /\ ExecLive(e) /\ exec[e].status = "running"
    BY <1>0 DEF ExecLive
  <2>2. CASE e \in lost
    BY <2>2
  <2>3. CASE e \notin lost
    <3>1. PICK u \in Threads : th[u].exec = e /\ th[u].pc \in Running
      BY <2>1, <2>3 DEF DriverInv, RunningHasDriver
    <3>. QED
      BY <2>1, <3>1
  <2>. QED
    BY <2>2, <2>3
<1>. QED
  BY <1>1, <1>2, <1>3, <1>4 DEF DriverInv

(* No step but the cascading delete takes a job row away.                  *)
LEMMA JobRowStays ==
    ASSUME TypeOK, NEW t \in Threads, Step(t), ~DeleteJob(t)
    PROVE  \A j \in Jobs : job'[j].state = job[j].state
<1> DEFINE P == \A j \in Jobs : job'[j].state = job[j].state
<1>0. job \in [Jobs -> JobRow]
  BY DEF TypeOK
<1>1. ASSUME NEW j, NEW snap, NEW status, SetStatus(j, snap, status) PROVE P
  BY <1>0, <1>1 DEF SetStatus, Flush, JobRow
<1>2. CASE StartExecution(t)
  BY <1>1, <1>2 DEF StartExecution
<1>3. CASE WriteJob(t)
  <2>1. CASE th[t].op = "update" /\ job' = [job EXCEPT ![th[t].job] =
                 Flush(@, th[t].snap, Updated(th[t].snap, th[t].body, th[t].next))]
    BY <1>0, <2>1 DEF Flush, JobRow
  <2>. QED
    BY <1>1, <1>3, <2>1 DEF WriteJob
<1>4. CASE ResetJob(t) \/ FinishExecution(t)
  BY <1>1, <1>4 DEF ResetJob, FinishExecution, ReleaseJob
<1>5. CASE Claim(t)
  <2>1. \A row \in JobRow : Claimed(row, th[t].next).state = row.state
    BY DEF Claimed, JobRow
  <2>. QED
    BY <1>0, <1>5, <2>1 DEF Claim
<1>6. CASE \/ ReadProcess(t) \/ NoProcess(t) \/ SetExecutionFailed(t) \/ RunScript(t)
           \/ ScriptFailed(t) \/ RunNodes(t) \/ NodeRaises(t) \/ DropClaimed(t)
           \/ SelectDue(t)
  BY <1>6 DEF ReadProcess, NoProcess, SetExecutionFailed, RunScript, ScriptFailed,
     RunNodes, NodeRaises, DropClaimed, SelectDue
<1>7. ASSUME NEW c \in Jobs \X Times, NextClaimed(t, c) PROVE P
  BY <1>7 DEF NextClaimed
<1>. QED
  BY <1>2, <1>3, <1>4, <1>5, <1>6, <1>7 DEF Step, Execute, Schedule

(* The insert of an execution makes its thread the driver of a new row.    *)
LEMMA StartDrives ==
    ASSUME TypeOK, TypeOK', DriverInv, NEW t \in Threads, StartExecution(t)
    PROVE  DriverInv'
<1>1. CASE Leave(t, TRUE) /\ UNCHANGED exec
  <2>1. th[t].pc \notin Running /\ lost' = lost
    BY <1>1 DEF StartExecution, Running
  <2>2. \A j \in Jobs : job'[j].state = job[j].state
    BY <1>1, JobRowStays DEF Step, Execute, StartExecution, DeleteJob
  <2>3. /\ th'[t].exec = 0 /\ th'[t].pc \notin Running
        /\ \A u \in Threads \ {t} : th'[u] = th[u]
    BY <1>1, LeaveFrame, RunningPcs
  <2>. QED
    BY <1>1, <2>1, <2>2, <2>3, DriversKept DEF Live
<1>2. CASE ~(Leave(t, TRUE) /\ UNCHANGED exec)
  <2>1. PICK e \in Execs :
           /\ exec[e].state = "fresh"
           /\ exec' = [exec EXCEPT ![e] = [state |-> "live", job |-> th[t].job,
                                           status |-> "running"]]
           /\ th' = [th EXCEPT ![t].pc = "load", ![t].exec = e, ![t].snap = NoJobRow]
    BY <1>2 DEF StartExecution
  <2>2. Live(th[t].job) /\ lost' = lost /\ th[t].pc = "start" /\ th[t].job \in Jobs
    BY <1>2 DEF StartExecution, TypeOK, Equipped
  <2>3. \A j \in Jobs : job'[j].state = job[j].state
    BY JobRowStays, <2>2 DEF Step, Execute, DeleteJob
  <2>4. /\ th'[t].exec = e /\ th'[t].pc = "load" /\ th'[t].job = th[t].job
        /\ \A u \in Threads \ {t} : th'[u] = th[u]
    BY <2>1 DEF TypeOK, Thread
  <2>5. /\ exec'[e] = [state |-> "live", job |-> th[t].job, status |-> "running"]
        /\ \A f \in Execs \ {e} : exec'[f] = exec[f]
    BY <2>1 DEF TypeOK
  <2>6. \A u \in Threads : th[u].exec # e
    <3>1. e # 0
      BY ConstantsAssumption
    <3>. QED
      BY <2>1, <3>1 DEF DriverInv, Owned
  <2>7. Owned'
    <3>1. \A u \in Threads : th'[u].exec # 0 => th'[u].exec \in Execs
      BY DEF TypeOK, Thread
    <3>. QED
      BY <2>4, <2>5, <2>6, <3>1 DEF DriverInv, Owned
  <2>8. OwnerRuns'
    <3> SUFFICES ASSUME NEW u \in Threads, th'[u].pc \in Running, ExecLive(th[u].exec)'
                 PROVE  exec'[th'[u].exec].status = "running"
                        /\ exec'[th'[u].exec].job = th'[u].job
      BY DEF OwnerRuns
    <3>1. CASE u = t
      BY <2>4, <2>5, <3>1
    <3>2. CASE u # t
      <4>1. th[u].exec \in Execs \ {e} /\ th'[u] = th[u]
        BY <2>4, <2>6, <3>2, RunningHasExec
      <4>. QED
        BY <2>5, <4>1 DEF DriverInv, OwnerRuns, ExecLive
    <3>. QED
      BY <3>1, <3>2
  <2>9. ExecOfJob'
    BY <2>2, <2>3, <2>5 DEF DriverInv, ExecOfJob, ExecLive, Live
  <2>10. RunningHasDriver'
    <3> SUFFICES ASSUME NEW f \in Execs, ExecLive(f)', exec'[f].status = "running"
                 PROVE  f \in lost \/ \E u \in Threads : th'[u].exec = f /\ th'[u].pc \in Running
      BY <2>2 DEF RunningHasDriver
    <3>1. CASE f = e
      BY <2>4, <3>1, RunningPcs
    <3>2. CASE f # e
      <4>1. f \in lost \/ \E u \in Threads : th[u].exec = f /\ th[u].pc \in Running
        BY <2>5, <3>2 DEF DriverInv, RunningHasDriver, ExecLive
      <4>. QED
        BY <2>2, <2>4, <4>1, RunningPcs
    <3>. QED
      BY <3>1, <3>2
  <2>. QED
    BY <2>7, <2>8, <2>9, <2>10 DEF DriverInv
<1>. QED
  BY <1>1, <1>2

(* The cascade takes the executions of the job away with it.               *)
LEMMA DeleteKeepsDrivers ==
    ASSUME TypeOK, TypeOK', DriverInv, NEW t \in Threads, DeleteJob(t)
    PROVE  DriverInv'
<1> DEFINE j == th[t].job
<1>1. /\ th'[t].exec = 0 /\ th'[t].pc \notin Running /\ th[t].pc \notin Running
      /\ \A u \in Threads \ {t} : th'[u] = th[u]
  BY LeaveFrame, RunningPcs DEF DeleteJob
<1>0. CASE UNCHANGED <<job, exec>>
  BY <1>0, <1>1, DriversKept DEF DeleteJob, Live
<1> SUFFICES ASSUME ~UNCHANGED <<job, exec>> PROVE DriverInv'
  BY <1>0
<1>2. /\ \A e \in Execs : ExecLive(e) /\ exec[e].job = j => exec'[e].state = "gone"
      /\ \A e \in Execs : ~(ExecLive(e) /\ exec[e].job = j) => exec'[e] = exec[e]
      /\ \A i \in Jobs \ {j} : job'[i] = job[i]
      /\ lost' = lost
  BY DEF DeleteJob, TypeOK, ExecLive, NoExecRow, Kids
<1>3. Owned'
  <2>1. \A u \in Threads : th'[u].exec # 0 => th'[u].exec = th[u].exec /\ th[u].exec \in Execs
    BY <1>1, ThreadParts
  <2>. QED
    BY <1>2, <2>1 DEF DriverInv, Owned, ExecLive
<1>4. OwnerRuns'
  BY <1>1, <1>2, RunningHasExec DEF DriverInv, OwnerRuns, ExecLive
<1>5. ExecOfJob'
  BY <1>2 DEF DriverInv, ExecOfJob, ExecLive, Live
<1>6. RunningHasDriver'
  <2> SUFFICES ASSUME NEW f \in Execs, ExecLive(f)', exec'[f].status = "running"
               PROVE  f \in lost \/ \E u \in Threads : th'[u].exec = f /\ th'[u].pc \in Running
    BY <1>2 DEF RunningHasDriver
  <2>1. f \in lost \/ \E u \in Threads : th[u].exec = f /\ th[u].pc \in Running
    BY <1>2 DEF DriverInv, RunningHasDriver, ExecLive
  <2>. QED
    BY <1>1, <2>1
<1>. QED
  BY <1>3, <1>4, <1>5, <1>6 DEF DriverInv

LEMMA NextDrivers ==
    TypeOK /\ TypeOK' /\ DriverInv /\ [Next]_vars => DriverInv'
<1> SUFFICES ASSUME TypeOK, TypeOK', DriverInv, [Next]_vars PROVE DriverInv'
  OBVIOUS
<1>0. th \in [Threads -> Thread] /\ job \in [Jobs -> JobRow]
  BY DEF TypeOK
<1>1. ASSUME NEW j \in Jobs, NEW c \in Creates, CreateJob(j, c) PROVE DriverInv'
  <2>1. \A i \in Jobs : Live(i) => job'[i].state = "live"
    BY <1>0, <1>1 DEF CreateJob, Live
  <2>. QED
    BY <1>1, <2>1, DriversKept DEF CreateJob
<1>2. ASSUME NEW t \in Threads, NEW j \in Jobs, NEW op \in Ops,
             NEW body \in Updates \cup {NoBody}, Request(t, j, op, body)
      PROVE  DriverInv'
  <2>1. /\ th[t].pc = "idle" /\ UNCHANGED <<job, exec, lost>>
        /\ th'[t].exec = 0 /\ th'[t].pc \in {"start", "write"}
        /\ \A u \in Threads \ {t} : th'[u] = th[u]
    BY <1>0, <1>2 DEF Request, Idle
  <2>. QED
    BY <2>1, RunningPcs, DriversKept DEF Live
<1>3. ASSUME NEW t \in Threads, SelectDue(t) PROVE DriverInv'
  <2>1. /\ th[t].pc = "idle" /\ UNCHANGED <<job, exec, lost>>
        /\ th'[t].exec = th[t].exec /\ th'[t].job = th[t].job /\ th'[t].pc = "claim"
        /\ \A u \in Threads \ {t} : th'[u] = th[u]
    BY <1>0, <1>3 DEF SelectDue, Thread
  <2>. QED
    BY <2>1, RunningPcs, DriversKept DEF Live
<1>4. ASSUME NEW t \in Threads, Claim(t) PROVE DriverInv'
  <2> DEFINE q == {<<j, job[j].next>> : j \in th[t].due}
  <2>1. /\ th[t].pc = "claim" /\ UNCHANGED <<exec, lost>>
        /\ th' = [th EXCEPT ![t] = [Idle EXCEPT !.pc = "next", !.queue = q]]
    BY <1>4 DEF Claim
  <2>2. \A j \in Jobs : job'[j].state = job[j].state
    BY <1>4, JobRowStays DEF Step, Schedule, Claim, DeleteJob
  <2> HIDE DEF q
  <2>3. /\ th'[t].exec = 0 /\ th'[t].pc = "next"
        /\ \A u \in Threads \ {t} : th'[u] = th[u]
    BY <1>0, <2>1 DEF Idle
  <2>. QED
    BY <2>1, <2>2, <2>3, RunningPcs, DriversKept DEF Live
<1>5. ASSUME NEW t \in Threads, NEW c \in Jobs \X Times, NextClaimed(t, c)
      PROVE  DriverInv'
  <2>1. th[t].pc = "next" /\ UNCHANGED <<job, exec, lost>>
    BY <1>5 DEF NextClaimed
  <2> DEFINE skip == [th[t] EXCEPT !.queue = @ \ {c}]
             start == [Idle EXCEPT !.pc = "start", !.job = c[1], !.slot = c[2],
                                   !.snap = job[c[1]], !.queue = th[t].queue \ {c}]
  <2>2. /\ skip.pc = "next" /\ skip.exec = th[t].exec /\ skip.job = th[t].job
        /\ start.pc = "start" /\ start.exec = 0
        /\ Idle.pc = "idle" /\ Idle.exec = 0
    BY <1>0, <2>1 DEF Thread, Idle
  <2>3. PICK r \in {skip, start, Idle} : th' = [th EXCEPT ![t] = r]
    BY <1>5 DEF NextClaimed
  <2> HIDE DEF skip, start
  <2>4. /\ \/ th'[t].exec = th[t].exec /\ th'[t].job = th[t].job
           \/ th'[t].exec = 0
        /\ th'[t].pc \notin Running /\ th[t].pc \notin Running
        /\ \A u \in Threads \ {t} : th'[u] = th[u]
    BY <1>0, <2>1, <2>2, <2>3, RunningPcs
  <2>. QED
    BY <2>1, <2>4, DriversKept DEF Live
<1>6. ASSUME NEW t \in Threads, WriteJob(t) \/ DropClaimed(t) \/ ResetJob(t)
      PROVE  DriverInv'
  <2>1. \A j \in Jobs : job'[j].state = job[j].state
    BY <1>6, JobRowStays DEF Step, Execute, Schedule, WriteJob, DropClaimed, ResetJob,
       DeleteJob
  <2>2. /\ th[t].pc \notin Running /\ UNCHANGED <<exec, lost>>
    BY <1>6 DEF WriteJob, DropClaimed, ResetJob, Running
  <2>3. /\ th'[t].exec = 0 /\ th'[t].pc \notin Running
        /\ \A u \in Threads \ {t} : th'[u] = th[u]
    <3>1. CASE DropClaimed(t)
      BY <1>0, <3>1, RunningPcs DEF DropClaimed, Idle
    <3>2. CASE WriteJob(t) \/ ResetJob(t)
      BY <3>2, LeaveFrame, RunningPcs DEF WriteJob, ResetJob
    <3>. QED
      BY <1>6, <3>1, <3>2
  <2>. QED
    BY <2>1, <2>2, <2>3, DriversKept DEF Live
<1>7. ASSUME NEW t \in Threads, DeleteJob(t) PROVE DriverInv'
  BY <1>7, DeleteKeepsDrivers
<1>8. ASSUME NEW t \in Threads, StartExecution(t) PROVE DriverInv'
  BY <1>8, StartDrives
<1>9. ASSUME NEW t \in Threads, ReadProcess(t) PROVE DriverInv'
  <2>0. th[t].pc \in Running /\ UNCHANGED <<job, exec, lost>>
    BY <1>9 DEF ReadProcess, Running
  <2>1. CASE ~Live(th[t].job) /\ Leave(t, FALSE)
    <3>1. ~ExecLive(th[t].exec)
      BY <2>0, <2>1, RunningHasExec DEF DriverInv, OwnerRuns, ExecOfJob
    <3>2. /\ th'[t].exec = 0 /\ th'[t].pc \notin Running
          /\ \A u \in Threads \ {t} : th'[u] = th[u]
      BY <2>1, LeaveFrame, RunningPcs
    <3>. QED
      BY <2>0, <3>1, <3>2, DriversKept DEF Live
  <2>2. CASE ~(~Live(th[t].job) /\ Leave(t, FALSE))
    <3>1. PICK pc \in {"fail", "script", "nodes", "noproc"} :
             th' = [th EXCEPT ![t] = [@ EXCEPT !.pc = pc, !.snap = job[th[t].job]]]
      BY <1>9, <2>2 DEF ReadProcess
    <3>2. /\ th'[t].exec = th[t].exec /\ th'[t].job = th[t].job /\ th'[t].pc \in Running
          /\ \A u \in Threads \ {t} : th'[u] = th[u]
      BY <1>0, <3>1 DEF Thread, Running
    <3>. QED
      BY <2>0, <3>2, DriversKept DEF Live
  <2>. QED
    BY <2>1, <2>2
<1>10. ASSUME NEW t \in Threads, RunScript(t) \/ RunNodes(t) PROVE DriverInv'
  <2>1. th[t].pc \in Running /\ UNCHANGED <<job, exec, lost>>
    BY <1>10 DEF RunScript, RunNodes, Running
  <2>2. /\ th'[t].exec = th[t].exec /\ th'[t].job = th[t].job /\ th'[t].pc \in Running
        /\ \A u \in Threads \ {t} : th'[u] = th[u]
    BY <1>0, <1>10 DEF RunScript, RunNodes, Goto, Thread, Running
  <2>. QED
    BY <2>1, <2>2, DriversKept DEF Live
<1>11. ASSUME NEW t \in Threads, NodeRaises(t) PROVE DriverInv'
  <2>1. UNCHANGED <<job, exec>> /\ lost' = lost \cup {th[t].exec}
    BY <1>11 DEF NodeRaises
  <2>2. /\ th'[t].exec = 0 /\ th'[t].pc \notin Running
        /\ \A u \in Threads \ {t} : th'[u] = th[u]
    BY <1>11, LeaveFrame, RunningPcs DEF NodeRaises
  <2>. QED
    BY <2>1, <2>2, DriversKept DEF Live
<1>12. ASSUME NEW t \in Threads,
              NoProcess(t) \/ SetExecutionFailed(t) \/ FinishExecution(t)
       PROVE  DriverInv'
  <2>1. PICK status \in {"completed", "failed"} : EndExec(t, status)
    BY <1>12 DEF NoProcess, SetExecutionFailed, FinishExecution
  <2>2. /\ th'[t].exec = 0 /\ th'[t].pc \notin Running
        /\ \A u \in Threads \ {t} : th'[u] = th[u]
    BY <1>12, LeaveFrame, RunningPcs DEF NoProcess, SetExecutionFailed, FinishExecution
  <2>3. \A j \in Jobs : job'[j].state = job[j].state
    BY <1>12, JobRowStays DEF Step, Execute, NoProcess, SetExecutionFailed,
       FinishExecution, DeleteJob
  <2>4. th[t].pc \in Running /\ lost' = lost
    BY <1>12 DEF NoProcess, SetExecutionFailed, FinishExecution, Running
  <2>. QED
    BY <2>1, <2>2, <2>3, <2>4, VerdictGiven DEF Live
<1>13. ASSUME NEW t \in Threads, ScriptFailed(t) PROVE DriverInv'
  <2>1. /\ th[t].pc \in Running /\ UNCHANGED <<job, lost>>
        /\ EndExec(t, "failed")
    BY <1>13 DEF ScriptFailed, Running
  <2>2. /\ th'[t].exec = th[t].exec /\ th'[t].pc \notin Running
        /\ \A u \in Threads \ {t} : th'[u] = th[u]
    BY <1>0, <1>13 DEF ScriptFailed, Thread, Running
  <2>. QED
    BY <2>1, <2>2, VerdictGiven DEF Live
<1>14. CASE Tick
  BY <1>14, DriversKept DEF Tick, Live
<1>15. ASSUME NEW s \in Servers, Crash(s) PROVE DriverInv'
  <2> DEFINE mine == {t \in Threads : t[1] = s}
  <2>1. /\ UNCHANGED <<job, exec>>
        /\ lost' = lost \cup {e \in Execs : \E t \in mine : th[t].exec = e}
        /\ \A t \in Threads : th'[t] = IF t \in mine THEN Idle ELSE th[t]
    BY <1>15 DEF Crash
  <2>2. Idle.exec = 0 /\ Idle.pc \notin Running
    BY RunningPcs DEF Idle
  <2>3. \A t \in mine : th[t].pc \notin Running \/ th[t].exec \in lost'
    BY <2>1, RunningHasExec
  <2>. QED
    BY <2>1, <2>2, <2>3, DriversKept DEF Live
<1>16. CASE UNCHANGED vars
  BY <1>16, DriversKept DEF vars, Live
<1>. QED
  BY <1>1, <1>2, <1>3, <1>4, <1>5, <1>6, <1>7, <1>8, <1>9, <1>10, <1>11, <1>12,
     <1>13, <1>14, <1>15, <1>16 DEF Next, Users, Step, Execute, Schedule, Ops

LEMMA DriversInvariant == Spec => []DriverInv
<1>1. Init => DriverInv
  <2> SUFFICES ASSUME Init PROVE DriverInv
    OBVIOUS
  <2>1. \A t \in Threads : th[t].exec = 0 /\ th[t].pc \notin Running
    BY RunningPcs DEF Init, Idle
  <2>2. \A e \in Execs : ~ExecLive(e)
    BY DEF Init, ExecLive, NoExecRow
  <2>. QED
    BY <2>1, <2>2 DEF DriverInv, Owned, OwnerRuns, ExecOfJob, RunningHasDriver
<1>. QED
  BY <1>1, NextDrivers, TypeCorrect, PTL DEF Spec

(* No return path of execute_job, and no interleaving with another thread, *)
(* leaves an execution running that nobody runs; only a crash or an        *)
(* exception does.                                                         *)
THEOREM RunningIsDriven == Spec => []RunningHasDriver
<1>1. DriverInv => RunningHasDriver
  BY DEF DriverInv
<1>. QED
  BY <1>1, DriversInvariant, PTL

LEMMA NextVerdicts ==
    TypeOK /\ DriverInv /\ [Next]_vars =>
        [\A e \in Execs :
            ExecLive(e) /\ exec[e].status # "running" =>
                exec'[e] = exec[e] \/ exec'[e].state = "gone"]_vars
<1> SUFFICES ASSUME TypeOK, DriverInv, Next,
                    NEW e \in Execs, ExecLive(e), exec[e].status # "running"
             PROVE  exec'[e] = exec[e] \/ exec'[e].state = "gone"
  OBVIOUS
<1>0. exec \in [Execs -> ExecRow]
  BY DEF TypeOK
<1>1. ASSUME NEW t \in Threads, NEW status, th[t].pc \in Running, EndExec(t, status)
      PROVE  exec'[e] = exec[e]
  <2>1. th[t].exec # e
    BY <1>1 DEF DriverInv, OwnerRuns
  <2>. QED
    BY <1>0, <1>1, <2>1 DEF EndExec
<1>2. ASSUME NEW t \in Threads, Execute(t) PROVE exec'[e] = exec[e]
  <2>1. CASE NoProcess(t) \/ SetExecutionFailed(t) \/ ScriptFailed(t) \/ FinishExecution(t)
    <3>1. th[t].pc \in Running
      BY <2>1 DEF NoProcess, SetExecutionFailed, ScriptFailed, FinishExecution, Running
    <3>2. EndExec(t, "completed") \/ EndExec(t, "failed")
      BY <2>1 DEF NoProcess, SetExecutionFailed, ScriptFailed, FinishExecution
    <3>. QED
      BY <1>1, <3>1, <3>2
  <2>2. CASE StartExecution(t)
    <3>1. exec[e].state # "fresh"
      BY DEF ExecLive
    <3>2. exec' = exec \/ \E f \in Execs : /\ exec[f].state = "fresh"
                                          /\ \E row : exec' = [exec EXCEPT ![f] = row]
      BY <2>2, Zenon DEF StartExecution
    <3>. QED
      BY <1>0, <3>1, <3>2
  <2>3. CASE ReadProcess(t) \/ RunScript(t) \/ ResetJob(t) \/ RunNodes(t) \/ NodeRaises(t)
    BY <2>3 DEF ReadProcess, RunScript, ResetJob, RunNodes, NodeRaises
  <2>. QED
    BY <1>2, <2>1, <2>2, <2>3 DEF Execute
<1>3. ASSUME NEW t \in Threads, Schedule(t) \/ WriteJob(t) PROVE exec'[e] = exec[e]
  BY <1>3 DEF Schedule, SelectDue, Claim, DropClaimed, NextClaimed, WriteJob
<1>4. ASSUME NEW t \in Threads, DeleteJob(t)
      PROVE  exec'[e] = exec[e] \/ exec'[e].state = "gone"
  BY <1>4 DEF DeleteJob, NoExecRow
<1>5. CASE Users \/ Tick \/ \E s \in Servers : Crash(s)
  BY <1>5 DEF Users, CreateJob, Request, Tick, Crash
<1>. QED
  BY <1>2, <1>3, <1>4, <1>5 DEF Next, Step

(* Whatever runs beside it, an execution that has its verdict keeps it.    *)
THEOREM VerdictsAreFinal == Spec => VerdictIsFinal
<1>. QED
  BY NextVerdicts, TypeCorrect, DriversInvariant, PTL DEF Spec, VerdictIsFinal
=============================================================================
