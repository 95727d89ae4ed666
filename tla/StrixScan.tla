----------------------------- MODULE StrixScan -----------------------------
(***************************************************************************)
(* One penetration-test node of a job: the strix_scan_tasks row, the part  *)
(* of execute_job that runs the script, the strix process group, the table *)
(* _strix_processes each server process keeps, and the cancel and delete   *)
(* requests that reach any of the servers meanwhile.                       *)
(***************************************************************************)
EXTENDS Naturals, FiniteSets

CONSTANTS
    Scans,      \* primary keys a strix_scan_tasks row can get
    Servers,    \* server processes
    Cancels,    \* requests POST /scans/{id}/cancel the users may send
    MaxCrashes  \* bound on the crashes of server processes

ASSUME ScanConstants == MaxCrashes \in Nat

VARIABLES
    task,    \* the strix_scan_tasks table
    runner,  \* local state of the thread that runs a scan
    proc,    \* the processes of a scan: the leader of their session, and the rest
    table,   \* _strix_processes of every server: the scans with an entry
    req,     \* local state of every cancel request
    crashes  \* crashes so far

vars == <<task, runner, proc, table, req, crashes>>

-----------------------------------------------------------------------------
TaskRow == [state  : {"fresh", "live", "gone"},
            status : {"none", "running", "success", "failed", "cancelled"}]

NoTask == [state |-> "fresh", status |-> "none"]

(* The steps of a scan that its thread has still to take.                  *)
Active == {"script", "badscript", "launch", "register", "wait", "unregister", "commit"}

(* raised: the thread left execute_job by an exception.                    *)
Runner == [pc : {"none", "over", "raised", "dead"} \cup Active,
           home : Servers \cup {"nowhere"}, verdict : {"none", "success", "failed"}]

Request == [pc : {"new", "pop", "kill", "commit", "done"},
            server : Servers \cup {"nowhere"}, scan : Scans \cup {"nothing"}]

NoRunner == [pc |-> "none", home |-> "nowhere", verdict |-> "none"]
NewRequest == [pc |-> "new", server |-> "nowhere", scan |-> "nothing"]

(* left: the leader is over, processes it has started go on in its group.  *)
Processes == {"none", "running", "left", "exited"}

LeaderOver(k) == proc[k] \in {"left", "exited"}

Live(k) == task[k].state = "live"

Init ==
    /\ task = [k \in Scans |-> NoTask]
    /\ runner = [k \in Scans |-> NoRunner]
    /\ proc = [k \in Scans |-> "none"]
    /\ table = [v \in Servers |-> {}]
    /\ req = [r \in Cancels |-> NewRequest]
    /\ crashes = 0

Goto(k, pc) == runner' = [runner EXCEPT ![k].pc = pc]

(* The thread's commit of a status; the UPDATE of a row that has gone      *)
(* raises StaleDataError, which leaves execute_job.                        *)
EndTask(k, status) ==
    /\ task' = [task EXCEPT ![k].status = IF Live(k) THEN status ELSE @]
    /\ Goto(k, IF Live(k) THEN "over" ELSE "raised")

-----------------------------------------------------------------------------
(* The thread that runs the scan.                                          *)

StartScan(k, v) ==
    /\ task[k].state = "fresh"
    /\ task' = [task EXCEPT ![k] = [state |-> "live", status |-> "running"]]
    /\ runner' = [runner EXCEPT ![k].pc = "script", ![k].home = v]
    /\ UNCHANGED <<proc, table, req, crashes>>

(* The row is refreshed, which raises when it has gone, and the script is  *)
(* written.                                                                *)
WriteScript(k) ==
    /\ runner[k].pc = "script"
    /\ \E pc \in IF Live(k) THEN {"launch", "badscript"} ELSE {"raised"} : Goto(k, pc)
    /\ UNCHANGED <<task, proc, table, req, crashes>>

(* Mutant: the failure is only logged.                                     *)
ScriptSkipped(k) ==
    /\ runner[k].pc = "badscript"
    /\ Goto(k, "over")
    /\ UNCHANGED <<task, proc, table, req, crashes>>

(* The script could not be written: the next node is tried.                *)
ScriptUnwritten(k) ==
    /\ runner[k].pc = "badscript"
    /\ EndTask(k, "failed")
    /\ UNCHANGED <<proc, table, req, crashes>>

(* Popen; when it raises there is no process, and the scan has failed.     *)
Launch(k) ==
    /\ runner[k].pc = "launch"
    /\ \/ /\ proc' = [proc EXCEPT ![k] = "running"]
          /\ Goto(k, "register")
       \/ /\ runner' = [runner EXCEPT ![k].pc = "unregister", ![k].verdict = "failed"]
          /\ UNCHANGED proc
    /\ UNCHANGED <<task, table, req, crashes>>

Register(k) ==
    /\ runner[k].pc = "register"
    /\ table' = [table EXCEPT ![runner[k].home] = @ \cup {k}]
    /\ Goto(k, "wait")
    /\ UNCHANGED <<task, proc, req, crashes>>

(* The leader is over: the verdict depends on its output and exit code,    *)
(* also when it was killed after it had printed that the test completed.   *)
WaitDone(k) ==
    /\ runner[k].pc = "wait"
    /\ LeaderOver(k)
    /\ \E verdict \in {"success", "failed"} :
          runner' = [runner EXCEPT ![k].pc = "unregister", ![k].verdict = verdict]
    /\ UNCHANGED <<task, proc, table, req, crashes>>

(* Mutant: after the timeout the process is left alone.                    *)
TimeoutWithoutKill(k) ==
    /\ runner[k].pc = "wait"
    /\ runner' = [runner EXCEPT ![k].pc = "unregister", ![k].verdict = "failed"]
    /\ UNCHANGED <<task, proc, table, req, crashes>>

(* Mutant: the wait has no timeout.                                        *)
NoTimeout(k) ==
    /\ runner[k].pc = "wait"
    /\ LeaderOver(k)
    /\ runner' = [runner EXCEPT ![k].pc = "unregister", ![k].verdict = "failed"]
    /\ UNCHANGED <<task, proc, table, req, crashes>>

(* The wait times out after an hour, or an exception leaves it: the leader *)
(* is terminated, or killed, and waited for; what it has started may go on.*)
WaitTimesOut(k) ==
    /\ runner[k].pc = "wait"
    /\ proc[k] = "running"
    /\ \E after \in {"left", "exited"} : proc' = [proc EXCEPT ![k] = after]
    /\ runner' = [runner EXCEPT ![k].pc = "unregister", ![k].verdict = "failed"]
    /\ UNCHANGED <<task, table, req, crashes>>

(* Mutant: the entry is left in the table.                                 *)
LeaveRegistered(k) ==
    /\ runner[k].pc = "unregister"
    /\ Goto(k, "commit")
    /\ UNCHANGED <<task, proc, table, req, crashes>>

Unregister(k) ==
    /\ runner[k].pc = "unregister"
    /\ table' = [table EXCEPT ![runner[k].home] = @ \ {k}]
    /\ Goto(k, "commit")
    /\ UNCHANGED <<task, proc, req, crashes>>

CommitVerdict(k) ==
    /\ runner[k].pc = "commit"
    /\ EndTask(k, runner[k].verdict)
    /\ UNCHANGED <<proc, table, req, crashes>>

-----------------------------------------------------------------------------
(* The users.                                                              *)

(* A scan that is not running any more is answered at once.                *)
CancelScan(r, v, k) ==
    /\ req[r].pc = "new"
    /\ Live(k) /\ task[k].status = "running"
    /\ req' = [req EXCEPT ![r] = [pc |-> "pop", server |-> v, scan |-> k]]
    /\ UNCHANGED <<task, runner, proc, table, crashes>>

PopProcess(r) ==
    LET v == req[r].server
        k == req[r].scan
    IN  /\ req[r].pc = "pop"
        /\ table' = [table EXCEPT ![v] = @ \ {k}]
        /\ req' = [req EXCEPT ![r].pc = IF k \in table[v] THEN "kill" ELSE "commit"]
        /\ UNCHANGED <<task, runner, proc, crashes>>

(* killpg ends the group of the leader; when the thread has waited for a   *)
(* leader that is over, its group is not found and the rest goes on.       *)
KillProcess(r) ==
    LET k == req[r].scan
    IN  /\ req[r].pc = "kill"
        /\ \E after \in IF proc[k] = "left" THEN {"left", "exited"} ELSE {"exited"} :
              proc' = [proc EXCEPT ![k] = after]
        /\ req' = [req EXCEPT ![r].pc = "commit"]
        /\ UNCHANGED <<task, runner, table, crashes>>

(* Mutant: a status no reader of the column knows.                         *)
CancelMisspelt(r) ==
    /\ req[r].pc = "commit"
    /\ task' = [task EXCEPT ![req[r].scan].status = IF Live(req[r].scan) THEN "canceled" ELSE @]
    /\ req' = [req EXCEPT ![r].pc = "done"]
    /\ UNCHANGED <<runner, proc, table, crashes>>

CommitCancel(r) ==
    LET k == req[r].scan
    IN  /\ req[r].pc = "commit"
        /\ task' = [task EXCEPT ![k].status = IF Live(k) THEN "cancelled" ELSE @]
        /\ req' = [req EXCEPT ![r].pc = "done"]
        /\ UNCHANGED <<runner, proc, table, crashes>>

(* The row of a scan can be deleted while the scan is running.             *)
DeleteScan(k) ==
    /\ Live(k)
    /\ task' = [task EXCEPT ![k] = [state |-> "gone", status |-> "none"]]
    /\ UNCHANGED <<runner, proc, table, req, crashes>>

-----------------------------------------------------------------------------
(* The environment.                                                        *)

(* The leader ends, alone or with all it has started, or the rest does.    *)
ProcessExits(k) ==
    /\ proc[k] \in {"running", "left"}
    /\ \E after \in {"left", "exited"} : proc' = [proc EXCEPT ![k] = after]
    /\ UNCHANGED <<task, runner, table, req, crashes>>

(* The threads and the table of a server die with it.  The strix process   *)
(* is in a session of its own and goes on.                                 *)
Crash(v) ==
    /\ crashes < MaxCrashes
    /\ runner' = [k \in Scans |->
                    IF runner[k].home = v /\ runner[k].pc \in Active
                    THEN [runner[k] EXCEPT !.pc = "dead"] ELSE runner[k]]
    /\ req' = [r \in Cancels |->
                    IF req[r].server = v THEN [req[r] EXCEPT !.pc = "done"] ELSE req[r]]
    /\ table' = [table EXCEPT ![v] = {}]
    /\ crashes' = crashes + 1
    /\ UNCHANGED <<task, proc>>

RunScan(k) ==
    \/ WriteScript(k) \/ ScriptUnwritten(k) \/ Launch(k) \/ Register(k)
    \/ WaitDone(k) \/ WaitTimesOut(k) \/ Unregister(k) \/ CommitVerdict(k)

Cancel(r) == PopProcess(r) \/ KillProcess(r) \/ CommitCancel(r)

Next ==
    \/ \E k \in Scans, v \in Servers : StartScan(k, v)
    \/ \E k \in Scans : RunScan(k) \/ DeleteScan(k) \/ ProcessExits(k)
    \/ \E r \in Cancels, v \in Servers, k \in Scans : CancelScan(r, v, k)
    \/ \E r \in Cancels : Cancel(r)
    \/ \E v \in Servers : Crash(v)

Spec == Init /\ [][Next]_vars

(* Threads are scheduled, and the wait has a timeout.  No process needs to *)
(* end by itself.                                                          *)
FairSpec ==
    /\ Spec
    /\ \A k \in Scans : WF_vars(RunScan(k))
    /\ \A r \in Cancels : WF_vars(Cancel(r))

-----------------------------------------------------------------------------
(* Properties.                                                             *)

(* Every variable holds what the code can store in it.                     *)
TypeOK ==
    /\ task \in [Scans -> TaskRow]
    /\ runner \in [Scans -> Runner]
    /\ \A k \in Scans : runner[k].pc \in Active => runner[k].home \in Servers
    /\ proc \in [Scans -> Processes]
    /\ table \in [Servers -> SUBSET Scans]
    /\ req \in [Cancels -> Request]
    /\ \A r \in Cancels : req[r].pc \in {"pop", "kill", "commit"} =>
                             req[r].server \in Servers /\ req[r].scan \in Scans
    /\ crashes \in 0 .. MaxCrashes

(* The table names processes of scans that run in this server now, so that *)
(* a cancel never kills by an entry a finished scan has left behind:       *)
(* unregister_strix_process runs on every way out.                         *)
RegistryIsCurrent ==
    \A v \in Servers : \A k \in table[v] :
        runner[k].home = v /\ runner[k].pc \in {"wait", "unregister"}

(* No way out of the wait leaves the process it waits for behind, the one  *)
(* execute_job started; only the death of the server does.  What that      *)
(* process has started may stay: the way out ends the leader alone.        *)
NoStrayProcess ==
    \A k \in Scans : proc[k] = "running" => runner[k].pc \in {"register", "wait", "dead"}

(* A row that says running has a thread that will still change it, unless  *)
(* the server died: neither a failure before the process starts nor a      *)
(* cancel, delete or exception loses the verdict.                          *)
RunningHasRunner ==
    \A k \in Scans :
        Live(k) /\ task[k].status = "running" => runner[k].pc \in Active \cup {"dead"}

(* A running scan ends, though nothing else makes the process end.         *)
ScansEnd ==
    \A k \in Scans :
        (Live(k) /\ task[k].status = "running")
            ~> (~Live(k) \/ task[k].status # "running" \/ runner[k].pc = "dead")

(* A scan that is cancelled after its process was started stays cancelled  *)
(* until it is deleted.                                                    *)
CancelledStays ==
    [][\A k \in Scans :
          Live(k) /\ task[k].status = "cancelled" /\ proc[k] # "none" =>
              task'[k] = task[k] \/ task'[k].state = "gone"]_vars

(* When a cancel is recorded, the process of the scan is not running.      *)
CancelStopsProcess ==
    [][\A k \in Scans :
          task[k].status # "cancelled" /\ task'[k].status = "cancelled" =>
              proc[k] # "running"]_vars
=============================================================================
