---------------------------- MODULE JobScheduler ----------------------------
(***************************************************************************)
(* Jobs, their executions and the threads that run them: the rows of       *)
(* jobs / job_executions, the minute scheduler run_scheduled_jobs of every *)
(* server process, and the handlers of /jobs.  A step is one database      *)
(* transaction or one stretch of execute_job between two of them; what     *)
(* another thread commits in between is visible, as under READ COMMITTED.  *)
(***************************************************************************)
EXTENDS Naturals, FiniteSets

CONSTANTS
    Jobs,         \* primary keys a jobs row can get (positive)
    Execs,        \* primary keys a job_executions row can get (positive)
    Servers,      \* server processes, each with its own BackgroundScheduler
    Procs,        \* ids of process definitions (neither "null" nor "unset")
    Creates,      \* bodies of POST /jobs: [runType, sched, proc]
    Updates,      \* bodies of PUT /jobs/{id}: [status, runType, sched, proc]
    MaxTime,      \* bound on the clock
    MaxRequests,  \* bound on the requests of users and the crashes together
    MaxCrashes    \* bound on the crashes of server processes

JobStatus == {"created", "active", "paused", "terminated"}
RunTypes  == {"once", "scheduled"}

(* schedule_config: a cron expression, or one that has no next_run_at.     *)
Schedules == {"null", "cron", "interval"}

ASSUME ConstantsAssumption ==
    /\ Jobs \subseteq Nat \ {0}
    /\ Execs \subseteq Nat \ {0}
    /\ Procs \cap {"null", "unset"} = {}
    /\ Creates \subseteq [runType : RunTypes, sched : Schedules,
                          proc : Procs \cup {"null"}]
    /\ Updates \subseteq [status  : JobStatus \cup {"unset"},
                          runType : RunTypes \cup {"unset"},
                          sched   : Schedules \cup {"unset"},
                          proc    : Procs \cup {"null", "unset"}]
    /\ MaxTime \in Nat /\ MaxRequests \in Nat /\ MaxCrashes \in Nat

VARIABLES
    job,       \* the jobs table
    exec,      \* the job_executions table
    lock,      \* holder of the FOR UPDATE row lock of a jobs row
    th,        \* local state of every thread
    clock,     \* time in cron slots: slot k is due when clock >= k
    origin,    \* history: the due slot an execution was started for
    lost,      \* history: executions whose thread died or raised
    rewound,   \* history: jobs whose next_run_at an update moved back
    requests,  \* requests sent so far
    crashes    \* crashes so far

vars == <<job, exec, lock, th, clock, origin, lost, rewound, requests, crashes>>

-----------------------------------------------------------------------------
(* Rows and threads.  0 is NULL in next, job, exec and slot.               *)

Times == 0 .. MaxTime + 1

JobRow == [state : {"fresh", "live", "gone"}, status : JobStatus,
           runType : RunTypes, sched : Schedules, next : Times,
           proc : Procs \cup {"null"}]

NoJobRow == [state |-> "fresh", status |-> "created", runType |-> "once",
             sched |-> "null", next |-> 0, proc |-> "null"]

ExecRow == [state : {"fresh", "live", "gone"}, job : Jobs \cup {0},
            status : {"running", "completed", "failed"}]

NoExecRow == [state |-> "fresh", job |-> 0, status |-> "running"]

Threads  == Servers \X {"sched", "api"}
IsSched(t) == t[2] = "sched"

NoThread == <<"nobody", "none">>   \* the holder of a free row lock

Ops == {"none", "execute", "pause", "resume", "terminate", "update", "delete"}

NoBody == [status |-> "unset", runType |-> "unset", sched |-> "unset",
           proc |-> "unset"]

Running == {"load", "noproc", "fail", "script", "badscript", "nodes", "finish"}

(* snap is the jobs row as the thread's session last loaded it, NoJobRow   *)
(* once a commit has expired it (expire_on_commit); next is a next_run_at  *)
(* computed but not committed yet, kids the executions delete() loaded.    *)
Thread == [pc : {"idle", "write", "claim", "next", "start", "reset"} \cup Running,
           op : Ops, body : Updates \cup {NoBody},
           job : Jobs \cup {0}, exec : Execs \cup {0}, slot : Times,
           next : Times, kids : SUBSET Execs, snap : JobRow,
           due : SUBSET Jobs, queue : SUBSET (Jobs \X Times),
           poisoned : BOOLEAN]

Idle == [pc |-> "idle", op |-> "none", body |-> NoBody, job |-> 0, exec |-> 0,
         slot |-> 0, next |-> 0, kids |-> {}, snap |-> NoJobRow, due |-> {},
         queue |-> {}, poisoned |-> FALSE]

Live(j) == job[j].state = "live"
ExecLive(e) == exec[e].state = "live"
Free(j) == lock[j] = NoThread

(* The next cron slot strictly after now; NULL for every other type.       *)
NextRun(sched, now) == IF sched = "cron" THEN now + 1 ELSE 0

(* The UPDATE of a flush: it holds the attributes whose value differs from *)
(* the loaded one and leaves the others as the table has them now.         *)
Flush(row, snap, new) ==
    LET Merge(now, old, val) == IF val = old THEN now ELSE val
    IN  [row EXCEPT !.status  = Merge(row.status, snap.status, new.status),
                    !.runType = Merge(row.runType, snap.runType, new.runType),
                    !.sched   = Merge(row.sched, snap.sched, new.sched),
                    !.next    = Merge(row.next, snap.next, new.next),
                    !.proc    = Merge(row.proc, snap.proc, new.proc)]

SetStatus(j, snap, status) ==
    job' = [job EXCEPT ![j] = Flush(@, snap, [snap EXCEPT !.status = status])]

Init ==
    /\ job = [j \in Jobs |-> NoJobRow]
    /\ exec = [e \in Execs |-> NoExecRow]
    /\ lock = [j \in Jobs |-> NoThread]
    /\ th = [t \in Threads |-> Idle]
    /\ clock = 0
    /\ origin = [e \in Execs |-> 0]
    /\ lost = {}
    /\ rewound = {}
    /\ requests = 0
    /\ crashes = 0

(* The thread is through with its current job: an API thread is idle, a    *)
(* scheduler thread goes on with the job_ids it has left, in one session.  *)
Leave(t, poison) ==
    th' = [th EXCEPT ![t] =
              IF th[t].queue = {} THEN Idle
              ELSE [Idle EXCEPT !.pc = "next", !.queue = th[t].queue,
                                !.poisoned = poison]]

Goto(t, pc) == th' = [th EXCEPT ![t].pc = pc]

-----------------------------------------------------------------------------
(* The handlers of /jobs.                                                  *)

CreateJob(j, c) ==
    /\ requests + crashes < MaxRequests
    /\ job[j].state = "fresh"
    /\ \A i \in Jobs : i < j => job[i].state # "fresh"
    /\ job' = [job EXCEPT ![j] =
                  [state |-> "live", status |-> "created", runType |-> c.runType,
                   sched |-> c.sched, next |-> NextRun(c.sched, clock),
                   proc |-> c.proc]]
    /\ requests' = requests + 1
    /\ UNCHANGED <<exec, lock, th, clock, origin, lost, rewound, crashes>>

Accepts(op, row) ==
    CASE op = "pause"     -> row.status = "active"
      [] op = "resume"    -> row.status = "paused"
      [] op = "terminate" -> row.status # "terminated"
      [] op = "execute"   -> row.proc # "null"
      [] OTHER            -> TRUE

Kids(j) == {e \in Execs : ExecLive(e) /\ exec[e].job = j}

(* The handler loads the row, checks it and does all it does before its    *)
(* commit: an update computes next_run_at, a delete loads the executions.  *)
(* A refused request (400, 404) changes nothing.                           *)
Request(t, j, op, body) ==
    /\ requests + crashes < MaxRequests
    /\ ~IsSched(t) /\ th[t].pc = "idle"
    /\ Live(j) /\ Accepts(op, job[j])
    /\ body # NoBody => op = "update"
    /\ th' = [th EXCEPT ![t] =
                 [Idle EXCEPT !.pc = IF op = "execute" THEN "start" ELSE "write",
                              !.op = op, !.body = body, !.job = j, !.snap = job[j],
                              !.next = NextRun(body.sched, clock),
                              !.kids = IF op = "delete" THEN Kids(j) ELSE {}]]
    /\ requests' = requests + 1
    /\ UNCHANGED <<job, exec, lock, clock, origin, lost, rewound, crashes>>

(* next is what the update computed from its schedule_config, or 0.        *)
Updated(snap, body, next) ==
    LET Set(val, old) == IF val = "unset" THEN old ELSE val
    IN  [snap EXCEPT !.status  = Set(body.status, @),
                     !.runType = Set(body.runType, @),
                     !.sched   = Set(body.sched, @),
                     !.next    = IF next = 0 THEN @ ELSE next,
                     !.proc    = Set(body.proc, @)]

(* The commit of pause, resume, terminate or update, which may come after  *)
(* claims of the slots since its load and then moves next_run_at back; when*)
(* the row has gone the flush raises (StaleDataError), nothing is written. *)
WriteJob(t) ==
    LET j == th[t].job
        snap == th[t].snap
        op == th[t].op
    IN  /\ th[t].pc = "write" /\ op # "delete"
        /\ Free(j)
        /\ IF ~Live(j) THEN UNCHANGED job
           ELSE \/ op = "pause"     /\ SetStatus(j, snap, "paused")
                \/ op = "resume"    /\ SetStatus(j, snap, "active")
                \/ op = "terminate" /\ SetStatus(j, snap, "terminated")
                \/ op = "update"    /\ job' = [job EXCEPT ![j] =
                                Flush(@, snap, Updated(snap, th[t].body, th[t].next))]
        /\ rewound' = rewound \cup {i \in Jobs : job'[i].next < job[i].next}
        /\ Leave(t, FALSE)
        /\ UNCHANGED <<exec, lock, clock, origin, lost, requests, crashes>>

(* The delete cascades to the executions it loaded; the foreign key of one *)
(* inserted since then refuses it and nothing is deleted.                  *)
DeleteJob(t) ==
    LET j == th[t].job
    IN  /\ th[t].pc = "write" /\ th[t].op = "delete"
        /\ Free(j)
        /\ IF Kids(j) \subseteq th[t].kids
           THEN /\ job' = [job EXCEPT ![j] = [NoJobRow EXCEPT !.state = "gone"]]
                /\ exec' = [e \in Execs |-> IF e \in Kids(j)
                                            THEN [NoExecRow EXCEPT !.state = "gone"]
                                            ELSE exec[e]]
           ELSE UNCHANGED <<job, exec>>
        /\ Leave(t, FALSE)
        /\ UNCHANGED <<lock, clock, origin, lost, rewound, requests, crashes>>

-----------------------------------------------------------------------------
(* run_scheduled_jobs.                                                     *)

Due(j) ==
    /\ Live(j)
    /\ job[j].runType = "scheduled"
    /\ job[j].next # 0
    /\ job[j].next <= clock
    /\ job[j].status # "terminated"

DueJobs == {j \in Jobs : Due(j)}

(* Mutant: the due rows are selected without FOR UPDATE.                   *)
SelectWithoutLock(t) ==
    /\ IsSched(t) /\ th[t].pc = "idle"
    /\ DueJobs # {}
    /\ th' = [th EXCEPT ![t].pc = "claim", ![t].due = DueJobs,
                        ![t].next = NextRun("cron", clock)]
    /\ UNCHANGED <<job, exec, lock, clock, origin, lost, rewound, requests, crashes>>

(* SELECT ... FOR UPDATE: waits for the locks of others, and then sees the *)
(* rows as they left them, and moves next_run_at on in the session.        *)
SelectDue(t) ==
    /\ IsSched(t) /\ th[t].pc = "idle"
    /\ DueJobs # {}
    /\ \A j \in DueJobs : Free(j)
    /\ lock' = [j \in Jobs |-> IF j \in DueJobs THEN t ELSE lock[j]]
    /\ th' = [th EXCEPT ![t].pc = "claim", ![t].due = DueJobs,
                        ![t].next = NextRun("cron", clock)]
    /\ UNCHANGED <<job, exec, clock, origin, lost, rewound, requests, crashes>>

(* Mutant: next_run_at is left to be moved after the execution.            *)
ClaimedInPlace(row, next) == row

Claimed(row, next) == IF row.sched = "cron" THEN [row EXCEPT !.next = next] ELSE row

(* Mutant: the claim goes on without its commit.                           *)
ClaimUncommitted(t) ==
    /\ th[t].pc = "claim"
    /\ th' = [th EXCEPT ![t] =
                 [Idle EXCEPT !.pc = "next",
                              !.queue = {<<j, job[j].next>> : j \in th[t].due}]]
    /\ UNCHANGED <<job, exec, lock, clock, origin, lost, rewound, requests, crashes>>

(* The commit that moves next_run_at and releases the locks.               *)
Claim(t) ==
    LET due == th[t].due
    IN  /\ th[t].pc = "claim"
        /\ job' = [j \in Jobs |-> IF j \in due THEN Claimed(job[j], th[t].next)
                              ELSE job[j]]
        /\ lock' = [j \in Jobs |-> IF j \in due THEN NoThread ELSE lock[j]]
        /\ th' = [th EXCEPT ![t] =
                     [Idle EXCEPT !.pc = "next",
                                  !.queue = {<<j, job[j].next>> : j \in due}]]
        /\ UNCHANGED <<exec, clock, origin, lost, rewound, requests, crashes>>

(* Mutant: the id stays in the list while its job is executed.             *)
NextKept(t, c) ==
    /\ th[t].pc = "next" /\ ~th[t].poisoned
    /\ c \in th[t].queue /\ Live(c[1])
    /\ th' = [th EXCEPT ![t] = [Idle EXCEPT !.pc = "start", !.job = c[1],
                                !.slot = c[2], !.snap = job[c[1]], !.queue = th[t].queue]]
    /\ UNCHANGED <<job, exec, lock, clock, origin, lost, rewound, requests, crashes>>

(* execute_job of the next claimed id: a row that has gone is skipped.     *)
NextClaimed(t, c) ==
    /\ th[t].pc = "next" /\ ~th[t].poisoned
    /\ c \in th[t].queue
    /\ LET left == th[t].queue \ {c}
       IN  th' = [th EXCEPT ![t] =
              IF Live(c[1])
              THEN [Idle EXCEPT !.pc = "start", !.job = c[1], !.slot = c[2],
                                !.snap = job[c[1]], !.queue = left]
              ELSE IF left = {} THEN Idle ELSE [@ EXCEPT !.queue = left]]
    /\ UNCHANGED <<job, exec, lock, clock, origin, lost, rewound, requests, crashes>>

(* A flush failed earlier in this tick and nothing rolled the session back:*)
(* every job_id left raises PendingRollbackError, which is only logged.    *)
DropClaimed(t) ==
    /\ th[t].pc = "next" /\ th[t].poisoned
    /\ th' = [th EXCEPT ![t] = Idle]
    /\ UNCHANGED <<job, exec, lock, clock, origin, lost, rewound, requests, crashes>>

-----------------------------------------------------------------------------
(* execute_job.                                                            *)

(* INSERT of the execution and UPDATE of the job in one commit; the foreign*)
(* key refuses it when the job has gone, and the failed flush poisons the  *)
(* session.                                                                *)
StartExecution(t) ==
    LET j == th[t].job
    IN  /\ th[t].pc = "start"
        /\ Free(j)
        /\ \/ /\ Live(j)
              /\ \E e \in Execs :
                    /\ exec[e].state = "fresh"
                    /\ \A f \in Execs : f < e => exec[f].state # "fresh"
                    /\ exec' = [exec EXCEPT ![e] = [state |-> "live", job |-> j,
                                                    status |-> "running"]]
                    /\ origin' = [origin EXCEPT ![e] = th[t].slot]
                    /\ th' = [th EXCEPT ![t].pc = "load", ![t].exec = e,
                                        ![t].snap = NoJobRow]
              /\ SetStatus(j, th[t].snap, "active")
           \/ ~Live(j) /\ Leave(t, TRUE) /\ UNCHANGED <<job, exec, origin>>
        /\ UNCHANGED <<lock, clock, lost, rewound, requests, crashes>>

(* The expired row is reloaded (a deleted one raises) and the process      *)
(* definition is read: it may be missing or unusable (fail), need a script *)
(* or only hold nodes that run in the thread.                              *)
ReadProcess(t) ==
    LET j == th[t].job
    IN  /\ th[t].pc = "load"
        /\ \/ ~Live(j) /\ Leave(t, FALSE)
           \/ /\ Live(j)
              /\ \E pc \in IF job[j].proc # "null" THEN {"fail", "script", "nodes"}
                           ELSE {"noproc"} :
                    th' = [th EXCEPT ![t].pc = pc, ![t].snap = job[j]]
        /\ UNCHANGED <<job, exec, lock, clock, origin, lost, rewound, requests, crashes>>

(* Mutant: the verdict goes to the last execution of the job.              *)
EndLatest(t, status) ==
    exec' = [e \in Execs |->
                IF /\ ExecLive(e) /\ exec[e].job = th[t].job
                   /\ \A f \in Execs : f > e => exec[f].job # th[t].job
                THEN [exec[e] EXCEPT !.status = status] ELSE exec[e]]

(* The execution as the thread's commit leaves it, when its row is there.  *)
EndExec(t, status) ==
    exec' = [exec EXCEPT ![th[t].exec] =
                IF ExecLive(th[t].exec) THEN [@ EXCEPT !.status = status] ELSE @]

(* A job without a process only records the execution.                     *)
NoProcess(t) ==
    /\ th[t].pc = "noproc"
    /\ EndExec(t, "completed")
    /\ Leave(t, FALSE)
    /\ UNCHANGED <<job, lock, clock, origin, lost, rewound, requests, crashes>>

(* Mutant: an early return without _set_execution_failed.                  *)
ReturnUnmarked(t) ==
    /\ th[t].pc = "fail"
    /\ Leave(t, FALSE)
    /\ UNCHANGED <<job, exec, lock, clock, origin, lost, rewound, requests, crashes>>

(* _set_execution_failed: the job row is left as it is.                    *)
SetExecutionFailed(t) ==
    /\ th[t].pc = "fail"
    /\ EndExec(t, "failed")
    /\ Leave(t, FALSE)
    /\ UNCHANGED <<job, lock, clock, origin, lost, rewound, requests, crashes>>

(* The generated script: exit code 0, another one, or timeout / exception. *)
RunScript(t) ==
    /\ th[t].pc = "script"
    /\ \E pc \in {"nodes", "badscript", "fail"} : Goto(t, pc)
    /\ UNCHANGED <<job, exec, lock, clock, origin, lost, rewound, requests, crashes>>

(* Mutant: a failed script only gives the job back.                        *)
ScriptForgotten(t) ==
    /\ th[t].pc = "badscript"
    /\ th' = [th EXCEPT ![t].pc = "reset", ![t].snap = NoJobRow]
    /\ UNCHANGED <<job, exec, lock, clock, origin, lost, rewound, requests, crashes>>

ScriptFailed(t) ==
    /\ th[t].pc = "badscript"
    /\ EndExec(t, "failed")
    /\ th' = [th EXCEPT ![t].pc = "reset", ![t].snap = NoJobRow]
    /\ UNCHANGED <<job, lock, clock, origin, lost, rewound, requests, crashes>>

(* Mutant: the status of the execution is written to the job.              *)
ReleaseCompleted(t) ==
    LET j == th[t].job
    IN  /\ Free(j)
        /\ IF Live(j) THEN SetStatus(j, job[j], "completed") ELSE UNCHANGED job

(* The status written by the last commit of an execution; an expired row   *)
(* is loaded by the query before it.                                       *)
ReleaseJob(t) ==
    LET j == th[t].job
        snap == IF th[t].snap.state = "fresh" THEN job[j] ELSE th[t].snap
    IN  /\ Free(j)
        /\ IF Live(j) THEN SetStatus(j, snap, "created") ELSE UNCHANGED job

ResetJob(t) ==
    /\ th[t].pc = "reset"
    /\ ReleaseJob(t)
    /\ Leave(t, FALSE)
    /\ UNCHANGED <<exec, lock, clock, origin, lost, rewound, requests, crashes>>

(* The penetration-test and inspection nodes.  Each scan commits its task  *)
(* row, which expires the loaded job.                                      *)
RunNodes(t) ==
    /\ th[t].pc = "nodes"
    /\ \E snap \in {th[t].snap, NoJobRow} :
          th' = [th EXCEPT ![t].pc = "finish", ![t].snap = snap]
    /\ UNCHANGED <<job, exec, lock, clock, origin, lost, rewound, requests, crashes>>

(* An exception of a node (a scan row deleted meanwhile, a checklist id    *)
(* that is no number) leaves execute_job: nothing marks the execution.     *)
NodeRaises(t) ==
    /\ th[t].pc = "nodes"
    /\ \E poison \in BOOLEAN : Leave(t, poison)
    /\ lost' = lost \cup {th[t].exec}
    /\ UNCHANGED <<job, exec, lock, clock, origin, rewound, requests, crashes>>

FinishExecution(t) ==
    /\ th[t].pc = "finish"
    /\ EndExec(t, "completed")
    /\ ReleaseJob(t)
    /\ Leave(t, FALSE)
    /\ UNCHANGED <<lock, clock, origin, lost, rewound, requests, crashes>>

-----------------------------------------------------------------------------
(* The environment.                                                        *)

Tick ==
    /\ clock < MaxTime
    /\ clock' = clock + 1
    /\ UNCHANGED <<job, exec, lock, th, origin, lost, rewound, requests, crashes>>

(* The process dies: its threads are gone, its open transactions roll back *)
(* and their locks are freed; the rows stay as committed.                  *)
Crash(s) ==
    LET mine == {t \in Threads : t[1] = s}
    IN  /\ crashes < MaxCrashes /\ requests + crashes < MaxRequests
        /\ \E t \in mine : th[t].pc # "idle"
        /\ th' = [t \in Threads |-> IF t \in mine THEN Idle ELSE th[t]]
        /\ lock' = [j \in Jobs |-> IF lock[j] \in mine THEN NoThread ELSE lock[j]]
        /\ lost' = lost \cup {e \in Execs : \E t \in mine : th[t].exec = e}
        /\ crashes' = crashes + 1
        /\ UNCHANGED <<job, exec, clock, origin, rewound, requests>>

Execute(t) ==
    \/ StartExecution(t) \/ ReadProcess(t) \/ NoProcess(t)
    \/ SetExecutionFailed(t) \/ RunScript(t) \/ ScriptFailed(t)
    \/ ResetJob(t) \/ RunNodes(t) \/ NodeRaises(t) \/ FinishExecution(t)

Schedule(t) ==
    \/ SelectDue(t) \/ Claim(t) \/ DropClaimed(t)
    \/ \E c \in Jobs \X Times : NextClaimed(t, c)

Step(t) == Execute(t) \/ Schedule(t) \/ WriteJob(t) \/ DeleteJob(t)

Users ==
    \/ \E j \in Jobs, c \in Creates : CreateJob(j, c)
    \/ \E t \in Threads, j \in Jobs :
          \/ \E op \in Ops \ {"none", "update"} : Request(t, j, op, NoBody)
          \/ \E body \in Updates : Request(t, j, "update", body)

Next ==
    \/ Users
    \/ \E t \in Threads : Step(t)
    \/ Tick
    \/ \E s \in Servers : Crash(s)

Spec == Init /\ [][Next]_vars

(* Threads are scheduled, every wait in execute_job has a timeout (600 s   *)
(* for a script, 3600 s for a scan), the scheduler ticks every minute and  *)
(* time passes.  Users need not do anything, and nothing has to crash.     *)
FairSpec == Spec /\ WF_vars(Tick) /\ \A t \in Threads : WF_vars(Step(t))

-----------------------------------------------------------------------------
(* Properties.                                                             *)

(* A thread inside a handler or execute_job has a job, and an execution    *)
(* from the commit that inserts it on.                                     *)
Equipped(r) ==
    /\ r.pc \in {"write", "start", "reset"} \cup Running => r.job \in Jobs
    /\ r.pc \in {"reset"} \cup Running => r.exec \in Execs

TypeOK ==
    /\ job \in [Jobs -> JobRow]
    /\ exec \in [Execs -> ExecRow]
    /\ lock \in [Jobs -> Threads \cup {NoThread}]
    /\ th \in [Threads -> Thread]
    /\ \A t \in Threads : Equipped(th[t])
    /\ clock \in 0 .. MaxTime
    /\ origin \in [Execs -> Times]
    /\ lost \subseteq Execs
    /\ rewound \subseteq Jobs
    /\ requests \in 0 .. MaxRequests
    /\ crashes \in 0 .. MaxCrashes

(* A due slot of a job starts at most one execution, over all server       *)
(* processes: the claim under FOR UPDATE in run_scheduled_jobs.  Only an   *)
(* update can break it: it computed next_run_at, the slots up to there were*)
(* claimed, and its commit moved next_run_at back before the claimed ones. *)
NoDuplicateRun ==
    \A e, f \in Execs :
        /\ e # f
        /\ ExecLive(e) /\ ExecLive(f)
        /\ exec[e].job = exec[f].job
        /\ exec[e].job \notin rewound
        /\ origin[e] # 0
        => origin[e] # origin[f]

(* From the locking SELECT to the commit of the claim the rows stay as     *)
(* selected: due, not terminated, not deleted, and locked by the claimer.  *)
ClaimedRowsStable ==
    \A t \in Threads : th[t].pc = "claim" =>
        \A j \in th[t].due : Due(j) /\ lock[j] = t

(* An execution recorded as running is being run by a thread, unless that  *)
(* thread died or raised: no return path of execute_job forgets it.        *)
RunningHasDriver ==
    \A e \in Execs : ExecLive(e) /\ exec[e].status = "running" =>
        \/ e \in lost
        \/ \E t \in Threads : th[t].exec = e /\ th[t].pc \in Running

(* The verdict on an execution is given once: a completed or failed row    *)
(* keeps its status until its job is deleted, whoever runs beside it.      *)
VerdictIsFinal ==
    [][\A e \in Execs :
          ExecLive(e) /\ exec[e].status # "running" =>
              exec'[e] = exec[e] \/ exec'[e].state = "gone"]_vars

(* Every execution gets its verdict, unless its thread died or raised.     *)
ExecutionsEnd ==
    \A e \in Execs :
        (ExecLive(e) /\ exec[e].status = "running")
            ~> (e \in lost \/ ~ExecLive(e) \/ exec[e].status # "running")

(* A due cron job does not stay due: some scheduler claims it, whatever    *)
(* the other schedulers lock and however long their executions take.       *)
DueIsClaimed ==
    \A j \in Jobs : (Due(j) /\ job[j].sched = "cron") ~> ~Due(j)

(* The claimed slots a thread has not started yet.                         *)
Holding(t) ==
    th[t].queue \cup (IF th[t].pc = "start" /\ th[t].slot # 0
                      THEN {<<th[t].job, th[t].slot>>} ELSE {})

Pending == UNION {Holding(t) : t \in Threads}

(* What an execution runs: its row and the slot it was started for.        *)
RunOf(e) ==
    IF ExecLive(e)
    THEN [state |-> exec[e].status, job |-> exec[e].job, slot |-> origin[e]]
    ELSE [state |-> exec[e].state, job |-> 0, slot |-> 0]

Runs == INSTANCE JobRuns WITH Slots <- Times \ {0}, pending <- Pending,
                              run <- [e \in Execs |-> RunOf(e)]

(* Claims, executions and deletions of all servers together are those of   *)
(* one scheduler that runs a slot once and gives one verdict, and again    *)
(* only those of a rewound job: row locks, sessions and the threads' stale *)
(* rows do not show through in any other way.                              *)
ImplementsRuns == Runs!Spec

(* Only an execute or update request takes a job out of terminated, not an *)
(* execution or a claim that was under way when it was terminated.         *)
TerminatedStays ==
    [][\A j \in Jobs :
          Live(j) /\ job[j].status = "terminated" /\ job'[j].status # "terminated"
          => \/ job'[j].state = "gone"
             \/ \E t \in Threads : th[t].job = j /\ th[t].op \in {"execute", "update"}
                                    /\ th[t].pc \in {"start", "write"}]_vars

(* A claimed job is executed or deleted.                                   *)
ClaimIsExecuted ==
    \A j \in Jobs, k \in Times :
        (\E t \in Threads : <<j, k>> \in th[t].queue)
            ~> (~Live(j) \/ \E e \in Execs : ExecLive(e) /\ exec[e].job = j
                                             /\ origin[e] = k)
=============================================================================
