---------------------- MODULE JobSchedulerOnce_proofs ----------------------
(***************************************************************************)
(* Why a due slot of a job runs once: the proof that the claim excludes    *)
(* duplicates, for jobs that are scheduled by cron and whose next_run_at no*)
(* late commit of an update moved back.  A job that is switched to another *)
(* schedule type is the other case in which it does not.  On top of it,    *)
(* JobScheduler implements JobRuns: every step of a thread is a claim, the *)
(* start, end or deletion of runs, a rewind, the loss of claims, or none.  *)
(***************************************************************************)
EXTENDS JobScheduler_proofs

(* What the users send: a schedule is absent or a cron expression, and an  *)
(* update never takes a schedule away.                                     *)
CronOnly ==
    /\ \A c \in Creates : c.sched \in {"null", "cron"}
    /\ \A b \in Updates : b.sched \in {"unset", "cron"}

-----------------------------------------------------------------------------
(* The inductive invariant.                                                *)

(* A next run is always that of a cron job, and so is one that an update   *)
(* has computed or a loaded row stands for.                                *)
NextInv ==
    /\ \A j \in Jobs :
          /\ job[j].sched \in {"null", "cron"}
          /\ job[j].next # 0 => job[j].sched = "cron"
    /\ \A t \in Threads :
          /\ th[t].snap.sched \in {"null", "cron"}
          /\ th[t].job \in Jobs => job[th[t].job].state # "fresh"
          /\ th[t].job \in Jobs /\ Live(th[t].job) /\ th[t].snap.sched = "cron" =>
                job[th[t].job].sched = "cron"

(* A next_run_at an update computed is that of the cron schedule it sends. *)
WriteInv ==
    \A t \in Threads : th[t].pc = "write" /\ th[t].next # 0 =>
        th[t].body.sched = "cron"

(* The claim has computed next runs after the ones it found.               *)
ClaimInv ==
    \A t \in Threads : th[t].pc = "claim" =>
        \A j \in th[t].due : job[j].next < th[t].next

StartSeparate == \A t \in Threads : th[t].pc = "start" => <<th[t].job, th[t].slot>> \notin th[t].queue

(* A claimed slot lies before the next run of its job, in one place only,  *)
(* unless the job was rewound.                                             *)
HeldInv ==
    /\ \A t \in Threads : \A c \in Holding(t) :
          /\ c[2] # 0 /\ job[c[1]].state # "fresh"
          /\ Live(c[1]) => c[2] < job[c[1]].next \/ c[1] \in rewound
    /\ \A t, u \in Threads : \A c \in Holding(t) \cap Holding(u) :
          t = u \/ c[1] \in rewound

StartedInv ==
    \A e \in Execs : ExecLive(e) /\ origin[e] # 0 /\ exec[e].job \notin rewound =>
        /\ origin[e] < job[exec[e].job].next
        /\ \A t \in Threads : <<exec[e].job, origin[e]>> \notin Holding(t)

OnceInv ==
    /\ NextInv /\ WriteInv /\ ClaimInv
    /\ HeldInv /\ StartSeparate /\ StartedInv /\ NoDuplicateRun

-----------------------------------------------------------------------------
(* Rows only advance.                                                      *)

(* A row that is live after a step and was there before it has kept its    *)
(* cron schedule and, unless the job is rewound, its next run is not moved *)
(* back.                                                                   *)
RowsAdvance ==
    /\ rewound \subseteq rewound'
    /\ \A j \in Jobs :
          /\ job[j].state # "fresh" => job'[j].state # "fresh"
          /\ job'[j].state = "live" /\ job[j].state # "fresh" =>
                /\ job[j].state = "live"
                /\ job'[j].next >= job[j].next \/ j \in rewound'
                /\ job[j].sched = "cron" => job'[j].sched = "cron"

RowsSound ==
    \A j \in Jobs :
        /\ job[j].sched \in {"null", "cron"}
        /\ job[j].next # 0 => job[j].sched = "cron"

(* The numbers of the model are naturals.                                  *)
LEMMA Numbers ==
    ASSUME TypeOK
    PROVE  /\ clock \in Nat /\ \A j \in Jobs : job[j].next \in Nat
           /\ \A t \in Threads : th[t].next \in Nat /\ th[t].slot \in Nat
           /\ \A e \in Execs : origin[e] \in Nat
BY ConstantsAssumption DEF TypeOK, JobRow, Thread, Times

LEMMA NumbersNext == ASSUME TypeOK' PROVE \A j \in Jobs : job'[j].next \in Nat
BY ConstantsAssumption DEF TypeOK, JobRow, Times

LEMMA SameRowsAdvance ==
    ASSUME TypeOK, RowsSound, job' = job, rewound' = rewound
    PROVE  RowsAdvance /\ RowsSound'
BY Numbers DEF RowsAdvance, RowsSound

(* One row is written.                                                     *)
LEMMA OneRowAdvances ==
    ASSUME TypeOK, RowsSound, rewound \subseteq rewound', NEW j \in Jobs, NEW row,
           job' = [job EXCEPT ![j] = row],
           row.state = job[j].state, row.next \in Nat,
           row.next >= job[j].next \/ j \in rewound',
           row.sched \in {"null", "cron"}, row.next # 0 => row.sched = "cron",
           job[j].sched = "cron" => row.sched = "cron"
    PROVE  RowsAdvance /\ RowsSound'
<1>1. job'[j] = row /\ \A i \in Jobs \ {j} : job'[i] = job[i]
  BY DEF TypeOK
<1>. QED
  BY <1>1, Numbers DEF RowsAdvance, RowsSound

(* A status flush leaves the schedule and the next run as they are.        *)
LEMMA StatusAdvances ==
    ASSUME TypeOK, RowsSound, rewound \subseteq rewound', NEW j \in Jobs,
           NEW snap \in JobRow, NEW status \in JobStatus, SetStatus(j, snap, status)
    PROVE  RowsAdvance /\ RowsSound'
<1> DEFINE row == Flush(job[j], snap, [snap EXCEPT !.status = status])
<1>1. /\ row.state = job[j].state /\ row.next = job[j].next
      /\ row.sched = job[j].sched
  BY DEF Flush, TypeOK, JobRow
<1>2. job' = [job EXCEPT ![j] = row]
  BY DEF SetStatus
<1> HIDE DEF row
<1>3. /\ row.next \in Nat /\ row.next >= job[j].next
      /\ row.sched \in {"null", "cron"} /\ (row.next # 0 => row.sched = "cron")
      /\ job[j].sched = "cron" => row.sched = "cron"
  BY <1>1, Numbers DEF RowsSound
<1>. QED
  BY <1>1, <1>2, <1>3, OneRowAdvances

(* An update either leaves schedule and next run alone or makes the job a  *)
(* cron job that is due at the slot it computed; if that moves the next run*)
(* back, the job is rewound.                                               *)
LEMMA UpdateAdvances ==
    ASSUME CronOnly, TypeOK, NextInv, WriteInv, NEW t \in Threads, th[t].pc = "write",
           th[t].job \in Jobs, Live(th[t].job),
           rewound' = rewound \cup {i \in Jobs : job'[i].next < job[i].next},
           job' = [job EXCEPT ![th[t].job] =
                      Flush(@, th[t].snap, Updated(th[t].snap, th[t].body, th[t].next))]
    PROVE  RowsAdvance /\ RowsSound'
<1> DEFINE j == th[t].job
           snap == th[t].snap
           body == th[t].body
           next == th[t].next
           row == Flush(job[j], snap, Updated(snap, body, next))
<1>1. /\ snap \in JobRow /\ job[j] \in JobRow /\ j \in Jobs
      /\ snap.sched \in {"null", "cron"}
      /\ snap.sched = "cron" => job[j].sched = "cron"
      /\ job[j].sched \in {"null", "cron"}
      /\ job[j].next # 0 => job[j].sched = "cron"
      /\ next # 0 => body.sched = "cron"
  BY ThreadParts DEF NextInv, WriteInv, TypeOK
<1>2. body.sched \in {"unset", "cron"}
  BY ThreadParts DEF CronOnly, NoBody
<1>3. next \in Nat /\ job[j].next \in Nat
  BY <1>1, Numbers
<1>4. row.state = job[j].state /\ row.next \in {next, job[j].next}
  BY <1>1, ZenonT(60) DEF Flush, Updated, JobRow
<1>5. /\ row.sched \in {"null", "cron"}
      /\ row.next # 0 => row.sched = "cron"
      /\ job[j].sched = "cron" => row.sched = "cron"
  <2>1. CASE body.sched = "unset"
    <3>1. row.next = job[j].next /\ row.sched = job[j].sched
      BY <1>1, <2>1 DEF Flush, Updated, JobRow
    <3>. QED
      BY <1>1, <3>1
  <2>2. CASE body.sched = "cron"
    <3>1. row.sched = "cron"
      BY <1>1, <2>2 DEF Flush, Updated, JobRow
    <3>. QED
      BY <3>1
  <2>. QED
    BY <1>2, <2>1, <2>2
<1>6. job' = [job EXCEPT ![j] = row]
  OBVIOUS
<1> HIDE DEF row
<1>7. job'[j] = row
  BY <1>1, <1>6 DEF TypeOK
<1>8. row.next >= job[j].next \/ j \in rewound'
  BY <1>1, <1>3, <1>4, <1>7
<1>9. RowsSound /\ row.next \in Nat
  BY <1>3, <1>4 DEF NextInv, RowsSound
<1>. QED
  BY <1>1, <1>4, <1>5, <1>6, <1>8, <1>9, OneRowAdvances

(* The claim moves every claimed cron job strictly forward.                *)
LEMMA ClaimAdvances ==
    ASSUME TypeOK, NextInv, ClaimInv, ClaimedRowsStable, NEW t \in Threads, Claim(t)
    PROVE  /\ RowsAdvance /\ RowsSound' /\ rewound' = rewound
           /\ \A j \in th[t].due : /\ Due(j) /\ job'[j].state = job[j].state
                                   /\ job[j].next < job'[j].next
<1>1. \A j \in th[t].due : Due(j) /\ j \in Jobs /\ job[j].next < th[t].next
  BY ThreadParts DEF Claim, ClaimedRowsStable, ClaimInv
<1>2. /\ rewound' = rewound
      /\ \A j \in th[t].due : job'[j] = Claimed(job[j], th[t].next)
      /\ \A j \in Jobs \ th[t].due : job'[j] = job[j]
  BY <1>1 DEF Claim
<1>3. ASSUME NEW j \in th[t].due
      PROVE  /\ job'[j].next = th[t].next /\ job'[j].state = job[j].state
             /\ job'[j].sched = "cron" /\ job[j].sched = "cron"
  <2>1. j \in Jobs /\ job[j] \in JobRow /\ job[j].next # 0
    BY <1>1 DEF Due, TypeOK
  <2>2. job[j].sched = "cron"
    BY <2>1 DEF NextInv
  <2>3. job'[j] = [job[j] EXCEPT !.next = th[t].next]
    BY <1>2, <2>2 DEF Claimed
  <2>. QED
    BY <2>1, <2>2, <2>3 DEF JobRow
<1>4. RowsAdvance
  BY <1>1, <1>2, <1>3, Numbers DEF RowsAdvance
<1>5. RowsSound'
  BY <1>2, <1>3 DEF RowsSound, NextInv
<1>. QED
  BY <1>1, <1>2, <1>3, <1>4, <1>5

(* So does every step of a thread.                                         *)
LEMMA StepAdvances ==
    ASSUME CronOnly, TypeOK, NextInv, WriteInv, ClaimInv, ClaimedRowsStable,
           NEW t \in Threads, Step(t)
    PROVE  RowsAdvance /\ RowsSound'
<1>0. RowsSound /\ job \in [Jobs -> JobRow]
  BY DEF NextInv, RowsSound, TypeOK
<1>1. CASE Claim(t)
  BY <1>1, ClaimAdvances
<1>2. CASE StartExecution(t)
  <2>1. th[t].job \in Jobs /\ th[t].snap \in JobRow /\ rewound' = rewound
    BY <1>2, ThreadParts DEF StartExecution, TypeOK, Equipped
  <2>2. CASE job' = job
    BY <1>0, <2>1, <2>2, SameRowsAdvance
  <2>3. CASE SetStatus(th[t].job, th[t].snap, "active")
    BY <1>0, <2>1, <2>3, StatusAdvances DEF JobStatus
  <2>. QED
    BY <1>2, <2>2, <2>3 DEF StartExecution
<1>3. CASE WriteJob(t)
  <2>1. /\ th[t].job \in Jobs /\ th[t].snap \in JobRow /\ th[t].pc = "write"
        /\ rewound' = rewound \cup {i \in Jobs : job'[i].next < job[i].next}
    BY <1>3, ThreadParts DEF WriteJob, TypeOK, Equipped
  <2>2. CASE job' = job
    <3>1. \A j \in Jobs : ~(job[j].next < job[j].next)
      BY Numbers
    <3>2. rewound' = rewound
      BY <2>1, <2>2, <3>1
    <3>. QED
      BY <1>0, <2>2, <3>2, SameRowsAdvance
  <2>3. CASE \E status \in JobStatus : SetStatus(th[t].job, th[t].snap, status)
    BY <1>0, <2>1, <2>3, StatusAdvances
  <2>4. CASE Live(th[t].job) /\ job' = [job EXCEPT ![th[t].job] =
                 Flush(@, th[t].snap, Updated(th[t].snap, th[t].body, th[t].next))]
    BY <2>1, <2>4, UpdateAdvances
  <2>. QED
    BY <1>3, <2>2, <2>3, <2>4 DEF WriteJob, JobStatus
<1>4. CASE DeleteJob(t)
  <2>1. CASE job' = job
    BY <1>0, <1>4, <2>1, SameRowsAdvance DEF DeleteJob
  <2>2. CASE job' # job
    <3>1. /\ rewound' = rewound /\ \A i \in Jobs \ {th[t].job} : job'[i] = job[i]
          /\ th[t].job \in Jobs =>
                /\ job'[th[t].job].state = "gone" /\ job'[th[t].job].sched = "null"
                /\ job'[th[t].job].next = 0
      BY <1>0, <1>4, <2>2 DEF DeleteJob, NoJobRow
    <3>. QED
      BY <1>0, <3>1, Numbers DEF RowsAdvance, RowsSound
  <2>. QED
    BY <2>1, <2>2
<1>5. CASE ResetJob(t) \/ FinishExecution(t)
  <2> DEFINE snap == IF th[t].snap.state = "fresh" THEN job[th[t].job] ELSE th[t].snap
  <2>1. th[t].job \in Jobs /\ th[t].snap \in JobRow /\ rewound' = rewound
    BY <1>5, ThreadParts DEF ResetJob, FinishExecution, TypeOK, Equipped, Running
  <2>2. snap \in JobRow
    BY <1>0, <2>1
  <2>3. job' = job \/ SetStatus(th[t].job, snap, "created")
    BY <1>5 DEF ResetJob, FinishExecution, ReleaseJob
  <2> HIDE DEF snap
  <2>. QED
    BY <1>0, <2>1, <2>2, <2>3, SameRowsAdvance, StatusAdvances DEF JobStatus
<1>6. CASE job' = job /\ rewound' = rewound
  BY <1>0, <1>6, SameRowsAdvance
<1>7. ASSUME \/ ReadProcess(t) \/ NoProcess(t) \/ SetExecutionFailed(t) \/ RunScript(t)
             \/ ScriptFailed(t) \/ RunNodes(t) \/ NodeRaises(t) \/ DropClaimed(t)
             \/ SelectDue(t) \/ \E c \in Jobs \X Times : NextClaimed(t, c)
      PROVE  job' = job /\ rewound' = rewound
  BY <1>7 DEF ReadProcess, NoProcess, SetExecutionFailed, RunScript, ScriptFailed,
     RunNodes, NodeRaises, DropClaimed, SelectDue, NextClaimed
<1>. QED
  BY <1>1, <1>2, <1>3, <1>4, <1>5, <1>6, <1>7 DEF Step, Execute, Schedule

-----------------------------------------------------------------------------
(* What a step does to the threads.                                        *)

(* The loaded row is kept, dropped, or freshly loaded from the table.      *)
SnapKept(t) ==
    \/ th'[t].snap \in {th[t].snap, NoJobRow} /\ th'[t].job \in {th[t].job, 0}
    \/ /\ job' = job /\ th'[t].job \in Jobs /\ Live(th'[t].job)
       /\ th'[t].snap = job[th'[t].job]

(* The claimed slots of the thread get no more.                            *)
HoldingKept(t) ==
    /\ Holding(t)' \subseteq Holding(t)
    /\ th'[t].pc = "start" => <<th'[t].job, th'[t].slot>> \notin th'[t].queue

LEMMA SameThread ==
    ASSUME StartSeparate, NEW t \in Threads, th'[t] = th[t]
    PROVE  SnapKept(t) /\ HoldingKept(t)
BY DEF SnapKept, HoldingKept, Holding, StartSeparate

LEMMA IdleThread ==
    ASSUME NEW t \in Threads, th'[t] = Idle
    PROVE  SnapKept(t) /\ HoldingKept(t)
BY DEF SnapKept, HoldingKept, Holding, Idle

LEMMA LeavingThread ==
    ASSUME TypeOK, NEW t \in Threads, NEW poison, Leave(t, poison)
    PROVE  SnapKept(t) /\ HoldingKept(t)
<1>1. th'[t] = IF th[t].queue = {} THEN Idle
               ELSE [Idle EXCEPT !.pc = "next", !.queue = th[t].queue,
                                 !.poisoned = poison]
  BY DEF Leave, TypeOK
<1>2. /\ th'[t].snap = NoJobRow /\ th'[t].job = 0
      /\ th'[t].queue = th[t].queue /\ th'[t].pc \in {"idle", "next"}
  BY <1>1 DEF Idle
<1>. QED
  BY <1>2 DEF SnapKept, HoldingKept, Holding

(* A thread that moves on inside execute_job.                              *)
LEMMA MovingThread ==
    ASSUME NEW t \in Threads, th'[t].job = th[t].job, th'[t].queue = th[t].queue,
           th'[t].pc # "start",
           \/ th'[t].snap \in {th[t].snap, NoJobRow}
           \/ /\ job' = job /\ th[t].job \in Jobs /\ Live(th[t].job)
              /\ th'[t].snap = job[th[t].job]
    PROVE  SnapKept(t) /\ HoldingKept(t)
BY DEF SnapKept, HoldingKept, Holding

LEMMA StepThreads ==
    ASSUME TypeOK, StartSeparate, NEW t \in Threads, Step(t), ~Claim(t)
    PROVE  \A u \in Threads : SnapKept(u) /\ HoldingKept(u)
<1> DEFINE P == SnapKept(t) /\ HoldingKept(t)
<1>0. th \in [Threads -> Thread] /\ th[t] \in Thread
  BY DEF TypeOK
<1>1. \A u \in Threads \ {t} : th'[u] = th[u]
  <2>1. CASE SelectDue(t)
    BY <1>0, <2>1 DEF SelectDue
  <2>. QED
    BY <2>1, StepFrame
<1> SUFFICES P
  BY <1>1, SameThread
<1>2. CASE \/ NoProcess(t) \/ SetExecutionFailed(t) \/ ResetJob(t) \/ NodeRaises(t)
           \/ FinishExecution(t) \/ WriteJob(t) \/ DeleteJob(t)
  BY <1>2, LeavingThread DEF NoProcess, SetExecutionFailed, ResetJob, NodeRaises,
     FinishExecution, WriteJob, DeleteJob
<1>3. CASE StartExecution(t)
  <2>1. CASE Leave(t, TRUE)
    BY <2>1, LeavingThread
  <2>2. CASE ~Leave(t, TRUE)
    <3>1. PICK e \in Execs :
             th' = [th EXCEPT ![t].pc = "load", ![t].exec = e, ![t].snap = NoJobRow]
      BY <1>3, <2>2 DEF StartExecution
    <3>2. /\ th'[t].job = th[t].job /\ th'[t].queue = th[t].queue
          /\ th'[t].pc # "start" /\ th'[t].snap = NoJobRow
      BY <1>0, <3>1 DEF Thread
    <3>. QED
      BY <3>2, MovingThread
  <2>. QED
    BY <2>1, <2>2
<1>4. CASE ReadProcess(t)
  <2>1. CASE ~Live(th[t].job) /\ Leave(t, FALSE)
    BY <2>1, LeavingThread
  <2>2. CASE ~(~Live(th[t].job) /\ Leave(t, FALSE))
    <3>1. Live(th[t].job) /\ job' = job /\ th[t].job \in Jobs
      BY <1>4, <2>2 DEF ReadProcess, TypeOK, Equipped, Running
    <3>2. PICK pc \in {"fail", "script", "nodes", "noproc"} :
             th' = [th EXCEPT ![t] = [@ EXCEPT !.pc = pc, !.snap = job[th[t].job]]]
      BY <1>4, <2>2 DEF ReadProcess
    <3>3. /\ th'[t].job = th[t].job /\ th'[t].queue = th[t].queue
          /\ th'[t].pc # "start" /\ th'[t].snap = job[th[t].job]
      BY <1>0, <3>2 DEF Thread
    <3>. QED
      BY <3>1, <3>3, MovingThread
  <2>. QED
    BY <2>1, <2>2
<1>5. CASE RunScript(t) \/ ScriptFailed(t) \/ RunNodes(t) \/ SelectDue(t)
  <2>1. /\ th'[t].job = th[t].job /\ th'[t].queue = th[t].queue
        /\ th'[t].pc # "start" /\ th'[t].snap \in {th[t].snap, NoJobRow}
    BY <1>0, <1>5 DEF RunScript, Goto, ScriptFailed, RunNodes, SelectDue, Thread
  <2>. QED
    BY <2>1, MovingThread
<1>6. CASE DropClaimed(t)
  BY <1>0, <1>6, IdleThread DEF DropClaimed
<1>7. ASSUME NEW c \in Jobs \X Times, NextClaimed(t, c) PROVE P
  <2> DEFINE skip == [th[t] EXCEPT !.queue = @ \ {c}]
             start == [Idle EXCEPT !.pc = "start", !.job = c[1], !.slot = c[2],
                                   !.snap = job[c[1]], !.queue = th[t].queue \ {c}]
  <2>1. /\ th[t].pc = "next" /\ c \in th[t].queue /\ job' = job
        /\ c[1] \in Jobs /\ c = <<c[1], c[2]>>
    BY <1>7 DEF NextClaimed
  <2>2. CASE Live(c[1])
    <3>1. th'[t] = start
      BY <1>0, <1>7, <2>2 DEF NextClaimed
    <3>2. /\ th'[t].job = c[1] /\ th'[t].slot = c[2] /\ th'[t].snap = job[c[1]]
          /\ th'[t].queue = th[t].queue \ {c}
      BY <3>1 DEF Idle
    <3>. QED
      BY <2>1, <2>2, <3>2 DEF SnapKept, HoldingKept, Holding
  <2>3. CASE ~Live(c[1])
    <3>1. th'[t] = skip \/ th'[t] = Idle
      BY <1>0, <1>7, <2>3 DEF NextClaimed
    <3>2. /\ skip.job = th[t].job /\ skip.snap = th[t].snap /\ skip.pc = "next"
          /\ skip.queue = th[t].queue \ {c}
      BY <1>0, <2>1 DEF Thread
    <3> HIDE DEF skip
    <3>3. CASE th'[t] = skip
      BY <3>2, <3>3 DEF SnapKept, HoldingKept, Holding
    <3>. QED
      BY <3>1, <3>3, IdleThread
  <2>. QED
    BY <2>2, <2>3
<1>. QED
  BY <1>2, <1>3, <1>4, <1>5, <1>6, <1>7 DEF Step, Execute, Schedule

-----------------------------------------------------------------------------
(* The invariant is kept.                                                  *)

LEMMA NextInvKept ==
    ASSUME TypeOK, TypeOK', NextInv, RowsAdvance, RowsSound',
           \A t \in Threads : SnapKept(t)
    PROVE  NextInv'
<1> SUFFICES ASSUME NEW t \in Threads
             PROVE  /\ th'[t].snap.sched \in {"null", "cron"}
                    /\ th'[t].job \in Jobs => job'[th'[t].job].state # "fresh"
                    /\ th'[t].job \in Jobs /\ Live(th[t].job)' /\ th'[t].snap.sched = "cron" =>
                          job'[th'[t].job].sched = "cron"
  BY DEF NextInv, RowsSound
<1>0. 0 \notin Jobs /\ NoJobRow.sched = "null"
  BY ConstantsAssumption DEF NoJobRow
<1>1. CASE th'[t].snap \in {th[t].snap, NoJobRow} /\ th'[t].job \in {th[t].job, 0}
  <2>1. th'[t].snap.sched \in {"null", "cron"}
    BY <1>0, <1>1 DEF NextInv
  <2>2. ASSUME th'[t].job \in Jobs
        PROVE  th'[t].job = th[t].job /\ job'[th'[t].job].state # "fresh"
    BY <1>0, <1>1, <2>2 DEF NextInv, RowsAdvance
  <2>3. ASSUME th'[t].job \in Jobs, Live(th[t].job)', th'[t].snap.sched = "cron"
        PROVE  job'[th'[t].job].sched = "cron"
    <3> DEFINE j == th[t].job
    <3>1. j \in Jobs /\ th'[t].job = j /\ job'[j].state = "live" /\ th[t].snap.sched = "cron"
      BY <1>0, <1>1, <2>2, <2>3 DEF Live
    <3>2. Live(j) /\ (job[j].sched = "cron" => job'[j].sched = "cron")
      BY <3>1 DEF NextInv, RowsAdvance, Live
    <3>. QED
      BY <3>1, <3>2 DEF NextInv
  <2>. QED
    BY <2>1, <2>2, <2>3
<1>2. CASE /\ job' = job /\ th'[t].job \in Jobs /\ Live(th'[t].job)
           /\ th'[t].snap = job[th'[t].job]
  BY <1>2 DEF NextInv, Live
<1>. QED
  BY <1>1, <1>2 DEF SnapKept

LEMMA HoldingType ==
    ASSUME TypeOK, NEW t \in Threads
    PROVE  Holding(t) \subseteq Jobs \X Times
<1>1. th[t].queue \subseteq Jobs \X Times /\ th[t].slot \in Times
  BY ThreadParts
<1>2. th[t].pc = "start" => th[t].job \in Jobs
  BY DEF TypeOK, Equipped
<1>. QED
  BY <1>1, <1>2 DEF Holding

(* A claimed slot that lay before the next run of its job still does.      *)
LEMMA HeldBehind ==
    ASSUME TypeOK, TypeOK', HeldInv, RowsAdvance, NEW t \in Threads, NEW c \in Holding(t)
    PROVE  /\ c[1] \in Jobs /\ c[2] \in Nat /\ c[2] # 0 /\ job'[c[1]].state # "fresh"
           /\ Live(c[1])' => c[2] < job'[c[1]].next \/ c[1] \in rewound'
<1>1. c[1] \in Jobs /\ c[2] \in Nat
  <2>1. Times \subseteq Nat
    BY ConstantsAssumption DEF Times
  <2>. QED
    BY <2>1, HoldingType
<1>2. /\ c[2] # 0 /\ job[c[1]].state # "fresh"
      /\ Live(c[1]) => c[2] < job[c[1]].next \/ c[1] \in rewound
  BY DEF HeldInv
<1>3. job[c[1]].next \in Nat /\ job'[c[1]].next \in Nat
  BY <1>1, Numbers, NumbersNext
<1>4. /\ job'[c[1]].state # "fresh"
      /\ Live(c[1])' => /\ Live(c[1])
                        /\ job'[c[1]].next >= job[c[1]].next \/ c[1] \in rewound'
      /\ rewound \subseteq rewound'
  BY <1>1, <1>2 DEF RowsAdvance, Live
<1>. QED
  BY <1>1, <1>2, <1>3, <1>4

LEMMA HeldKept ==
    ASSUME TypeOK, TypeOK', HeldInv, RowsAdvance, \A t \in Threads : HoldingKept(t)
    PROVE  HeldInv' /\ StartSeparate'
<1>1. ASSUME NEW t \in Threads, NEW c \in Holding(t)'
      PROVE  /\ c[2] # 0 /\ job'[c[1]].state # "fresh"
             /\ Live(c[1])' => c[2] < job'[c[1]].next \/ c[1] \in rewound'
  <2>1. c \in Holding(t)
    BY <1>1 DEF HoldingKept
  <2>. QED
    BY <2>1, HeldBehind
<1>2. ASSUME NEW t \in Threads, NEW u \in Threads, NEW c \in Holding(t)' \cap Holding(u)'
      PROVE  t = u \/ c[1] \in rewound'
  <2>1. c \in Holding(t) \cap Holding(u)
    BY <1>2 DEF HoldingKept
  <2>. QED
    BY <2>1 DEF HeldInv, RowsAdvance
<1>3. StartSeparate'
  BY DEF HoldingKept, StartSeparate
<1>. QED
  BY <1>1, <1>2, <1>3 DEF HeldInv

(* A started slot stays behind the next run of its job.                    *)
LEMMA StartedBehind ==
    ASSUME TypeOK, TypeOK', StartedInv, DriverInv, RowsAdvance,
           NEW e \in Execs, ExecLive(e), origin[e] # 0, exec[e].job \notin rewound',
           job'[exec[e].job].state = "live"
    PROVE  /\ exec[e].job \in Jobs /\ origin[e] \in Nat
           /\ exec[e].job \notin rewound
           /\ origin[e] < job[exec[e].job].next
           /\ origin[e] < job'[exec[e].job].next
           /\ \A t \in Threads : <<exec[e].job, origin[e]>> \notin Holding(t)
<1>1. exec[e].job \in Jobs /\ Live(exec[e].job) /\ exec[e].job \notin rewound
  BY DEF DriverInv, ExecOfJob, RowsAdvance
<1>2. job'[exec[e].job].next >= job[exec[e].job].next
  BY <1>1 DEF RowsAdvance, Live
<1>3. /\ origin[e] < job[exec[e].job].next
      /\ \A t \in Threads : <<exec[e].job, origin[e]>> \notin Holding(t)
  BY <1>1 DEF StartedInv
<1>4. /\ origin[e] \in Nat /\ job[exec[e].job].next \in Nat
      /\ job'[exec[e].job].next \in Nat
  BY <1>1, Numbers, NumbersNext
<1>. QED
  BY <1>1, <1>2, <1>3, <1>4

(* A step that starts no execution keeps the started slots apart.          *)
LEMMA StartedKept ==
    ASSUME TypeOK, TypeOK', StartedInv, NoDuplicateRun, DriverInv, DriverInv',
           RowsAdvance, \A t \in Threads : HoldingKept(t), origin' = origin,
           \A e \in Execs : ExecLive(e)' => ExecLive(e) /\ exec'[e].job = exec[e].job
    PROVE  StartedInv' /\ NoDuplicateRun'
<1>1. ASSUME NEW e \in Execs, ExecLive(e)', origin[e] # 0, exec'[e].job \notin rewound'
      PROVE  /\ origin[e] < job'[exec'[e].job].next
             /\ \A t \in Threads : <<exec'[e].job, origin[e]>> \notin Holding(t)'
  <2>1. ExecLive(e) /\ exec'[e].job = exec[e].job
    BY <1>1
  <2>2. job'[exec[e].job].state = "live"
    BY <1>1, <2>1 DEF DriverInv, ExecOfJob, Live
  <2>3. /\ origin[e] < job'[exec[e].job].next
        /\ \A t \in Threads : <<exec[e].job, origin[e]>> \notin Holding(t)
    BY <1>1, <2>1, <2>2, StartedBehind
  <2>. QED
    BY <2>1, <2>3 DEF HoldingKept
<1>2. StartedInv'
  BY <1>1 DEF StartedInv
<1>3. NoDuplicateRun'
  BY DEF NoDuplicateRun, RowsAdvance
<1>. QED
  BY <1>2, <1>3

(* A step that brings no new update and no new claim.                      *)
LEMMA WriteKept ==
    ASSUME WriteInv, \A t \in Threads : th'[t].pc = "write" => th'[t] = th[t]
    PROVE  WriteInv'
BY DEF WriteInv

LEMMA ClaimKept ==
    ASSUME TypeOK, ClaimInv, ClaimedRowsStable,
           \A t \in Threads : th'[t].pc = "claim" => th'[t] = th[t],
           \A j \in Jobs : ~Free(j) => job'[j] = job[j]
    PROVE  ClaimInv'
<1> SUFFICES ASSUME NEW t \in Threads, th'[t].pc = "claim", NEW j \in th'[t].due
             PROVE  job'[j].next < th'[t].next
  BY DEF ClaimInv
<1>1. th'[t] = th[t] /\ j \in th[t].due /\ j \in Jobs
  BY ThreadParts
<1>2. ~Free(j)
  BY <1>1, FreeIsUnlocked DEF ClaimedRowsStable
<1>. QED
  BY <1>1, <1>2 DEF ClaimInv

(* A step of a thread that is not the start of a claim or a request.       *)
LEMMA StepKeepsComputed ==
    ASSUME TypeOK, WriteInv, ClaimInv, ClaimedRowsStable, NEW t \in Threads, Step(t)
    PROVE  WriteInv' /\ ClaimInv'
<1>0. th \in [Threads -> Thread] /\ th[t] \in Thread
  BY DEF TypeOK
<1>1. CASE SelectDue(t)
  <2>1. /\ job' = job /\ th'[t].pc = "claim" /\ th'[t].due = DueJobs
        /\ th'[t].next = clock + 1 /\ \A u \in Threads \ {t} : th'[u] = th[u]
    BY <1>0, <1>1 DEF SelectDue, Thread, NextRun
  <2>2. WriteInv'
    BY <2>1, WriteKept
  <2>3. ASSUME NEW j \in DueJobs PROVE job[j].next < clock + 1
    BY Numbers DEF DueJobs, Due
  <2>4. ClaimInv'
    BY <2>1, <2>3 DEF ClaimInv
  <2>. QED
    BY <2>2, <2>4
<1>2. CASE ~SelectDue(t)
  <2>1. /\ th'[t].pc # "claim" /\ th'[t].pc # "write"
        /\ \A u \in Threads \ {t} : th'[u] = th[u]
    BY <1>2, StepFrame
  <2>3. WriteInv'
    BY <2>1, WriteKept
  <2>4. CASE ~Claim(t)
    <3>1. \A j \in Jobs : ~Free(j) => job'[j] = job[j]
      BY <1>2, <2>4, WritesNeedLock
    <3>. QED
      BY <2>1, <2>3, <3>1, ClaimKept
  <2>5. CASE Claim(t)
    <3> SUFFICES ASSUME NEW u \in Threads, th'[u].pc = "claim", NEW j \in th'[u].due
                 PROVE  job'[j].next < th'[u].next
      BY <2>3 DEF ClaimInv
    <3>1. u # t /\ th'[u] = th[u] /\ lock[j] = u /\ j \in Jobs
      BY <2>1, ThreadParts DEF ClaimedRowsStable
    <3>2. j \notin th[t].due
      BY <2>5, <3>1 DEF Claim, ClaimedRowsStable
    <3>. QED
      BY <2>5, <3>1, <3>2 DEF Claim, ClaimInv
  <2>. QED
    BY <2>4, <2>5
<1>. QED
  BY <1>1, <1>2

(* The claimed slots are new ones.                                         *)
LEMMA ClaimHolds ==
    ASSUME TypeOK, TypeOK', OnceInv, ClaimedRowsStable, DriverInv, DriverInv',
           NEW t \in Threads, Claim(t)
    PROVE  OnceInv'
<1> DEFINE q == {<<j, job[j].next>> : j \in th[t].due}
<1>0. /\ RowsAdvance /\ RowsSound' /\ rewound' = rewound
      /\ \A j \in th[t].due : /\ Due(j) /\ job'[j].state = job[j].state /\ j \in Jobs
                              /\ job[j].next < job'[j].next
  BY ClaimAdvances, ThreadParts DEF OnceInv
<1>1. /\ th' = [th EXCEPT ![t] = [Idle EXCEPT !.pc = "next", !.queue = q]]
      /\ UNCHANGED <<exec, origin>>
  BY DEF Claim
<1>2. \A c \in q : /\ c[1] \in th[t].due /\ c[2] = job[c[1]].next
                   /\ c = <<c[1], c[2]>>
  OBVIOUS
<1> HIDE DEF q
<1>3. /\ th'[t].pc = "next" /\ th'[t].queue = q /\ th'[t].snap = NoJobRow
      /\ th'[t].job = 0
      /\ \A u \in Threads \ {t} : th'[u] = th[u]
  BY <1>1 DEF Idle, TypeOK
<1>4. Holding(t)' = q /\ \A u \in Threads \ {t} : Holding(u)' = Holding(u)
  BY <1>3 DEF Holding
<1>5. \A c \in q : \A u \in Threads : c \notin Holding(u) \/ c[1] \in rewound
  <2> SUFFICES ASSUME NEW c \in q, NEW u \in Threads, c \in Holding(u), c[1] \notin rewound
               PROVE  FALSE
    OBVIOUS
  <2>1. c[1] \in Jobs /\ Live(c[1]) /\ c[2] = job[c[1]].next
    BY <1>0, <1>2 DEF Due
  <2>2. c[2] < job[c[1]].next /\ job[c[1]].next \in Nat
    BY <2>1, Numbers DEF OnceInv, HeldInv
  <2>. QED
    BY <2>1, <2>2
<1>6. ASSUME NEW c \in q
      PROVE  c[2] # 0 /\ job'[c[1]].state # "fresh" /\ c[2] < job'[c[1]].next
  <2>1. /\ c[1] \in Jobs /\ Due(c[1]) /\ c[2] = job[c[1]].next
        /\ job'[c[1]].state = job[c[1]].state /\ job[c[1]].next < job'[c[1]].next
    BY <1>0, <1>2
  <2>. QED
    BY <2>1 DEF Due, Live
<1>7. NextInv'
  <2>1. \A u \in Threads : SnapKept(u)
    BY <1>3 DEF SnapKept
  <2>. QED
    BY <1>0, <2>1, NextInvKept DEF OnceInv
<1>8. HeldInv'
  <2>1. ASSUME NEW u \in Threads, u # t, NEW c \in Holding(u)
        PROVE  /\ c[2] # 0 /\ job'[c[1]].state # "fresh"
               /\ Live(c[1])' => c[2] < job'[c[1]].next \/ c[1] \in rewound'
    BY <1>0, <2>1, HeldBehind DEF OnceInv
  <2>2. \A u, v \in Threads : \A c \in Holding(u)' \cap Holding(v)' :
           u = v \/ c[1] \in rewound'
    BY <1>0, <1>4, <1>5 DEF OnceInv, HeldInv
  <2>. QED
    BY <1>4, <1>6, <2>1, <2>2 DEF HeldInv
<1>9. StartSeparate'
  BY <1>3 DEF OnceInv, StartSeparate
<1>10. StartedInv'
  <2> SUFFICES ASSUME NEW e \in Execs, ExecLive(e), origin[e] # 0, exec[e].job \notin rewound'
               PROVE  /\ origin[e] < job'[exec[e].job].next
                      /\ \A u \in Threads : <<exec[e].job, origin[e]>> \notin Holding(u)'
    BY <1>1 DEF StartedInv, ExecLive
  <2>1. job'[exec[e].job].state = "live"
    BY <1>1 DEF DriverInv, ExecOfJob, Live, ExecLive
  <2>2. /\ exec[e].job \in Jobs /\ origin[e] \in Nat
        /\ origin[e] < job[exec[e].job].next /\ origin[e] < job'[exec[e].job].next
        /\ \A u \in Threads : <<exec[e].job, origin[e]>> \notin Holding(u)
    BY <1>0, <2>1, StartedBehind DEF OnceInv
  <2>3. <<exec[e].job, origin[e]>> \notin q
    BY <1>2, <2>2, Numbers
  <2>. QED
    BY <1>4, <2>2, <2>3
<1>11. NoDuplicateRun'
  BY <1>0, <1>1 DEF OnceInv, NoDuplicateRun, ExecLive
<1>12. WriteInv' /\ ClaimInv'
  BY StepKeepsComputed DEF OnceInv, Step, Schedule
<1>. QED
  BY <1>7, <1>8, <1>9, <1>10, <1>11, <1>12 DEF OnceInv

(* Only the first commit of execute_job adds an execution.                 *)
LEMMA StepKeepsExecs ==
    ASSUME TypeOK, NEW t \in Threads, Step(t), ~StartExecution(t)
    PROVE  /\ origin' = origin
           /\ \A e \in Execs : ExecLive(e)' => ExecLive(e) /\ exec'[e].job = exec[e].job
<1> DEFINE P == /\ origin' = origin
                /\ \A e \in Execs : ExecLive(e)' => ExecLive(e) /\ exec'[e].job = exec[e].job
<1>1. ASSUME NEW status, EndExec(t, status), origin' = origin PROVE P
  BY <1>1 DEF EndExec, TypeOK, ExecRow, ExecLive
<1>2. CASE NoProcess(t) \/ SetExecutionFailed(t) \/ ScriptFailed(t) \/ FinishExecution(t)
  <2>1. (EndExec(t, "completed") \/ EndExec(t, "failed")) /\ origin' = origin
    BY <1>2 DEF NoProcess, SetExecutionFailed, ScriptFailed, FinishExecution
  <2>. QED
    BY <1>1, <2>1
<1>3. CASE DeleteJob(t)
  BY <1>3 DEF DeleteJob, NoExecRow, ExecLive
<1>4. CASE UNCHANGED <<exec, origin>>
  BY <1>4 DEF ExecLive
<1>5. ASSUME \/ ReadProcess(t) \/ RunScript(t) \/ ResetJob(t) \/ RunNodes(t)
             \/ NodeRaises(t) \/ DropClaimed(t) \/ SelectDue(t) \/ Claim(t) \/ WriteJob(t)
             \/ \E c \in Jobs \X Times : NextClaimed(t, c)
      PROVE  UNCHANGED <<exec, origin>>
  BY <1>5 DEF ReadProcess, RunScript, ResetJob, RunNodes, NodeRaises, DropClaimed,
     SelectDue, Claim, WriteJob, NextClaimed
<1>. QED
  BY <1>2, <1>3, <1>4, <1>5 DEF Step, Execute, Schedule

(* An execution takes over the slot its thread was holding.                *)
LEMMA StartTakesSlot ==
    ASSUME CronOnly, TypeOK, TypeOK', OnceInv, ClaimedRowsStable, DriverInv, DriverInv',
           NEW t \in Threads, StartExecution(t)
    PROVE  OnceInv'
<1>0. RowsAdvance /\ RowsSound'
  BY StepAdvances DEF OnceInv, Step, Execute
<1>1. \A u \in Threads : SnapKept(u) /\ HoldingKept(u)
  BY StepThreads DEF OnceInv, Step, Execute, StartExecution, Claim
<1>2. NextInv' /\ HeldInv' /\ StartSeparate' /\ WriteInv' /\ ClaimInv'
  BY <1>0, <1>1, NextInvKept, HeldKept, StepKeepsComputed DEF OnceInv, Step, Execute
<1>3. CASE ~Live(th[t].job)
  <2>1. UNCHANGED <<exec, origin>>
    BY <1>3 DEF StartExecution
  <2>. QED
    BY <1>0, <1>1, <1>2, <2>1, StartedKept DEF OnceInv, ExecLive
<1>4. CASE Live(th[t].job)
  <2> DEFINE j == th[t].job
             k == th[t].slot
  <2>1. PICK e \in Execs :
           /\ exec[e].state = "fresh"
           /\ exec' = [exec EXCEPT ![e] = [state |-> "live", job |-> j,
                                           status |-> "running"]]
           /\ origin' = [origin EXCEPT ![e] = k]
           /\ th' = [th EXCEPT ![t].pc = "load", ![t].exec = e, ![t].snap = NoJobRow]
    BY <1>4 DEF StartExecution
  <2>2. Live(j) /\ th[t].pc = "start" /\ j \in Jobs
    BY <1>4 DEF StartExecution, TypeOK, Equipped
  <2>3. /\ exec'[e].job = j /\ origin'[e] = k
        /\ \A f \in Execs \ {e} : exec'[f] = exec[f] /\ origin'[f] = origin[f]
    BY <2>1 DEF TypeOK
  <2>4. /\ th'[t].pc = "load" /\ th'[t].queue = th[t].queue
        /\ \A u \in Threads \ {t} : th'[u] = th[u]
    BY <2>1 DEF TypeOK, Thread
  <2>5. Holding(t)' = th[t].queue /\ \A u \in Threads \ {t} : Holding(u)' = Holding(u)
    BY <2>4 DEF Holding
  <2>6. job'[j].state = "live"
    BY <1>4, <2>2, JobRowStays DEF Step, Execute, StartExecution, DeleteJob, Live
  <2>7. ASSUME NEW f \in Execs, f # e, ExecLive(f)', origin'[f] # 0,
               exec'[f].job \notin rewound'
        PROVE  /\ origin'[f] < job'[exec'[f].job].next
               /\ \A u \in Threads : <<exec'[f].job, origin'[f]>> \notin Holding(u)'
    <3>1. ExecLive(f) /\ exec'[f].job = exec[f].job /\ origin'[f] = origin[f]
      BY <2>3, <2>7 DEF ExecLive
    <3>2. job'[exec[f].job].state = "live"
      BY <2>7, <3>1 DEF DriverInv, ExecOfJob, Live
    <3>3. /\ origin[f] < job'[exec[f].job].next
          /\ \A u \in Threads : <<exec[f].job, origin[f]>> \notin Holding(u)
      BY <1>0, <2>7, <3>1, <3>2, StartedBehind DEF OnceInv
    <3>. QED
      BY <1>1, <3>1, <3>3 DEF HoldingKept
  <2>8. ASSUME k # 0, j \notin rewound'
        PROVE  /\ k < job'[j].next
               /\ \A u \in Threads : <<j, k>> \notin Holding(u)'
               /\ \A f \in Execs \ {e} : ~(ExecLive(f)' /\ exec'[f].job = j /\ origin'[f] = k)
    <3>1. <<j, k>> \in Holding(t) /\ j \notin rewound
      BY <1>0, <2>2, <2>8 DEF Holding, RowsAdvance
    <3>2. k < job'[j].next
      <4>1. PICK c \in Holding(t) : c = <<j, k>>
        BY <3>1
      <4>2. job'[c[1]].state = "live" /\ c[1] \notin rewound' /\ c[1] = j /\ c[2] = k
        BY <2>6, <2>8, <4>1
      <4>3. c[2] < job'[c[1]].next
        BY <1>0, <4>2, HeldBehind DEF OnceInv, Live
      <4>. QED
        BY <4>2, <4>3
    <3>4. <<j, k>> \notin th[t].queue
      BY <2>2 DEF OnceInv, StartSeparate
    <3>5. \A u \in Threads \ {t} : <<j, k>> \notin Holding(u)
      <4>1. <<j, k>>[1] = j
        OBVIOUS
      <4>. QED
        BY <3>1, <4>1 DEF OnceInv, HeldInv
    <3>6. ASSUME NEW f \in Execs \ {e}, ExecLive(f)', exec'[f].job = j, origin'[f] = k
          PROVE  FALSE
      <4>1. ExecLive(f) /\ exec[f].job = j /\ origin[f] = k
        BY <2>3, <3>6 DEF ExecLive
      <4>. QED
        BY <2>8, <3>1, <4>1 DEF OnceInv, StartedInv
    <3>. QED
      BY <2>5, <3>2, <3>4, <3>5, <3>6
  <2>9. StartedInv'
    BY <2>3, <2>7, <2>8 DEF StartedInv
  <2>10. NoDuplicateRun'
    <3> SUFFICES ASSUME NEW f \in Execs, NEW g \in Execs, f # g, ExecLive(f)', ExecLive(g)',
                        exec'[f].job = exec'[g].job, exec'[f].job \notin rewound',
                        origin'[f] # 0, origin'[f] = origin'[g]
                 PROVE  FALSE
      BY DEF NoDuplicateRun
    <3>1. CASE f = e
      BY <2>3, <2>8, <3>1
    <3>2. CASE g = e
      BY <2>3, <2>8, <3>2
    <3>3. CASE f # e /\ g # e
      BY <1>0, <2>3, <3>3 DEF OnceInv, NoDuplicateRun, ExecLive, RowsAdvance
    <3>. QED
      BY <3>1, <3>2, <3>3
  <2>. QED
    BY <1>2, <2>9, <2>10 DEF OnceInv
<1>. QED
  BY <1>3, <1>4

LEMMA NextOnce ==
    ASSUME CronOnly
    PROVE  /\ TypeOK /\ TypeOK' /\ ClaimedRowsStable /\ DriverInv /\ DriverInv'
           /\ OnceInv /\ [Next]_vars
           => OnceInv'
<1> SUFFICES ASSUME TypeOK, TypeOK', ClaimedRowsStable, DriverInv, DriverInv', OnceInv,
                    [Next]_vars
             PROVE  OnceInv'
  OBVIOUS
<1>0. /\ th \in [Threads -> Thread] /\ job \in [Jobs -> JobRow] /\ RowsSound
  BY DEF TypeOK, OnceInv, NextInv, RowsSound
<1>1. ASSUME RowsAdvance, RowsSound', \A t \in Threads : SnapKept(t) /\ HoldingKept(t),
             origin' = origin, WriteInv', ClaimInv',
             \A e \in Execs : ExecLive(e)' => ExecLive(e) /\ exec'[e].job = exec[e].job
      PROVE  OnceInv'
  BY <1>1, NextInvKept, HeldKept, StartedKept DEF OnceInv
<1>2. ASSUME NEW j \in Jobs, NEW c \in Creates, CreateJob(j, c) PROVE OnceInv'
  <2>1. /\ job[j].state = "fresh" /\ \A i \in Jobs \ {j} : job'[i] = job[i]
        /\ job'[j].state = "live" /\ job'[j].sched = c.sched
        /\ job'[j].next = NextRun(c.sched, clock)
        /\ UNCHANGED <<th, exec, origin, rewound>>
    BY <1>0, <1>2 DEF CreateJob
  <2>2. RowsAdvance
    BY <2>1, Numbers DEF RowsAdvance
  <2>3. c.sched \in {"null", "cron"}
    BY DEF CronOnly
  <2>4. RowsSound'
    BY <1>0, <2>1, <2>3, Numbers DEF RowsSound, NextRun
  <2>5. \A t \in Threads : SnapKept(t) /\ HoldingKept(t)
    BY <2>1, SameThread DEF OnceInv
  <2>6. WriteInv'
    BY <2>1 DEF OnceInv, WriteInv
  <2>7. ClaimInv'
    <3> SUFFICES ASSUME NEW t \in Threads, th[t].pc = "claim", NEW i \in th[t].due
                 PROVE  job'[i].next < th[t].next
      BY <2>1 DEF ClaimInv
    <3>1. Due(i) /\ i \in Jobs
      BY ThreadParts DEF ClaimedRowsStable
    <3>2. i # j
      BY <2>1, <3>1 DEF Due, Live
    <3>. QED
      BY <2>1, <3>1, <3>2 DEF OnceInv, ClaimInv
  <2>. QED
    BY <1>1, <2>1, <2>2, <2>4, <2>5, <2>6, <2>7 DEF ExecLive
<1>3. ASSUME UNCHANGED <<job, exec, origin, rewound>>, WriteInv',
             \A t \in Threads : SnapKept(t) /\ HoldingKept(t),
             \A t \in Threads : th'[t].pc = "claim" => th'[t] = th[t]
      PROVE  OnceInv'
  <2>1. RowsAdvance /\ RowsSound'
    BY <1>0, <1>3, SameRowsAdvance
  <2>2. ClaimInv'
    BY <1>3, ClaimKept DEF OnceInv
  <2>. QED
    BY <1>1, <1>3, <2>1, <2>2 DEF ExecLive
<1>4. ASSUME NEW t \in Threads, NEW j \in Jobs, NEW op \in Ops,
             NEW body \in Updates \cup {NoBody}, Request(t, j, op, body)
      PROVE  OnceInv'
  <2>1. /\ UNCHANGED <<job, exec, origin, rewound>> /\ Live(j)
        /\ \A u \in Threads \ {t} : th'[u] = th[u]
        /\ th'[t].job = j /\ th'[t].snap = job[j] /\ th'[t].queue = {}
        /\ th'[t].slot = 0 /\ th'[t].pc \in {"start", "write"}
        /\ th'[t].body = body /\ th'[t].next = NextRun(body.sched, clock)
    BY <1>0, <1>4 DEF Request, Idle
  <2>2. SnapKept(t) /\ HoldingKept(t)
    BY <2>1 DEF SnapKept, HoldingKept, Holding
  <2>3. \A u \in Threads : SnapKept(u) /\ HoldingKept(u)
    BY <2>1, <2>2, SameThread DEF OnceInv
  <2>4. WriteInv'
    BY <2>1 DEF OnceInv, WriteInv, NextRun
  <2>. QED
    BY <1>3, <2>1, <2>3, <2>4
<1>5. ASSUME NEW t \in Threads, Step(t), ~Claim(t), ~StartExecution(t) PROVE OnceInv'
  <2>1. RowsAdvance /\ RowsSound'
    BY <1>5, StepAdvances DEF OnceInv
  <2>2. \A u \in Threads : SnapKept(u) /\ HoldingKept(u)
    BY <1>5, StepThreads DEF OnceInv
  <2>3. /\ origin' = origin
        /\ \A e \in Execs : ExecLive(e)' => ExecLive(e) /\ exec'[e].job = exec[e].job
    BY <1>5, StepKeepsExecs
  <2>4. WriteInv' /\ ClaimInv'
    BY <1>5, StepKeepsComputed DEF OnceInv
  <2>. QED
    BY <1>1, <2>1, <2>2, <2>3, <2>4
<1>6. CASE UNCHANGED <<job, th, exec, origin, rewound>>
  <2>1. \A t \in Threads : SnapKept(t) /\ HoldingKept(t)
    BY <1>6, SameThread DEF OnceInv
  <2>2. WriteInv'
    BY <1>6 DEF OnceInv, WriteInv
  <2>. QED
    BY <1>3, <1>6, <2>1, <2>2
<1>7. ASSUME NEW s \in Servers, Crash(s) PROVE OnceInv'
  <2>1. UNCHANGED <<job, exec, origin, rewound>>
        /\ \A t \in Threads : th'[t] = Idle \/ th'[t] = th[t]
    BY <1>7 DEF Crash
  <2>2. \A t \in Threads : SnapKept(t) /\ HoldingKept(t)
    BY <2>1, SameThread, IdleThread DEF OnceInv
  <2>3. Idle.pc = "idle"
    BY DEF Idle
  <2>4. WriteInv'
    BY <2>1, <2>3, WriteKept DEF OnceInv
  <2>. QED
    BY <1>3, <2>1, <2>2, <2>3, <2>4
<1>8. ASSUME NEW t \in Threads, Step(t) PROVE OnceInv'
  BY <1>5, <1>8, ClaimHolds, StartTakesSlot
<1>9. Tick \/ UNCHANGED vars => UNCHANGED <<job, th, exec, origin, rewound>>
  BY DEF Tick, vars
<1>. QED
  BY <1>2, <1>4, <1>6, <1>7, <1>8, <1>9 DEF Next, Users, Ops

LEMMA InitOnce == Init => OnceInv
<1> SUFFICES ASSUME Init PROVE OnceInv
  OBVIOUS
<1>1. /\ \A t \in Threads : /\ th[t].job = 0 /\ th[t].queue = {} /\ th[t].pc = "idle"
                            /\ th[t].snap = NoJobRow
      /\ \A e \in Execs : exec[e].state = "fresh"
      /\ \A j \in Jobs : job[j] = NoJobRow
  BY DEF Init, Idle, NoExecRow
<1>2. NoJobRow.sched = "null" /\ NoJobRow.next = 0 /\ 0 \notin Jobs
  BY ConstantsAssumption DEF NoJobRow
<1>3. NextInv
  BY <1>1, <1>2 DEF NextInv
<1>4. \A t \in Threads : Holding(t) = {}
  BY <1>1 DEF Holding
<1>. QED
  BY <1>1, <1>3, <1>4 DEF OnceInv, WriteInv, ClaimInv, HeldInv, StartSeparate,
     StartedInv, NoDuplicateRun, ExecLive

(* When jobs are scheduled by cron only, a due slot starts at most one     *)
(* execution, over any number of server processes, jobs, users' requests   *)
(* and crashes: what the FOR UPDATE claim of run_scheduled_jobs is for.    *)
(* The jobs of NoDuplicateRun whose next_run_at the late commit of an      *)
(* update moved back are the exception, and there is no other.             *)
THEOREM CronRunsOnce == ASSUME CronOnly PROVE Spec => []NoDuplicateRun
<1>1. OnceInv => NoDuplicateRun
  BY DEF OnceInv
<1>. QED
  BY <1>1, InitOnce, NextOnce, TypeCorrect, ClaimsAreStable, DriversInvariant, PTL DEF Spec

-----------------------------------------------------------------------------
(* The refinement of JobRuns.                                              *)

run == [e \in Execs |-> RunOf(e)]

(* A scheduler that looks for due jobs has no claimed ids left.            *)
FreshTick == \A t \in Threads : th[t].pc \in {"idle", "claim"} => th[t].queue = {}

-----------------------------------------------------------------------------
(* Threads with claimed ids left are never idle.                           *)

LEMMA TickStays ==
    ASSUME FreshTick, NEW t \in Threads, \A u \in Threads \ {t} : th'[u] = th[u],
           th'[t].pc \in {"idle", "claim"} => th'[t].queue = {}
    PROVE  FreshTick'
BY DEF FreshTick

LEMMA LeaveTick ==
    ASSUME TypeOK, FreshTick, NEW t \in Threads, NEW poison, Leave(t, poison)
    PROVE  FreshTick'
<1>1. th'[t] = IF th[t].queue = {} THEN Idle
               ELSE [Idle EXCEPT !.pc = "next", !.queue = th[t].queue,
                                 !.poisoned = poison]
  BY DEF Leave, TypeOK
<1>2. th'[t].pc \in {"idle", "claim"} => th'[t].queue = {}
  BY <1>1 DEF Idle
<1>. QED
  BY <1>2, LeaveFrame, TickStays

LEMMA NextTick == TypeOK /\ FreshTick /\ [Next]_vars => FreshTick'
<1> SUFFICES ASSUME TypeOK, FreshTick, [Next]_vars PROVE FreshTick'
  OBVIOUS
<1>0. th \in [Threads -> Thread]
  BY DEF TypeOK
<1>1. ASSUME NEW t \in Threads, Step(t) PROVE FreshTick'
  <2>1. CASE \/ NoProcess(t) \/ SetExecutionFailed(t) \/ ResetJob(t) \/ NodeRaises(t)
             \/ FinishExecution(t) \/ WriteJob(t) \/ DeleteJob(t)
    BY <2>1, LeaveTick DEF NoProcess, SetExecutionFailed, ResetJob, NodeRaises,
       FinishExecution, WriteJob, DeleteJob
  <2>2. CASE StartExecution(t)
    <3>1. CASE Leave(t, TRUE)
      BY <3>1, LeaveTick
    <3>2. CASE ~Leave(t, TRUE)
      <4>1. PICK e \in Execs :
               th' = [th EXCEPT ![t].pc = "load", ![t].exec = e, ![t].snap = NoJobRow]
        BY <2>2, <3>2 DEF StartExecution
      <4>2. th'[t].pc = "load" /\ \A u \in Threads \ {t} : th'[u] = th[u]
        BY <1>0, <4>1 DEF Thread
      <4>. QED
        BY <4>2, TickStays
    <3>. QED
      BY <3>1, <3>2
  <2>3. CASE ReadProcess(t)
    <3>1. CASE Leave(t, FALSE)
      BY <3>1, LeaveTick
    <3>2. CASE ~Leave(t, FALSE)
      <4>1. PICK pc \in {"fail", "script", "nodes", "noproc"} :
               th' = [th EXCEPT ![t] = [@ EXCEPT !.pc = pc, !.snap = job[th[t].job]]]
        BY <2>3, <3>2 DEF ReadProcess
      <4>2. th'[t].pc = pc /\ \A u \in Threads \ {t} : th'[u] = th[u]
        BY <1>0, <4>1 DEF Thread
      <4>. QED
        BY <4>2, TickStays
    <3>. QED
      BY <3>1, <3>2
  <2>4. CASE RunScript(t) \/ ScriptFailed(t) \/ RunNodes(t)
    <3>1. /\ th'[t].pc \in {"nodes", "badscript", "fail", "reset", "finish"}
          /\ \A u \in Threads \ {t} : th'[u] = th[u]
      BY <1>0, <2>4 DEF RunScript, Goto, ScriptFailed, RunNodes, Thread
    <3>. QED
      BY <3>1, TickStays
  <2>5. CASE SelectDue(t)
    <3>1. /\ th[t].pc = "idle" /\ th'[t].queue = th[t].queue
          /\ \A u \in Threads \ {t} : th'[u] = th[u]
      BY <1>0, <2>5 DEF SelectDue, Thread
    <3>. QED
      BY <3>1, TickStays DEF FreshTick
  <2>6. CASE DropClaimed(t)
    <3>1. th'[t].queue = {} /\ \A u \in Threads \ {t} : th'[u] = th[u]
      BY <1>0, <2>6 DEF DropClaimed, Idle
    <3>. QED
      BY <3>1, TickStays
  <2>7. CASE Claim(t)
    <3> DEFINE q == {<<j, job[j].next>> : j \in th[t].due}
    <3>1. th' = [th EXCEPT ![t] = [Idle EXCEPT !.pc = "next", !.queue = q]]
      BY <2>7 DEF Claim
    <3> HIDE DEF q
    <3>2. th'[t].pc = "next" /\ \A u \in Threads \ {t} : th'[u] = th[u]
      BY <1>0, <3>1 DEF Idle
    <3>. QED
      BY <3>2, TickStays
  <2>8. ASSUME NEW c \in Jobs \X Times, NextClaimed(t, c) PROVE FreshTick'
    <3> DEFINE left == th[t].queue \ {c}
               skip == [th[t] EXCEPT !.queue = left]
               start == [Idle EXCEPT !.pc = "start", !.job = c[1], !.slot = c[2],
                                     !.snap = job[c[1]], !.queue = left]
    <3>1. th[t].pc = "next" /\ Idle.queue = {}
      BY <2>8 DEF NextClaimed, Idle
    <3>2. skip.pc = "next" /\ start.pc = "start"
      BY <1>0, <3>1 DEF Thread, Idle
    <3>3. PICK r \in {skip, start, Idle} : th' = [th EXCEPT ![t] = r]
      BY <2>8 DEF NextClaimed
    <3> HIDE DEF skip, start
    <3>4. r.pc \in {"idle", "claim"} => r.queue = {}
      BY <3>1, <3>2
    <3>. QED
      BY <1>0, <3>3, <3>4, TickStays
  <2>. QED
    BY <1>1, <2>1, <2>2, <2>3, <2>4, <2>5, <2>6, <2>7, <2>8 DEF Step, Execute, Schedule
<1>2. ASSUME NEW t \in Threads, NEW j, NEW op, NEW body, Request(t, j, op, body)
      PROVE  FreshTick'
  <2>1. th'[t].queue = {} /\ \A u \in Threads \ {t} : th'[u] = th[u]
    BY <1>0, <1>2 DEF Request, Idle
  <2>. QED
    BY <2>1, TickStays
<1>3. ASSUME NEW s \in Servers, Crash(s) PROVE FreshTick'
  <2>1. \A t \in Threads : th'[t] = Idle \/ th'[t] = th[t]
    BY <1>3 DEF Crash
  <2>. QED
    BY <2>1 DEF FreshTick, Idle
<1>4. CASE th' = th
  BY <1>4 DEF FreshTick
<1>5. Tick \/ UNCHANGED vars \/ (\E j \in Jobs, c \in Creates : CreateJob(j, c)) => th' = th
  BY DEF Tick, vars, CreateJob
<1>. QED
  BY <1>1, <1>2, <1>3, <1>4, <1>5 DEF Next, Users

-----------------------------------------------------------------------------
(* The steps of JobRuns.                                                   *)

PendingInv ==
    Pending \subseteq Jobs \X (Times \ {0})

LEMMA PendingTyped == ASSUME TypeOK, OnceInv PROVE PendingInv
<1> SUFFICES ASSUME NEW t \in Threads, NEW c \in Holding(t)
             PROVE  c \in Jobs \X (Times \ {0})
  BY DEF PendingInv, Pending
<1>1. c \in Jobs \X Times
  BY HoldingType
<1>2. c[2] # 0
  BY DEF OnceInv, HeldInv
<1>. QED
  BY <1>1, <1>2

(* Executions and their origins as they were: claims are at most lost.     *)
LEMMA LoseStep ==
    ASSUME \A t \in Threads : HoldingKept(t), \A e \in Execs : RunOf(e)' = RunOf(e),
           rewound' = rewound
    PROVE  Runs!Next
<1>1. Pending' \subseteq Pending
  BY DEF Pending, HoldingKept
<1>2. run' = run
  BY DEF run
<1>3. \E cs \in SUBSET Pending : Pending' = Pending \ cs
  <2>1. Pending \ Pending' \in SUBSET Pending /\ Pending' = Pending \ (Pending \ Pending')
    BY <1>1
  <2>. QED
    BY <2>1
<1>4. Runs!Lose
  BY <1>2, <1>3 DEF Runs!Lose, run
<1>. QED
  BY <1>4 DEF Runs!Next

(* The same claims are held after a thread that was not about to start one *)
(* has moved on with its queue.                                            *)
LEMMA PendingSame ==
    ASSUME NEW t \in Threads, \A u \in Threads \ {t} : th'[u] = th[u],
           th'[t].queue = th[t].queue, th[t].pc # "start", th'[t].pc # "start"
    PROVE  Pending' = Pending
<1>1. \A u \in Threads : Holding(u)' = Holding(u)
  BY DEF Holding
<1>. QED
  BY <1>1 DEF Pending

LEMMA EndStep ==
    ASSUME TypeOK, DriverInv, NEW t \in Threads, th[t].pc \in Running,
           NEW status \in {"completed", "failed"}, EndExec(t, status), origin' = origin,
           \A u \in Threads \ {t} : th'[u] = th[u],
           th'[t].queue = th[t].queue, th'[t].pc # "start", rewound' = rewound
    PROVE  Runs!Next \/ UNCHANGED Runs!vars
<1>0. PICK e \in Execs : th[t].exec = e
  BY RunningHasExec
<1>1. /\ \A f \in Execs \ {e} : exec'[f] = exec[f]
      /\ exec'[e].state = exec[e].state /\ exec'[e].job = exec[e].job
      /\ ExecLive(e) => exec'[e].status = status /\ exec[e].status = "running"
      /\ ~ExecLive(e) => exec'[e] = exec[e]
  BY <1>0 DEF EndExec, TypeOK, ExecRow, ExecLive, DriverInv, OwnerRuns
<1>2. Pending' = Pending
  BY PendingSame, RunningPcs
<1>3. \A f \in Execs \ {e} : RunOf(f)' = RunOf(f)
  BY <1>1 DEF RunOf, ExecLive
<1>4. CASE ~ExecLive(e)
  <2>1. run' = run
    BY <1>1, <1>3, <1>4 DEF run, RunOf, ExecLive
  <2>. QED
    BY <1>2, <2>1 DEF Runs!vars, run
<1>5. CASE ExecLive(e)
  <2>1. RunOf(e).state = "running" /\ RunOf(e)' = [RunOf(e) EXCEPT !.state = status]
    BY <1>1, <1>5 DEF RunOf, ExecLive
  <2>2. run[e].state = "running" /\ run' = [run EXCEPT ![e].state = status]
    BY <1>3, <2>1 DEF run
  <2>3. Runs!End(e, status)
    BY <1>2, <2>2 DEF Runs!End, run
  <2>. QED
    BY <2>3 DEF Runs!Next
<1>. QED
  BY <1>4, <1>5

LEMMA DeleteStep ==
    ASSUME TypeOK, NEW t \in Threads, DeleteJob(t)
    PROVE  Runs!Next \/ UNCHANGED Runs!vars
<1> DEFINE j == th[t].job
<1>1. j \in Jobs /\ j # 0 /\ th[t].pc = "write" /\ UNCHANGED <<origin, rewound>>
  BY ConstantsAssumption DEF DeleteJob, TypeOK, Equipped
<1>2. Pending' = Pending
  BY <1>1, LeaveFrame, PendingSame DEF DeleteJob
<1>3. CASE exec' = exec
  <2>1. run' = run
    BY <1>1, <1>3 DEF run, RunOf, ExecLive
  <2>. QED
    BY <1>1, <1>2, <2>1 DEF Runs!vars, run
<1>4. CASE exec' = [e \in Execs |-> IF e \in Kids(j) THEN [NoExecRow EXCEPT !.state = "gone"]
                                    ELSE exec[e]]
  <2>1. ASSUME NEW e \in Execs
        PROVE  RunOf(e)' = IF RunOf(e).job = j THEN Runs!NoRun("gone") ELSE RunOf(e)
    BY <1>1, <1>4, <2>1 DEF Kids, RunOf, ExecLive, NoExecRow, Runs!NoRun
  <2>2. run' = [e \in Execs |-> IF run[e].job = j THEN Runs!NoRun("gone") ELSE run[e]]
    BY <2>1 DEF run
  <2>3. Runs!Delete(j)
    BY <1>1, <1>2, <2>2 DEF Runs!Delete, run
  <2>. QED
    BY <1>1, <2>3 DEF Runs!Next
<1>. QED
  BY <1>3, <1>4 DEF DeleteJob

(* An update may move the next run of its job back.                        *)
LEMMA WriteStep ==
    ASSUME TypeOK, NEW t \in Threads, WriteJob(t)
    PROVE  Runs!Next \/ UNCHANGED Runs!vars
<1> DEFINE j == th[t].job
<1>1. j \in Jobs /\ th[t].pc = "write" /\ UNCHANGED <<exec, origin>>
  BY DEF WriteJob, TypeOK, Equipped
<1>2. Pending' = Pending
  BY <1>1, LeaveFrame, PendingSame DEF WriteJob
<1>3. run' = run
  BY <1>1 DEF run, RunOf, ExecLive
<1>4. \A i \in Jobs \ {j} : job'[i] = job[i]
  BY DEF WriteJob, SetStatus, TypeOK
<1>5. \A i \in Jobs : ~(job[i].next < job[i].next)
  BY Numbers
<1>6. rewound' = rewound \/ rewound' = rewound \cup {j}
  <2>1. rewound' = rewound \cup {i \in Jobs : job'[i].next < job[i].next}
    BY DEF WriteJob
  <2>2. {i \in Jobs : job'[i].next < job[i].next} \subseteq {j}
    BY <1>4, <1>5
  <2>. QED
    BY <2>1, <2>2
<1>7. CASE rewound' = rewound
  BY <1>2, <1>3, <1>7 DEF Runs!vars, run
<1>8. CASE rewound' = rewound \cup {j}
  <2>1. Runs!Rewind(j)
    BY <1>2, <1>3, <1>8 DEF Runs!Rewind, run
  <2>. QED
    BY <1>1, <2>1 DEF Runs!Next
<1>. QED
  BY <1>6, <1>7, <1>8

LEMMA ClaimStep ==
    ASSUME TypeOK, OnceInv, ClaimedRowsStable, FreshTick, DriverInv,
           NEW t \in Threads, Claim(t)
    PROVE  Runs!Next
<1> DEFINE q == {<<j, job[j].next>> : j \in th[t].due}
<1>1. /\ th' = [th EXCEPT ![t] = [Idle EXCEPT !.pc = "next", !.queue = q]]
      /\ UNCHANGED <<exec, origin, rewound>> /\ th[t].pc = "claim"
  BY DEF Claim
<1>2. \A j \in th[t].due : Due(j) /\ j \in Jobs
  BY <1>1, ThreadParts DEF ClaimedRowsStable
<1>3. \A c \in q : /\ c[1] \in th[t].due /\ c[2] = job[c[1]].next
                   /\ c = <<c[1], c[2]>>
  OBVIOUS
<1> HIDE DEF q
<1>4. Holding(t) = {} /\ Holding(t)' = q /\ \A u \in Threads \ {t} : Holding(u)' = Holding(u)
  BY <1>1 DEF Holding, FreshTick, Idle, TypeOK
<1>5. Pending' = Pending \cup q
  BY <1>4 DEF Pending
<1>6. ASSUME NEW c \in q
      PROVE  /\ c \in Jobs \X (Times \ {0})
             /\ c[1] \in rewound \/ (c \notin Pending /\ ~Runs!Ran(c))
  <2>1. /\ c[1] \in Jobs /\ Live(c[1]) /\ c[2] = job[c[1]].next /\ c[2] # 0
        /\ c = <<c[1], c[2]>>
    BY <1>2, <1>3 DEF Due
  <2>2. c[2] \in Times /\ c[2] \in Nat
    BY <2>1, Numbers DEF TypeOK, JobRow
  <2> SUFFICES ASSUME c[1] \notin rewound PROVE c \notin Pending /\ ~Runs!Ran(c)
    BY <2>1, <2>2
  <2>3. c \notin Pending
    BY <2>1, <2>2 DEF Pending, OnceInv, HeldInv
  <2>4. ASSUME NEW e \in Execs, <<RunOf(e).job, RunOf(e).slot>> = c PROVE FALSE
    <3>1. RunOf(e).job = c[1] /\ RunOf(e).slot = c[2]
      BY <2>1, <2>4
    <3>2. ExecLive(e) /\ exec[e].job = c[1] /\ origin[e] = c[2]
      BY <2>1, <3>1 DEF RunOf
    <3>3. origin[e] < job[exec[e].job].next
      BY <2>1, <3>2 DEF OnceInv, StartedInv
    <3>. QED
      BY <2>1, <2>2, <3>2, <3>3
  <2>5. ~Runs!Ran(c)
    BY <2>4 DEF Runs!Ran
  <2>. QED
    BY <2>3, <2>5
<1>7. run' = run
  BY <1>1 DEF run, RunOf, ExecLive
<1>8. /\ q \in SUBSET (Jobs \X (Times \ {0}))
      /\ \A c \in q : c[1] \in rewound \/ (c \notin Pending /\ ~Runs!Ran(c))
  BY <1>6
<1>9. Runs!Claim
  BY <1>1, <1>5, <1>7, <1>8 DEF Runs!Claim, run
<1>. QED
  BY <1>9 DEF Runs!Next

LEMMA StartStep ==
    ASSUME TypeOK, OnceInv, NEW t \in Threads, StartExecution(t)
    PROVE  Runs!Next
<1>0. rewound' = rewound
  BY DEF StartExecution
<1>1. CASE ~Live(th[t].job)
  <2>1. UNCHANGED <<exec, origin>> /\ Leave(t, TRUE)
    BY <1>1 DEF StartExecution
  <2>2. HoldingKept(t) /\ \A u \in Threads \ {t} : th'[u] = th[u]
    BY <2>1, LeavingThread, LeaveFrame
  <2>3. \A u \in Threads : HoldingKept(u)
    BY <2>2, SameThread DEF OnceInv
  <2>4. \A e \in Execs : RunOf(e)' = RunOf(e)
    BY <2>1 DEF RunOf, ExecLive
  <2>. QED
    BY <1>0, <2>3, <2>4, LoseStep
<1>2. CASE Live(th[t].job)
  <2> DEFINE j == th[t].job
             k == th[t].slot
  <2>1. PICK e \in Execs :
           /\ exec[e].state = "fresh"
           /\ exec' = [exec EXCEPT ![e] = [state |-> "live", job |-> j,
                                           status |-> "running"]]
           /\ origin' = [origin EXCEPT ![e] = k]
           /\ th' = [th EXCEPT ![t].pc = "load", ![t].exec = e, ![t].snap = NoJobRow]
    BY <1>2 DEF StartExecution
  <2>2. th[t].pc = "start" /\ j \in Jobs /\ k \in Times
    BY ThreadParts DEF StartExecution, TypeOK, Equipped
  <2>3. /\ th'[t].pc = "load" /\ th'[t].queue = th[t].queue
        /\ \A u \in Threads \ {t} : th'[u] = th[u]
    BY <2>1 DEF TypeOK, Thread
  <2>4. Holding(t)' = th[t].queue /\ \A u \in Threads \ {t} : Holding(u)' = Holding(u)
    BY <2>3 DEF Holding
  <2>5. /\ RunOf(e).state = "fresh"
        /\ RunOf(e)' = [state |-> "running", job |-> j, slot |-> k]
        /\ \A f \in Execs \ {e} : RunOf(f)' = RunOf(f)
    BY <2>1 DEF RunOf, ExecLive, TypeOK
  <2>6. /\ run[e].state = "fresh"
        /\ run' = [run EXCEPT ![e] = [state |-> "running", job |-> j, slot |-> k]]
    BY <2>5 DEF run
  <2>7. CASE k = 0
    <3>1. Holding(t) = th[t].queue
      BY <2>7 DEF Holding
    <3>2. Pending' = Pending
      BY <2>4, <3>1 DEF Pending
    <3>3. Runs!StartRequested(e, j)
      BY <1>0, <2>6, <2>7, <3>2 DEF Runs!StartRequested, Runs!Begin, run
    <3>. QED
      BY <2>2, <3>3 DEF Runs!Next
  <2>8. CASE k # 0
    <3> DEFINE c == <<j, k>>
    <3>1. Holding(t) = th[t].queue \cup {c} /\ c \notin th[t].queue
      BY <2>2, <2>8 DEF Holding, OnceInv, StartSeparate
    <3>2. c \in Jobs \X (Times \ {0}) /\ c[1] = j /\ c[2] = k
      BY <2>2, <2>8
    <3> HIDE DEF c
    <3>3. Runs!Begin(e, c[1], c[2]) /\ c \in Pending
      BY <1>0, <2>6, <3>1, <3>2 DEF Runs!Begin, run, Pending
    <3>4. CASE \A u \in Threads \ {t} : c \notin Holding(u)
      <4>1. Pending' = Pending \ {c}
        BY <2>4, <3>1, <3>4 DEF Pending
      <4>2. Runs!StartClaimed(e, c)
        BY <3>3, <4>1 DEF Runs!StartClaimed
      <4>. QED
        BY <3>2, <4>2 DEF Runs!Next
    <3>5. CASE \E u \in Threads \ {t} : c \in Holding(u)
      <4>1. c[1] \in rewound
        BY <3>1, <3>5 DEF OnceInv, HeldInv
      <4>2. Pending' = Pending
        BY <2>4, <3>1, <3>5 DEF Pending
      <4>3. Runs!StartAgain(e, c)
        BY <3>3, <4>1, <4>2 DEF Runs!StartAgain
      <4>. QED
        BY <3>2, <4>3 DEF Runs!Next
    <3>. QED
      BY <3>4, <3>5
  <2>. QED
    BY <2>7, <2>8
<1>. QED
  BY <1>1, <1>2

-----------------------------------------------------------------------------
(* Every step of JobScheduler is one of JobRuns, or a stutter.             *)

LEMMA ThreadStepImplements ==
    ASSUME TypeOK, OnceInv, ClaimedRowsStable, FreshTick, DriverInv,
           NEW t \in Threads, Step(t)
    PROVE  Runs!Next \/ UNCHANGED Runs!vars
<1>1. CASE NoProcess(t) \/ SetExecutionFailed(t) \/ FinishExecution(t)
  <2>1. /\ EndExec(t, "completed") \/ EndExec(t, "failed")
        /\ Leave(t, FALSE) /\ UNCHANGED <<origin, rewound>> /\ th[t].pc \in Running
    BY <1>1 DEF NoProcess, SetExecutionFailed, FinishExecution, Running
  <2>2. /\ th'[t].queue = th[t].queue /\ th'[t].pc # "start"
        /\ \A u \in Threads \ {t} : th'[u] = th[u]
    BY <2>1, LeaveFrame
  <2>. QED
    BY <2>1, <2>2, EndStep
<1>2. CASE ScriptFailed(t)
  <2>1. /\ EndExec(t, "failed") /\ UNCHANGED <<origin, rewound>> /\ th[t].pc \in Running
        /\ th' = [th EXCEPT ![t].pc = "reset", ![t].snap = NoJobRow]
    BY <1>2 DEF ScriptFailed, Running
  <2>2. /\ th'[t].queue = th[t].queue /\ th'[t].pc # "start"
        /\ \A u \in Threads \ {t} : th'[u] = th[u]
    BY <2>1 DEF TypeOK, Thread
  <2>. QED
    BY <2>1, <2>2, EndStep
<1>3. CASE DeleteJob(t)
  BY <1>3, DeleteStep
<1>4. CASE Claim(t)
  BY <1>4, ClaimStep
<1>5. CASE StartExecution(t)
  BY <1>5, StartStep
<1>6. CASE UNCHANGED <<exec, origin, rewound>> /\ ~Claim(t)
  <2>1. \A u \in Threads : HoldingKept(u)
    BY <1>6, StepThreads DEF OnceInv
  <2>2. \A e \in Execs : RunOf(e)' = RunOf(e)
    BY <1>6 DEF RunOf, ExecLive
  <2>. QED
    BY <1>6, <2>1, <2>2, LoseStep
<1>7. ASSUME \/ ReadProcess(t) \/ RunScript(t) \/ ResetJob(t) \/ RunNodes(t)
             \/ NodeRaises(t) \/ DropClaimed(t) \/ SelectDue(t)
             \/ \E c \in Jobs \X Times : NextClaimed(t, c)
      PROVE  UNCHANGED <<exec, origin, rewound>>
  BY <1>7 DEF ReadProcess, RunScript, ResetJob, RunNodes, NodeRaises, DropClaimed,
     SelectDue, NextClaimed
<1>8. CASE WriteJob(t)
  BY <1>8, WriteStep
<1>. QED
  BY <1>1, <1>2, <1>3, <1>4, <1>5, <1>6, <1>7, <1>8 DEF Step, Execute, Schedule

LEMMA NextImplements ==
    TypeOK /\ OnceInv /\ ClaimedRowsStable /\ FreshTick /\ DriverInv /\ [Next]_vars
        => [Runs!Next]_Runs!vars
<1> SUFFICES ASSUME TypeOK, OnceInv, ClaimedRowsStable, FreshTick, DriverInv, [Next]_vars
             PROVE  Runs!Next \/ UNCHANGED Runs!vars
  OBVIOUS
<1>1. ASSUME NEW t \in Threads, Step(t) PROVE Runs!Next \/ UNCHANGED Runs!vars
  BY <1>1, ThreadStepImplements
<1>2. ASSUME UNCHANGED <<exec, origin, rewound>>, \A t \in Threads : HoldingKept(t)
      PROVE  Runs!Next
  <2>1. \A e \in Execs : RunOf(e)' = RunOf(e)
    BY <1>2 DEF RunOf, ExecLive
  <2>. QED
    BY <1>2, <2>1, LoseStep
<1>3. ASSUME NEW t \in Threads, NEW j, NEW op, NEW body, Request(t, j, op, body)
      PROVE  Runs!Next
  <2>1. /\ UNCHANGED <<exec, origin, rewound>>
        /\ th'[t].queue = {} /\ th'[t].slot = 0
        /\ \A u \in Threads \ {t} : th'[u] = th[u]
    BY <1>3 DEF Request, Idle, TypeOK
  <2>2. HoldingKept(t)
    BY <2>1 DEF HoldingKept, Holding
  <2>. QED
    BY <1>2, <2>1, <2>2, SameThread DEF OnceInv
<1>4. ASSUME NEW s \in Servers, Crash(s) PROVE Runs!Next
  <2>1. /\ UNCHANGED <<exec, origin, rewound>>
        /\ \A t \in Threads : th'[t] = Idle \/ th'[t] = th[t]
    BY <1>4 DEF Crash
  <2>. QED
    BY <1>2, <2>1, SameThread, IdleThread DEF OnceInv
<1>5. CASE UNCHANGED <<th, exec, origin, rewound>>
  BY <1>2, <1>5, SameThread DEF OnceInv
<1>6. Tick \/ UNCHANGED vars \/ (\E j \in Jobs, c \in Creates : CreateJob(j, c))
          => UNCHANGED <<th, exec, origin, rewound>>
  BY DEF Tick, vars, CreateJob
<1>. QED
  BY <1>1, <1>3, <1>4, <1>5, <1>6 DEF Next, Users

(* With cron schedules, the scheduler threads of any number of servers act *)
(* together as the one scheduler of JobRuns: a slot of a job that was not  *)
(* rewound is claimed once, its claim starts one execution or is lost, and *)
(* a run gets one verdict.                                                 *)
THEOREM SchedulerImplementsRuns == ASSUME CronOnly PROVE Spec => ImplementsRuns
<1>1. Init => Runs!Init
  <2> SUFFICES ASSUME Init PROVE Runs!Init
    OBVIOUS
  <2>1. \A t \in Threads : Holding(t) = {}
    BY DEF Init, Idle, Holding
  <2>2. \A e \in Execs : RunOf(e) = Runs!NoRun("fresh")
    BY DEF Init, RunOf, ExecLive, NoExecRow, Runs!NoRun
  <2>3. Pending = {}
    BY <2>1 DEF Pending
  <2>. QED
    BY <2>2, <2>3 DEF Init, Runs!Init
<1>2. Init => FreshTick
  BY DEF Init, Idle, FreshTick
<1>. QED
  BY <1>1, <1>2, NextTick, NextImplements, InitOnce, NextOnce, TypeCorrect, ClaimsAreStable,
     DriversInvariant, PTL DEF Spec, ImplementsRuns, Runs!Spec
=============================================================================
