------------------------------- MODULE JobRuns -------------------------------
(***************************************************************************)
(* What the job scheduler promises, whatever its servers, threads, sessions*)
(* and locks: a slot of a job is claimed when it has not been run, a claim *)
(* is used up by the one execution started for it (or lost, never used     *)
(* twice), and an execution runs, gets one verdict and goes with its job.  *)
(* Only a job whose schedule was moved back can run its slots again.       *)
(***************************************************************************)
EXTENDS Naturals

CONSTANTS
    Jobs,   \* the jobs
    Execs,  \* the executions
    Slots   \* the due times a schedule can have (positive)

VARIABLES
    pending,  \* the claimed slots no execution was started for yet
    run,      \* what the executions run: [state, job, slot]
    rewound   \* the jobs whose schedule was moved back

vars == <<pending, run, rewound>>

(* No job and no slot are 0: an execution a user asked for has no slot.    *)
NoRun(state) == [state |-> state, job |-> 0, slot |-> 0]

Ran(c) == \E e \in Execs : <<run[e].job, run[e].slot>> = c

Init ==
    /\ pending = {}
    /\ run = [e \in Execs |-> NoRun("fresh")]
    /\ rewound = {}

(* A scheduler claims all that is due in one transaction.                  *)
Claim ==
    \E cs \in SUBSET (Jobs \X Slots) :
        /\ \A c \in cs : c[1] \in rewound \/ (c \notin pending /\ ~Ran(c))
        /\ pending' = pending \cup cs
        /\ UNCHANGED <<run, rewound>>

Begin(e, j, k) ==
    /\ run[e].state = "fresh"
    /\ UNCHANGED rewound
    /\ run' = [run EXCEPT ![e] = [state |-> "running", job |-> j, slot |-> k]]

StartClaimed(e, c) ==
    /\ Begin(e, c[1], c[2])
    /\ c \in pending
    /\ pending' = pending \ {c}

(* A rewound slot may have been claimed more than once.                    *)
StartAgain(e, c) ==
    /\ Begin(e, c[1], c[2])
    /\ c \in pending /\ c[1] \in rewound
    /\ UNCHANGED pending

StartRequested(e, j) == Begin(e, j, 0) /\ UNCHANGED pending

(* A crash, a deleted job or a poisoned session drops claims.              *)
Lose ==
    /\ \E cs \in SUBSET pending : pending' = pending \ cs
    /\ UNCHANGED <<run, rewound>>

End(e, verdict) ==
    /\ run[e].state = "running"
    /\ run' = [run EXCEPT ![e].state = verdict]
    /\ UNCHANGED <<pending, rewound>>

(* A job goes with all its executions.                                     *)
Delete(j) ==
    /\ run' = [e \in Execs |-> IF run[e].job = j THEN NoRun("gone") ELSE run[e]]
    /\ UNCHANGED <<pending, rewound>>

Rewind(j) ==
    /\ rewound' = rewound \cup {j}
    /\ UNCHANGED <<pending, run>>

Next ==
    \/ Claim \/ Lose
    \/ \E e \in Execs :
          \/ \E c \in Jobs \X Slots : StartClaimed(e, c) \/ StartAgain(e, c)
          \/ \E j \in Jobs : StartRequested(e, j)
          \/ \E verdict \in {"completed", "failed"} : End(e, verdict)
    \/ \E j \in Jobs : Delete(j) \/ Rewind(j)

Spec == Init /\ [][Next]_vars
=============================================================================
