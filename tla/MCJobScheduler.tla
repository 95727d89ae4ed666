--------------------------- MODULE MCJobScheduler ---------------------------
(***************************************************************************)
(* Values of the constants of JobScheduler for TLC.                        *)
(***************************************************************************)
EXTENDS JobScheduler, TLC

(* Publishing a process creates a one-off job with a process; POST /jobs   *)
(* can create one with a schedule.                                         *)
Published == [runType |-> "once", sched |-> "null", proc |-> "p1"]
CronJob   == [runType |-> "scheduled", sched |-> "cron", proc |-> "p1"]

(* The schedule dialog of a job sends run_type and schedule_config, the    *)
(* edit form neither.                                                      *)
ToCron     == [status |-> "unset", runType |-> "scheduled", sched |-> "cron",
               proc |-> "unset"]
ToInterval == [ToCron EXCEPT !.sched = "interval"]

OneCreate   == {CronJob}
PublishOnly == {Published}

(* A PUT can also take the process definition of a job away.               *)
CronUpdates == {[ToCron EXCEPT !.proc = "null"]}
AllUpdates  == {ToCron, ToInterval}
NoUpdates   == {}

ServerSymmetry == Permutations(Servers)
=============================================================================
