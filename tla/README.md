# TLA+ models of the netops backend

This directory holds TLA+ models of `netops-backend` (FastAPI, SQLAlchemy on
PostgreSQL, APScheduler threads, subprocesses), TLC configurations that check
them on small instances, and TLAPS proofs for every value of the constants.
Paths below are relative to `netops-backend/` unless they start with a module
name.

## 1. Inventory

A deployment is one PostgreSQL database and one or more *server processes*.
A server runs handlers in a pool of threads (each request has its own session)
and one `BackgroundScheduler` thread per timed job. Components share state
through the database; scans also through subprocesses and a table in memory.

| Component | State | Operations | What is hard | Correct when |
|---|---|---|---|---|
| Jobs and scheduler (`app/services/job.py`, `app/api/job.py`, `main.py`) | `jobs`, `job_executions`, row locks, ORM snapshots of threads | create, update, delete, execute, pause, resume, terminate; `run_scheduled_jobs` every minute in every server | claims of several servers, rows loaded before and written after somebody else's commit, deletes during execution, failed flushes, crashes | a due slot runs once, every execution gets one verdict, due jobs are claimed |
| Scans (`app/services/job.py`, `routes/strix_integration.py`) | `strix_scan_tasks`, process group, `_strix_processes` per server, echo and progress files | start, cancel, delete, progress, echo | cancel against start and verdict, process that outlives its server, timeouts | no stray process, no verdict lost, a running row has a runner |
| Process definitions (`app/api/process_management.py`) | `process_definitions`, `process_definition_versions`, the jobs made by publishing | create, update with a snapshot, rollback, publish, disable, delete | snapshot of a stale read, increment in the database, publish as check-then-act in two commits | version numbers identify contents, no content is lost, one job per definition |
| Backups and compliance (`routes/config_module.py`) | backups, policies, reports and their links, schedules, results | create with a cap of 90 per device, delete, import, run policies | count before insert, rows deleted between the reads and the commit of a run, links written by two requests | the cap, no dangling reference, a report's runs use the report's policies |
| IPAM (`routes/ipam_router.py`, `services/ipam_validators.py`, `services/ipam_csv_import.py`, `services/phpipam_import.py`) | aggregates, prefixes | create, update, delete, imports of three kinds; available ranges, utilisation | check before insert, unchecked imports, nested prefixes, ends of the address space | aggregates do not overlap, prefixes lie in their aggregate, ranges are what no prefix covers |
| DHCP (`services/dhcp_wmi_sync.py`) | targets, servers, scopes, leases | timed and requested synchronisation, links to prefixes | clear and refill in several commits, overlapping synchronisations, partial failure | what counts as stored is stored completely, nothing is left over, leases are in their scopes |
| CMDB (`routes/cmdb/`, `services/discovery/cmdb_sync.py`) | assets, lookup tables | create, update, delete, CSV import, discovery | one line that fails rolls back earlier ones, ids noted in a transaction that was undone | references and unique keys, an import that reports no failure has stored every line |
| Configuration files (`routes/config_management.py`) | `configurations` | row editing; what numbers versions is not mounted | - | - |
| Device connections (`utils/device_connection_manager.py`, pools) | pools in memory | connect, reuse, clean up | the main path refers to undefined names | - |
| Everything else | see `PROJECT.json` | row editing, text generation, collection | - | - |

How they interact: publishing a definition creates or updates a job through
`JobService`; `execute_job` reads the definition, runs a generated script and
the scan nodes, and commits scan rows with its own session (which expires the
job row it has loaded); a script may post backups; the scheduler executes jobs
in its own thread, one after the other; cancel and delete reach a scan from
any server's API threads.

## 2. Modules

| Module | Contents |
|---|---|
| `JobRuns` | abstract: claimed slots and runs, one scheduler |
| `JobScheduler` | jobs, executions, scheduler and API threads of all servers |
| `MCJobScheduler` | values of its constants for TLC |
| `JobScheduler_proofs` | types, claim stability, drivers of executions, verdicts |
| `JobSchedulerOnce_proofs` | a due slot of a cron job runs once; `JobScheduler` implements `JobRuns` |
| `StrixScan` | a scan: row, runner thread, process group, process tables, cancels |
| `StrixScan_proofs` | its four invariants |
| `ConfigModule` | backups, policies, reports, schedules, compliance runs |
| `IpamNetworks` | networks as sets of addresses |
| `IpamRanges` | the computations on one aggregate: available ranges, utilisation |
| `Ipam` | aggregates, prefixes and the three imports |
| `MCBackupsIpam` | values of the constants of these for TLC |
| `VersionLog` | abstract: the history of definitions as a log and its heads |
| `ProcessDefinitions` | definitions, versions, jobs made by publishing |
| `DhcpSync` | synchronisations, the three tables they fill, targets, links |
| `Cmdb` | assets, a lookup table, CSV import, discovery |
| `MCDefinitionsDhcp` | values of the constants of these three for TLC |
| `ConfigModule_proofs`, `Ipam_proofs`, `DhcpSync_proofs`, `ProcessDefinitions_proofs`, `Cmdb_proofs` | every property of the module (`Ipam_proofs`: of `Ipam` and `IpamRanges`), for all constants |

### JobScheduler

A step is one database transaction, or one stretch of `execute_job` between
two. `job` and `exec` are the two tables (`gone` marks a deleted key: keys come
from a sequence and are not used again). `th[t]` is a thread: `<<s, "sched">>`
is the scheduler thread of server `s`, `<<s, "api">>` a handler. `snap` in it
is the job row as the thread's session last loaded it; a commit expires it
(`NoJobRow`). `Flush` models what an ORM flush writes: only the attributes that
differ from the loaded values, so a stale attribute that is not assigned does
no harm, and one that is assigned overwrites whatever was committed meanwhile.
`next` in it is a `next_run_at` that has been computed and not committed: an update
computes it when it has loaded the row (`job.py:172`), before its flush waits for the
lock a scheduler may hold, so its commit can move `next_run_at` back over slots that
were claimed in between. `kids` are the executions a delete has loaded; the foreign
key of one inserted since then refuses the delete.

| Action | Code |
|---|---|
| `CreateJob` | `create_job` |
| `Request`, `WriteJob`, `DeleteJob` | the handlers of `/jobs/{id}`: load, check and compute, later write and commit |
| `SelectDue` | `SELECT ... FOR UPDATE` of `run_scheduled_jobs` |
| `Claim` | the loop that moves `next_run_at`, and its commit |
| `NextClaimed`, `DropClaimed` | the loop over `job_ids` and its `except` |
| `StartExecution` | `execute_job` to its first commit |
| `ReadProcess`, `NoProcess`, `SetExecutionFailed`, `RunScript`, `ScriptFailed`, `ResetJob` | the reading of the definition, the early returns, the script |
| `RunNodes`, `NodeRaises`, `FinishExecution` | the scan and inspection nodes, an exception in them, the last commit |
| `Tick`, `Crash` | the clock, the death of a server |

The clock counts the due times of a cron expression (`NextRun` is the next one
strictly after now), so jobs that are due at different times differ by slots.
`interval` stands for every schedule from which no next run is computed
(interval, calendar, an invalid expression). Reads of a definition and the
outcome of scripts and nodes are nondeterministic.

Abstractions: a thread that waits for row locks gets all of them in one step
(deadlock between two scans of the table in different row orders is not
modelled); a server has one API thread, two servers have two; a commit never fails for lack
of a database; names, parameters, logs and results are left out.

History variables: `origin` (the slot an execution was started for), `lost`
(executions whose thread died or raised) and `rewound` (jobs whose `next_run_at` the
late commit of an update moved back: the slots passed twice run twice in the code).
No guard reads any of them.

### JobRuns

What the scheduler promises, without servers, threads, sessions, locks or a
clock: `pending` is the set of claimed slots, `run` what each execution runs. A
slot is claimed when it is neither pending nor run; a claim is used up by the
execution started for it, or lost (a crash, a deleted job, a poisoned session);
a run gets one verdict and goes with its job. `Rewind` is the one exception: from
then on the slots of that job may be claimed and started again (`StartAgain`). `JobScheduler` instantiates it as
`Runs`: `rewound` is its own, `pending` is the union of the queues of all scheduler threads and of
the slots they are about to start (`Holding`), `run` is read off `job_executions`
and `origin`. `SelectDue`, status changes, a script and most of `execute_job`
are stutters; `Claim`, `StartExecution`, the commits of a verdict and
`DeleteJob` are the steps. The promise is at most once, not at least once:
`sched_poison` shows that claims are lost without a crash.

### StrixScan

`task` is the row, `runner` the thread of `execute_job` inside the loop over
penetration-test nodes, `proc` the processes of the scan (the leader of their session,
which `execute_job` started, and what that has started), `table` the
`_strix_processes` dictionary of each server, `req` the cancel requests.

| Action | Code |
|---|---|
| `StartScan`, `WriteScript`, `ScriptUnwritten` | row and directory, refresh, script file |
| `Launch`, `Register` | `Popen`, `register_strix_process` |
| `WaitDone`, `WaitTimesOut` | end of `proc.wait`, or `TimeoutExpired` / another exception: terminate, kill, wait |
| `Unregister`, `CommitVerdict` | the `finally` block |
| `CancelScan`, `PopProcess`, `KillProcess`, `CommitCancel` | `cancel_scan`: check, pop from this server's table, `killpg`, commit |
| `DeleteScan` | `delete_scan` |
| `ProcessExits`, `Crash` | the process ends by itself; a server dies, its processes do not |

`raised` is the runner that found its row deleted; in JobScheduler that is
`NodeRaises`. A process is `left` when its leader is over and others of its group go
on: the timeout terminates, and then kills, the leader alone (`job.py:590-595`,
`616-621`), a cancel the whole group as long as it finds it. Signals are taken to end
a process at once. The verdict after a kill may be `success`: the code looks for the
completion text in the output first.

### ConfigModule

All tables of `database/config_module_models.py` except the end-of-support
list: `backups`, `policy`, `report`, `links` (policies of a report), `plan`
(schedules; nothing runs them by the clock), `results`. `creq[u]` is the local
state of a request that is two or more steps long; `stamp` counts transactions
and gives `created_at`. `PickBackups` with nothing chosen includes the answer 404 for a device
without backups.

| Action | Code (`routes/config_module.py`) |
|---|---|
| `CreateBackup`, `StoreBackup` | `create_backup`: count and oldest row; delete, insert, commit |
| `DeleteBackup` | `delete_backup` |
| `CreatePolicy`, `UpdatePolicy`, `SetPolicyEnabled`, `SetGroupEnabled`, `DeletePolicy`, `DeleteGroup`, `ImportPolicies` | the handlers of `/compliance/policies` and of groups, file imports |
| `CreateReport`, `UpdateReport`, `StoreLinks` | `create_report`, `update_report` with `_set_report_policies` |
| `SetReportEnabled`, `ImportReport`, `DeleteReport` | the other handlers of `/compliance/reports` |
| `CreatePlan`, `UpdatePlan`, `DeletePlan` | the handlers of `/compliance/schedules` |
| `RunCompliance` / `RunPlan`, `PickBackups`, `StoreResults` | `run_compliance`, `run_compliance_schedule_now`: report and policies; `_resolve_backups_for_run`; insert and commit |
| `DeleteResults` | one or many results |

A foreign key is checked, and the row referred to is locked, from its statement
to the commit, so the check is part of the committing step. Whether a rule
matches a text is left out: a run of a policy on a backup is one result row.

History variables: `crowded` (hosts for which two creates overlapped), `torn`
(reports whose links two requests wrote at once), `linked` (every link there has
been).

What the code does and a reader may not expect: a host that was sent with
blanks is stored with them and never counted against the cap; a create without
a host counts and removes rows of every host under that device id; a run by
device type does not look at hosts stored with blanks; a run on a single
backup falls back to all policies, disabled ones included, when the report has
none that serve.

### IpamNetworks, IpamRanges and Ipam

A network is an aligned block `[lo, size]` of addresses of `Width` bits.

`IpamRanges` translates the loops of `_aggregate_utilization`,
`_aggregate_available_ranges` and `_address_range_to_cidrs`, one turn to a step,
with the local variables of the code as its variables. `rows` counts the prefixes of
each network: several may have the same one, the sum counts every one of them, and
the loop over the sorted subnets comes to them one after the other, which changes
nothing after the first. The prefixes are read once; the two computations follow each other on the same ones, as two requests
do when nobody writes in between.

| Action | Code (`routes/ipam_router.py`) |
|---|---|
| `AddMember` | the prefixes the query returns, any networks |
| `StartCount`, `CountMember` | the sum of `_aggregate_utilization` |
| `StartGaps`, `NextSubnet`, `LastGap` | the filter, the loop over the sorted subnets with its `break`, the gap behind them |
| `SplitGap` | one turn of `_address_range_to_cidrs` |

`rpc = "raised"` is the exception of `IPv4Address` for the address after the last
one. The properties compare a finished computation with sets of addresses.

`Ipam` has the tables `agg` and `pref` and a request `ireq[u]` that is checked in
one step and committed in another.

| Action | Code |
|---|---|
| `CreateAggregate`, `UpdateAggregate`, `ImportAggregateRow`, then `StoreAggregate` | `create_aggregate`, `update_aggregate`, a row of the CSV import, with `ipam_aggregate_overlaps_existing` |
| `CreatePrefix`, `UpdatePrefix`, `ImportPrefixRow`, then `StorePrefix` | `create_prefix`, `update_prefix`, a row of the CSV import, with `check_prefix_in_aggregate` |
| `DeleteAggregate`, `DeletePrefix` | the delete handlers, `ON DELETE SET NULL` |
| `ImportAggregates`, `ImportPrefix`, then `StorePrefix` | the NetBox and phpIPAM imports: aggregates without a check, then the prefixes with `_resolve_aggregate_id_for_prefix` |

A network that is stored is written in one way (a network whose text differs
but which denotes the same addresses is not modelled, nor is version 6). History variables: `imported`
(aggregates nobody checked), `raced` (stored although another one was, since
the check), `strayed` (prefixes whose aggregate changed under them or during
their write); `stale` marks a check that has been overtaken.

### ProcessDefinitions

`pdef`, `versions` and `pjobs` are the tables; `preq[s]` is the request server
`s` handles. The handlers are `async` without an `await`, so one server runs
them one after the other; two servers on one database interleave them.

| Action | Code (`app/api/process_management.py`) |
|---|---|
| `CreateDefinition`, `DeleteDefinition`, `DisableDefinition` | handlers of one commit |
| `UpdateRead`, `UpdateWrite` | `update_process_definition`: what it reads; snapshot, `version = version + 1`, row, commit |
| `RollbackRead`, `RollbackWrite` | `rollback_process_version` |
| `PublishStatus`, `PublishLookup`, `PublishJob` | `publish_process_definition`: the status and its commit, the query for a job, the job and its commit |
| `UserCreatesJob`, `UserDeletesJob`, `UserMovesJob` | `POST`, `DELETE` and `PUT` of `/jobs`: a user gives a definition a job, takes one away, or moves one to another definition or to none |
| `PdRestart` | a server that ends between two commits |

The snapshot is what was read first; the version is incremented by the UPDATE
statement itself (`version = version + 1`), so it counts from the row as it is
then: `Snapshot` and `NextVersion`. History variables: `committed`
(every version a definition has been), `rolled`, `skipped`, `crossed`,
`orphaned` (the exemptions named in the properties). That a job's definition exists
is nowhere required: the column is no foreign key.

### VersionLog

What the history promises, without servers, requests and tables: `log` has every
entry `[of, version, content]` that can still be found, `heads` what each
definition is now. An update appends the entry with the next number. An update
that was overtaken (another one committed between its read and its write) may
drop the entry it replaces, and a rollback moves the head back and may drop it too;
nothing else drops anything. `ProcessDefinitions` instantiates it as `History`: `heads`
are the rows of `process_definitions` (`Heads`), `log` these and the rows of
`process_definition_versions`, `overtaken` is `skipped` and `reverted` is `rolled`.
Reads, publishing, jobs and restarts are stutters; deleting a definition only sets
its status. `KeepsALog` is the refinement.

### DhcpSync

`dservers`, `dscopes` and `dleases` hold rows with `by`, the synchronisation that
wrote them. A synchronisation reads the enabled targets and collects from them
(`Collect`), empties the tables (`Clear`: three DELETE statements, after which rows
that others commit stay; `CommitClear`: the commit) and then stores target
after target in four commits: `StoreServers`, `StoreScopes`, `StoreLeases`,
`StoreName`. `StoreFails`
is an exception in any of them, `ClearFails` one in the first, `DhcpRestart` the
end of the process. `Locked` are the rows an open transaction has deleted: an insert
that refers to one waits. What a machine answers is any report `WmiReports` or
`WinRmReports` allow, which includes the errors the code accepts, machines that have
no name for themselves (`Nameless`) and leases that come back with another name for
their server or scope than they were asked for with (`lost`: letters the decoding
replaces). Such scopes and leases are skipped (`Placed`, `FoundLeases`) or go to the
first scope of their name on any machine (`Homes`), and the target counts as stored
all the same. `LinkScope`,
`AddPrefix`, `RemovePrefix` and the `...Target` actions are the handlers that write
the same rows.

`alone` is a history field: the synchronisation has not been overtaken by
another since it emptied the tables. Overlapping ones may leave a mixture and
foreign keys may refuse rows; that is what the properties exempt. Known
behaviour: the data of a target that fails are gone until it answers again, links
to prefixes are lost at each synchronisation, and when the row of a target that
fails has been deleted, the handler of the failure raises and the targets after
it are not stored.

### Cmdb

`assets` and `lookups` (one of the six lookup tables with the same handlers) are
the committed tables, `imp` is the import or discovery under way, with the rows
its transaction has written. `found` is the row a query has loaded; the UPDATE of the
flush has only the attributes that differ from it (`Written`), so a type that has been
deleted meanwhile is noticed only when it has to be written, and an address another
user has changed meanwhile stays (`crossed`). `Free`, `Unlocked`, `FreeName`, `Unused` say which keys and rows
PostgreSQL keeps from others until it commits.

| Action | Code |
|---|---|
| `CreateLookup`, `UpdateLookup`, `DeleteLookup` | `routes/cmdb/base.py` |
| `CreateAsset`, `UpdateAsset`, `DeleteAssets` | `routes/cmdb/asset.py` |
| `StartImport`, `SkipLine`, `ReadLine`, `WriteLine`, `EndImport` | `import_assets_from_csv`: maps, a line without required fields, its query by tag, its flush or rollback, commit |
| `Discover`, `StoreDiscovery` | `sync_discovered_to_cmdb` |
| `CmRestart` | the end of the process |

`ReadLine` creates the lookup row a line needs and then queries the asset by its tag.
`WriteLine` has the three outcomes of a flush: it succeeds; an integrity error
rolls back every line so far (they stay counted as imported) and the import
goes on with the ids it had noted; any other error (an update of an asset that is
gone, a value that does not fit its column) leaves the session unusable, all later
lines fail and the request is answered by an error. A discovery stores its devices one
after the other in one transaction; one is modelled. PUT requests are one step, so
updates that two of them lose are not modelled.

## 3. Runs

| Run | Bounds | Shows |
|---|---|---|
| `sched_safety` | 1 job, 2 executions, 2 servers, 3 requests, a crash counting as one, clock to 2; 1.2 million states | types, no duplicate run unless an update moved the next run back, stable claims, running executions have a thread, one verdict |
| `sched_live` | 2 jobs, 2 executions, 2 servers, 2 requests, a crash counting as one, clock to 2; 0.10 million states | executions end, due jobs are claimed while the other server executes or is dead, `JobRuns` is implemented |
| `sched_interval` | 1 job, 2 servers | counterexample: a job switched from cron to interval repeats a slot |
| `sched_terminated` | 1 job, 2 servers | counterexample: the end of an execution undoes a terminate |
| `sched_poison` | 2 jobs, 1 server | counterexample: after a failed flush the other claimed jobs are dropped |
| `scan` | 1 scan, 2 servers, 2 cancels, 1 crash; 17 thousand states | table current, no process left by the thread that waits for it, running rows have a runner, scans end |
| `scan_cancelled` | 1 scan, 2 servers, 1 cancel | counterexample: a cancel recorded after the thread's wait, before its commit, is overwritten by the verdict |
| `scan_kill` | 1 scan, 2 servers, 1 cancel | counterexample: cancelled is recorded and the process goes on |
| `backups_ipam` | backups: cap 2, 1 host under 2 device ids, 1 policy, 1 report, 1 schedule, 2 requests, 4 transactions that insert; IPAM: 2 aggregates, 1 prefix, 3 nested networks, 2 requests; ranges: 8 addresses, up to 3 prefixes; 0.44 million states | references, the cap, oldest first, whose policies run, links of one request, disjoint aggregates, prefixes inside them, ranges that are exact and as few as can be |
| `definitions_dhcp` | definitions: 2 servers, 1 definition, 2 contents, versions to 3, 2 jobs; DHCP: 2 synchronisations, 2 targets with a scope of the same name each, 1 prefix; CMDB: 3 files, 2 tags, 2 names, lookup keys to 2; 0.40 million states | histories that are the log of `VersionLog`, one job, complete tables without leftovers, leases at home, references, what an import reports |
| `backup_full` | 1 request, cap 2 | counterexample: a device whose oldest backup has a result takes no further backup |
| `ipam_available` | 8 addresses, up to 2 prefixes | counterexample: a prefix nested in another makes covered addresses available |

Bounds: the races of the scheduler are between two threads over one job row,
so one job, two servers and two executions show them, and three requests allow
create, update and one of delete, execute or terminate; two slots are needed
for a stale `next_run_at`, and for a slot that comes while the other server executes
the one before. Two jobs matter where one tick claims several:
liveness and the dropped claims. Scans do not share state, so one is enough;
two cancels on two servers cover two users and both tables.

The two runs of several modules each explore the parts one at a time: `part`
chooses one in the initial state, only its `Next` applies and the variables of the
others keep their initial values, so states add up and do not multiply; the parts
share no tables. Some modules are explored several times under bounds that differ,
each large where another is small: backups with many transactions and no reports
(`backups`) and reports with fewer (`compliance`); two requests on aggregates alone
(`aggregates`), on one aggregate and its prefixes (`prefixes`), and one at a time on
everything (`singly`); histories without publishing and publishing with fewer versions
(`history`, `publishing`); two synchronisations with all names and without prefixes,
and one at a time with both (`tables`, `links`). No machine is `Nameless` in the run;
the theorems cover any. Two requests, servers or synchronisations are the smallest number
that interleave, and the theorems of section 4 cover any number. With cap 2 and
four inserting transactions a host reaches its cap, has a row evicted, and a
compliance run or a second create comes between. A network and its two halves
give containment, overlap and disjointness; 8 addresses with three prefixes give
nested, adjacent, repeated and outlying prefixes at both ends of the aggregate.
Two lookup names, one known and one new, and files of new assets, with a line that
lacks a field and with a value that does not fit reach every outcome of a line. `Symmetry` permutes
requests, contents and machines, which no definition orders; action properties
and invariants only are checked under it.

In every run users
may stop sending requests and the clock stops at its bound, so reaching a state
without successors is not an error (`CHECK_DEADLOCK FALSE`); waiting for each
other would show as a violation of `DueIsClaimed`, `ExecutionsEnd` or
`ScansEnd`. `ServerSymmetry` is used for the safety run only.

Fairness: `WF_vars(Step(t))` for each thread, since threads are scheduled by
the system and every wait in `execute_job` has a timeout (600 s for a script,
3600 s for a scan, 15 s for a webhook); `WF_vars(Tick)` because time passes; in
StrixScan weak fairness of the runner and of a cancel under way. The strix
process is not assumed to end by itself, users need not send anything and
nothing has to crash. Row locks are held from `SelectDue` to `Claim` only, so
weak fairness is enough for those that wait.

### What the counterexamples mean

* `sched_interval`: `main.py:189` promises that a job is claimed by one process
  and does not run twice. The claim moves `next_run_at` only for `cron`; a job
  turned into `interval` keeps an old one and is due in every tick.
  `CronRunsOnce` proves the promise for cron jobs.
* `sched_terminated`: `execute_job` ends with `status = "created"` whatever the
  job's status has become, so terminating a running job has no effect.
* `sched_poison`: the `except` of `run_scheduled_jobs` does not roll back.
* `scan_cancelled`: the runner sets its verdict when its wait is over and commits it
  later without looking at the row; a cancel recorded in between is lost.
* `backup_full`: `routes/config_module.py:311` promises that over the cap the oldest
  row makes room. A compliance result that refers to it makes the delete fail,
  and with it every later create for that device.
* `ipam_available`: `routes/ipam_router.py:104` promises ranges that no prefix covers.
  The next gap starts after the last prefix looked at, which may end before an
  earlier, larger one does. `FreeIsReported` shows that no free address is missed
  all the same, and `RangesExact` that prefixes that do not overlap give exact
  ranges.
* `scan_kill`: the row says running before the process is registered, and the
  table of processes is local to a server.

## 4. Proofs

All theorems are for arbitrary sets of jobs, executions, servers, scans,
requests, rows and networks, any cap, any width of an address and any bounds.
Assumptions: `ConstantsAssumption`, `ScanConstants`, `CfgAssumption`,
`IpamAssumption`, `WidthAssumption`, `DhcpAssumption`, `PdAssumption`, `CmAssumption`
(keys are positive numbers, request bodies are well typed, bounds are numbers). Every
safety property of a passing run is proved, but for `SimplestList`.

Jobs and scans:

* `TypeCorrect`: `TypeOK` is inductive.
* `ClaimsAreStable`: inductive with the types. The argument is that every
  action that writes a job row needs it unlocked (`WritesNeedLock`), and that
  the clock only makes a due job more due.
* `RunningIsDriven`: not inductive by itself. `DriverInv` adds that an
  execution a thread holds belongs to that thread alone (`Owned`), that the
  holder of a running execution is at a step of `execute_job` (`OwnerRuns`) and
  that the row names the thread's job (`ExecOfJob`), which is what a cascading
  delete needs.
* `VerdictsAreFinal`: from `DriverInv`; only the one driver of a running
  execution writes its status.
* `CronRunsOnce`: under `CronOnly` (no body of a request carries a schedule
  without a computed next run, the case `sched_interval` refutes). The
  inductive invariant `OnceInv` has five parts. `NextInv`: next runs are at
  most one slot ahead, and a thread's loaded row never has a later next run
  than the table. `HeldInv`: a claimed slot that is not started lies before the
  job's next run and is held by one thread. `StartSeparate`: the slot being
  started is not also waiting in the same thread's queue. `StartedInv`: a
  started slot lies before the next run and nobody still holds it. Then
  `NoDuplicateRun`. All of this is about jobs that are not `rewound`: the steps are
  lemmas on `RowsAdvance` (no step moves the next run of another job back), which is
  where a write from a stale row could break it.
* `SchedulerImplementsRuns`: under `CronOnly`, initial states map to initial
  states and every step to a step of `JobRuns` or a stutter. `OnceInv` makes a
  claim of a job that is not `rewound` fresh (its slot is the next run, and everything held or started lies
  before it) and makes a start use up exactly one claim; `DriverInv` makes the
  execution a verdict goes to a running one; `FreshTick` (a thread that selects
  has an empty queue) means that a claim drops nothing. Steps that leave
  executions alone are covered by one lemma: they can only lose claims.
* `ScanTypes`, `RegistryStaysCurrent`, `ProcessesAreWaitedFor`,
  `RunningScansAreRun`: each invariant is inductive with the types and
  `FreshIsIdle` (a key without a row has no runner).

`ConfigModule`:

* `CfgTypes`: with `CfgLocal`, which ties the program counter of a request to
  its local state and a schedule to a report.
* `NothingDangles`: inductive with the types. The argument is in the commits:
  each step that refers to a row looks at it again, and each that deletes one
  looks at what refers to it or takes it along. It fails if a commit trusts what
  the request read.
* `LinksOfOneRequest`: needs `OneWriter`, that a request about to write links has
  seen all the report's links unless another one writes them as well.
* `RunsKeepToTheReport`: needs `ChosenLinked`, that what a run has chosen was a
  link when it chose.
* `OldBackupsGoFirst`: needs `Times` (stored or to be stored, every backup has a
  time of its own and what a create removes is older than it) and `Alone` (a
  create no other one for the host overlaps will remove the oldest rows).
* `CapHolds`: needs `Room` on top, that such a create leaves room for the row it
  inserts. That a non-empty set of counted rows has an oldest one rests on the
  least number of a set of naturals; that removing it makes the set smaller, on
  cardinalities of finite sets.

`Ipam` (`IpamSteps` reduces the four ways to write a prefix to one step with what
its checks establish, `Sound`):

* `IpamTypes`: types and the foreign key of the prefixes.
* `AggregatesApart`: `ApartInv` adds what a write under way knows (`Checked`): until
  another aggregate is stored, which marks it, all aggregates that overlap its
  network are imported ones.
* `PrefixesInside`: `InsideInv` adds what a write under way may rely on (`Relies`:
  its network fits the aggregate it was checked against as long as it is not
  marked, and an update that leaves the aggregate alone was checked against its
  own) and that rows that are not live are empty (`Empty`). Containment itself is
  not expanded: the argument is only about which check covers which write.

`IpamRanges` (in `Ipam_proofs`; `RangesInvariant`, the loop invariants together):

* `RangesTypes`: types; gaps and ranges lie in the aggregate.
* `NoFreeAddressMissed`: `NothingMissed` (an address the loop has passed is in a gap,
  in a range or in a prefix) holds for any prefixes, because the loop sets `low`
  to the end of a prefix whatever came before: moving back is harmless to it.
  `InOrder` (gaps lie before `low` and before what is still to do) makes the
  ranges disjoint.
* `RangesAreExact`: `OnlyFree`, when prefixes are inside and apart, says that those
  done lie before `low` and those to do at or after it; this is what a
  nested prefix breaks (`ipam_available`). `CountExact` relates the sum to the
  cardinality of the addresses counted.
`DhcpSync`:

* `DhcpTypes`: `LocalInv` (program counter, batches and sets of one
  synchronisation fit together) with the rows and their foreign keys (`Rows`).
* `NothingLeftOver`: `Apart`, that while a synchronisation is alone nobody else is
  storing.
* `StoredIsComplete`: `Progress`, which says for each target how much of its report
  is in the tables at each program counter (`Reached`), with what the code skips.
* `LeasesAtHome`: needs that the scopes of a target are among the keys of its
  synchronisation when its leases are stored, so that the search by both names finds
  one and the fallback is not taken; for any scopes of any other machine.

`ProcessDefinitions`:

* `PdTypes`: with `ReadsExist`, that a pending update or rollback is of a
  definition that exists.
* `NumbersNameContents`: `Numbered`; until a rollback the current number is the
  largest, so an increment gives a new one.
* `NothingForgotten`: inductive with the types: an update that is not overtaken
  stores what it replaces.
* `PublishingLeavesAJob`: `FoundRemains`, that a job a publish has found is still
  there unless it was deleted or moved.
* `PublishingIsIdempotent`: `Sole`; as long as no two publishes meet, the one that
  has found no job is the only one that can make one.
* `DefinitionsKeepALog`: initial states map to initial states and every step to a
  step of `VersionLog` or a stutter. `Numbered` shows that the number an update
  gives is beyond every number of the log; `ReadsStored` that what a rollback goes
  back to is still an entry (version rows are never deleted); `ReadsExist` that
  there is a row to move. An update that has read its current row appends; one
  that has not is overtaken, and the snapshot of its stale read is the one entry
  it may bring back.

`Cmdb` (`CmInv`):

* `CmTypes`: types, unique keys, and the foreign key of the assets while an import
  holds rows nobody else sees. Besides the types it needs `KeysUsed` (keys of the
  lookup sequence are not given twice, also those a rollback undid), `NamesApart`
  (names and keys of the lookup rows the import has inserted are not in the table) and `WrittenFits`
  (what an import has written so far fits the tables as they are now, because
  PostgreSQL keeps those keys and rows from others: `Free`, `Unlocked`, `FreeName`,
  `Unused`).
* `NoFailureStored`: `AllWritten`: as long as an import has counted no failure, every
  line it has read has a row in its transaction, from it or from a later line for its
  tag, and unless somebody changed the asset in between (`crossed`) the row is what the
  line asks, also where the UPDATE left out what was that already; `Reading` ties its program counter to
  the line it is at. A rollback counts a failure first, which is why the numbers
  of other imports may be wrong and this one's are not.

Model-checked only: the liveness properties `ExecutionsEnd`, `DueIsClaimed` and
`ScansEnd` (no proof rules for fairness are available to the prover used here);
`SimplestList`, that the ranges are as few as can be (it needs the arithmetic of powers
of two, which the prover does not do); and the counterexamples.

## 5. Plan

1. A composition in which the runner of `StrixScan` is the thread of `JobScheduler`
   inside its nodes, and one in which `PublishJob` is a `CreateJob`.
2. An abstract specification of the DHCP tables as a sequence of complete
   collections, implemented by `DhcpSync` when synchronisations do not overlap.

## 6. Not modelled

The modules cover the parts of the back end in which several steps or several
actors work on shared state. That is a small part of the source files: most
of the rest edits single rows, collects data from devices and clouds, generates
text, or is not reached. By component (`PROJECT.json` has one entry for each):

* Authentication, tokens, users, roles, audit: checks over single rows within one
  request; the token handlers refer to names that are not defined
  (`is_token_revoked` and others), so what they do beyond raising is not settled by
  the source.
* `utils/device_connection_manager.py` refers to undefined names on its main path,
  and `utils/connection_manager.py` is imported by no route: there is no behaviour
  of a connection pool to translate.
* `routes/cmdb.py` is hidden by the package `routes/cmdb/`; `routes/config.py` and
  `services/config_management.py`, which number versions of configuration files, and
  the process designer are not mounted by `main.py`.
* Collection over WMI, WinRM, SSH, SNMP and cloud interfaces, NetBox and phpIPAM
  requests: what they return is nondeterministic where a module uses it.
* Monitoring webhooks, inspection checklists, templates, global settings,
  certificates, the end-of-support list, credentials: rows written one by one.
* Reports, generated code and scripts, the verdict of a compliance rule on a text:
  text.
* `live_echo.txt` and `progress.json` of a scan: the timed writer and the final
  writer of `app/services/job.py` may meet in the instant between an unlock and
  a write; the files are only shown to users.
* Celery tasks, maintenance scripts, `_run_scan_task`: nothing in the running
  program calls them.
* The web interface: which requests it can send determines the inputs of the
  modules; it keeps no shared state.

In the modelled parts the read-only queries (lists, statistics, downloads) are
left out.
