---------------------------- MODULE ConfigModule ----------------------------
(***************************************************************************)
(* Configuration backups and compliance: the tables of                     *)
(* database/config_module_models.py and the handlers of /config-module     *)
(* that write them.  Handlers run in a pool of threads, each with its own  *)
(* session under READ COMMITTED.  A handler is one step where nothing can  *)
(* come between its reads and its commit that changes the outcome, and     *)
(* else one step up to the last read and one that writes and commits.      *)
(* A foreign key is checked, and a row that is deleted or referred to is   *)
(* locked, from the statement to the commit: the check is part of the      *)
(* step that commits.                                                      *)
(***************************************************************************)
EXTENDS Naturals, FiniteSets

CONSTANTS
    CfgUsers,    \* requests that are handled at the same time
    DeviceIds,   \* device_id of a backup
    Hosts,       \* device_host of a backup, stripped
    NoHost,      \* device_host NULL, empty or blank
    TypedHosts,  \* hosts whose CMDB asset has the device type of the reports
    Bodies,      \* bodies of POST /backups: [id, host, padded]
    Policies,    \* primary keys of config_compliance_policies
    Reports,     \* primary keys of config_compliance_reports (positive)
    Plans,       \* primary keys of config_compliance_schedules (positive)
    Groups,      \* groups of policies
    Runs,        \* bodies of POST /compliance/run, and what a plan runs
    Cap,         \* 90 in the code
    MaxStamp     \* bound on the requests that insert backups, links or results

(* padded: the host is sent, and stored, with blanks around it.            *)
Body == [id : DeviceIds, host : Hosts \cup {NoHost}, padded : BOOLEAN]

(* report 0 is none; byType: target_by_device_type is sent and the report  *)
(* has a device type; one: a backup_id or a device_id is sent; asked is    *)
(* policy_ids.                                                             *)
RunBody == [report : Reports \cup {0}, byType : BOOLEAN, ids : SUBSET DeviceIds,
            one : BOOLEAN, asked : SUBSET Policies]

ASSUME CfgAssumption ==
    /\ Bodies \subseteq Body
    /\ Reports \subseteq Nat \ {0} /\ Plans \subseteq Nat \ {0}
    /\ Runs \subseteq RunBody
    /\ Cap \in Nat \ {0} /\ MaxStamp \in Nat
    /\ NoHost \notin Hosts

VARIABLES
    backups,   \* rows of config_module_backups
    policy,    \* the table of policies
    report,    \* the table of reports
    links,     \* rows of config_compliance_report_policies
    plan,      \* the table of schedules
    results,   \* rows of config_compliance_results
    creq,      \* local state of every request
    stamp,     \* created_at of the newest transaction
    crowded,   \* history: keys for which two creates were under way at once
    torn,      \* history: reports whose links two requests wrote at once
    linked     \* history: <<report, policy>> that have ever been linked

cfgVars == <<backups, policy, report, links, plan, results, creq, stamp,
             crowded, torn, linked>>

-----------------------------------------------------------------------------
(* Rows.  created_at is the start of the inserting transaction; it stands  *)
(* for the key of a backup.                                                *)

Stamps == 1 .. MaxStamp
RowState == {"fresh", "live", "gone"}
Targets  == {"type", "ids", "one"}
NoRun    == [report |-> 0, byType |-> FALSE, ids |-> {}, one |-> FALSE, asked |-> {}]
NoBody   == [id |-> "none", host |-> NoHost, padded |-> FALSE]

BackupRow == [at : Stamps, id : DeviceIds, host : Hosts \cup {NoHost}, padded : BOOLEAN]
PolicyRow == [state : RowState, enabled : BOOLEAN, group : Groups]
ReportRow == [state : RowState, enabled : BOOLEAN]
LinkRow   == [report : Reports, policy : Policies, by : Stamps]
PlanRow   == [state : RowState, body : RunBody]
ResultRow == [policy : Policies, backup : Stamps, report : Reports \cup {0},
              target : Targets]

(* insert and evict of a create, report, cut and chosen of a write of      *)
(* links, run, plan, target, chosen and on of a compliance run.            *)
Request == [pc : {"idle", "backup", "links", "pick", "store"}, at : Stamps \cup {0},
            insert : Bodies \cup {NoBody}, evict : SUBSET BackupRow,
            report : Reports \cup {0}, enable : BOOLEAN, cut : SUBSET LinkRow,
            chosen : SUBSET Policies,
            run : RunBody, plan : Plans \cup {0},
            target : Targets, on : SUBSET BackupRow]

Done == [pc |-> "idle", at |-> 0, insert |-> NoBody, evict |-> {}, report |-> 0,
         enable |-> FALSE, cut |-> {}, chosen |-> {}, run |-> NoRun, plan |-> 0,
         target |-> "one", on |-> {}]

LivePolicy(p) == policy[p].state = "live"
LiveReport(r) == report[r].state = "live"

CfgInit ==
    /\ backups = {} /\ links = {} /\ results = {}
    /\ policy \in [Policies -> {[state |-> k, enabled |-> TRUE, group |-> g] :
                                    k \in {"fresh", "live"}, g \in Groups}]
    /\ report = [r \in Reports |-> [state |-> "fresh", enabled |-> FALSE]]
    /\ plan = [s \in Plans |-> [state |-> "fresh", body |-> NoRun]]
    /\ creq = [u \in CfgUsers |-> Done]
    /\ stamp = 0 /\ crowded = {} /\ torn = {} /\ linked = {}

Begin(u, local) ==
    /\ creq[u].pc = "idle"
    /\ stamp < MaxStamp
    /\ stamp' = stamp + 1
    /\ creq' = [creq EXCEPT ![u] = [local EXCEPT !.at = stamp + 1]]

End(u) == creq' = [creq EXCEPT ![u] = Done]

-----------------------------------------------------------------------------
(* Backups.                                                                *)

(* Two devices are the same when this is (_device_key).                    *)
DeviceKey(b) == IF b.host # NoHost THEN b.host ELSE b.id

(* The rows create_backup counts: the stored host must equal the stripped  *)
(* one; without a host every row of the device_id counts.                  *)
Counted(b) == IF b.host # NoHost THEN {x \in backups : x.host = b.host /\ ~x.padded}
              ELSE {x \in backups : x.id = b.id}

Oldest(S) == {x \in S : \A y \in S : x.at <= y.at}
Latest(S) == {x \in S : \A y \in S : y.at <= x.at}

(* Mutant: only results of reports hold their backup.                      *)
ReferredByReport(x) == \E r \in results : r.backup = x.at /\ r.report # 0

(* backup_id has no ON DELETE: a row that is referred to stays.            *)
Referred(x) == \E r \in results : r.backup = x.at

(* Mutant: the cap is compared with > in place of >=.                      *)
EvictedLate(b) == IF Cardinality(Counted(b)) > Cap THEN Oldest(Counted(b)) ELSE {}

(* Mutant: the newest row makes room (created_at descending).              *)
EvictedNewest(b) == IF Cardinality(Counted(b)) >= Cap THEN Latest(Counted(b)) ELSE {}

Evicted(b) == IF Cardinality(Counted(b)) >= Cap THEN Oldest(Counted(b)) ELSE {}

(* create_backup: count, look for the oldest row, and later delete it,     *)
(* insert and commit.  A row another request has deleted meanwhile is no   *)
(* error (the DELETE matches none); one that is referred to is: nothing is *)
(* written and the request is answered by an error.                        *)
CreateBackup(u, b) ==
    /\ Begin(u, [Done EXCEPT !.pc = "backup", !.insert = b, !.evict = Evicted(b)])
    /\ crowded' = IF \E v \in CfgUsers : creq[v].pc = "backup"
                                       /\ DeviceKey(creq[v].insert) = DeviceKey(b)
                  THEN crowded \cup {DeviceKey(b)} ELSE crowded
    /\ UNCHANGED <<backups, policy, report, links, plan, results, torn, linked>>

Row(u) == [at |-> creq[u].at, id |-> creq[u].insert.id,
           host |-> creq[u].insert.host, padded |-> creq[u].insert.padded]

StoreBackup(u) ==
    /\ creq[u].pc = "backup"
    /\ backups' = IF \E x \in creq[u].evict : Referred(x) THEN backups
                  ELSE (backups \ creq[u].evict) \cup {Row(u)}
    /\ End(u)
    /\ UNCHANGED <<policy, report, links, plan, results, stamp, crowded, torn, linked>>

DeleteBackup(x) ==
    /\ x \in backups
    /\ ~Referred(x)
    /\ backups' = backups \ {x}
    /\ UNCHANGED <<policy, report, links, plan, results, creq, stamp, crowded, torn, linked>>

-----------------------------------------------------------------------------
(* Policies.                                                               *)

PolicyStep == UNCHANGED <<backups, report, plan, results, creq, stamp, crowded, torn, linked>>

CreatePolicy(p, e, g) ==
    /\ policy[p].state = "fresh"
    /\ policy' = [policy EXCEPT ![p] = [state |-> "live", enabled |-> e, group |-> g]]
    /\ UNCHANGED links /\ PolicyStep

(* An import: all items of the file in one commit; each has its own group  *)
(* or that of the document.                                                *)
ImportPolicies(items) ==
    /\ DOMAIN items # {} /\ \A p \in DOMAIN items : policy[p].state = "fresh"
    /\ policy' = [p \in Policies |-> IF p \in DOMAIN items
                     THEN [state |-> "live", enabled |-> items[p].enabled,
                           group |-> items[p].group] ELSE policy[p]]
    /\ UNCHANGED links /\ PolicyStep

UpdatePolicy(p, e, g) ==
    /\ LivePolicy(p)
    /\ policy' = [policy EXCEPT ![p].enabled = e, ![p].group = g]
    /\ UNCHANGED links /\ PolicyStep

SetPolicyEnabled(p, e) ==
    /\ LivePolicy(p)
    /\ policy' = [policy EXCEPT ![p].enabled = e]
    /\ UNCHANGED links /\ PolicyStep

InGroup(g) == {p \in Policies : LivePolicy(p) /\ policy[p].group = g}

SetGroupEnabled(g, e) ==
    /\ policy' = [p \in Policies |-> IF p \in InGroup(g)
                     THEN [policy[p] EXCEPT !.enabled = e] ELSE policy[p]]
    /\ UNCHANGED links /\ PolicyStep

(* The statement fails as a whole if a result refers to one of the rows;   *)
(* links go with their policy (ON DELETE CASCADE).                         *)
DeletePolicies(S) ==
    /\ S # {} /\ \A r \in results : r.policy \notin S
    /\ policy' = [p \in Policies |-> IF p \in S
                     THEN [policy[p] EXCEPT !.state = "gone", !.enabled = FALSE] ELSE policy[p]]
    /\ links' = {l \in links : l.policy \notin S}
    /\ PolicyStep

DeletePolicy(p) == LivePolicy(p) /\ DeletePolicies({p})
DeleteGroup(g)  == DeletePolicies(InGroup(g))
-----------------------------------------------------------------------------
(* Reports and the policies they consist of.                               *)

Torn(r) == IF \E v \in CfgUsers : creq[v].pc = "links" /\ creq[v].report = r
           THEN torn \cup {r} ELSE torn

(* Mutant: the old links stay when the report is disabled.                 *)
CutEnabled(r) == {l \in links : l.report = r /\ report[r].enabled}

Cut(r) == {l \in links : l.report = r}

(* create_report commits the row first and links its policies in a second  *)
(* transaction.                                                            *)
CreateReport(u, r, e, S) ==
    /\ report[r].state = "fresh"
    /\ report' = [report EXCEPT ![r] = [state |-> "live", enabled |-> e]]
    /\ Begin(u, [Done EXCEPT !.pc = "links", !.report = r, !.enable = e, !.chosen = S])
    /\ torn' = Torn(r)
    /\ UNCHANGED <<backups, policy, links, plan, results, crowded, linked>>

(* update_report with policy_ids: its DELETE removes the links committed   *)
(* when it starts, cut; it waits for the rows another update is deleting   *)
(* but never sees those that one inserts.                                  *)
UpdateReport(u, r, e, S) ==
    /\ LiveReport(r)
    /\ Begin(u, [Done EXCEPT !.pc = "links", !.report = r, !.enable = e, !.chosen = S,
                             !.cut = Cut(r)])
    /\ torn' = Torn(r)
    /\ UNCHANGED <<backups, policy, report, links, plan, results, crowded, linked>>

(* update_report without policy_ids, and update_report_enabled.            *)
SetReportEnabled(r, e) ==
    /\ LiveReport(r)
    /\ report' = [report EXCEPT ![r].enabled = e]
    /\ UNCHANGED <<backups, policy, links, plan, results, creq, stamp, crowded, torn, linked>>

NewLinks(u) == [report : {creq[u].report}, policy : creq[u].chosen, by : {creq[u].at}]

(* The second part of both: a report or a policy that is gone fails the    *)
(* transaction as a whole.                                                 *)
StoreLinks(u) ==
    /\ creq[u].pc = "links"
    /\ IF LiveReport(creq[u].report) /\ \A p \in creq[u].chosen : LivePolicy(p)
       THEN /\ report' = [report EXCEPT ![creq[u].report].enabled = creq[u].enable]
            /\ links' = (links \ creq[u].cut) \cup NewLinks(u)
            /\ linked' = linked \cup {<<l.report, l.policy>> : l \in NewLinks(u)}
       ELSE UNCHANGED <<report, links, linked>>
    /\ End(u)
    /\ UNCHANGED <<backups, policy, plan, results, stamp, crowded, torn>>

(* An imported report brings policies of its own, in one transaction.      *)
ImportReport(r, e, S) ==
    /\ stamp < MaxStamp /\ stamp' = stamp + 1
    /\ report[r].state = "fresh" /\ \A p \in S : policy[p].state = "fresh"
    /\ report' = [report EXCEPT ![r] = [state |-> "live", enabled |-> e]]
    /\ policy' = [p \in Policies |-> IF p \in S
                     THEN [policy[p] EXCEPT !.state = "live", !.enabled = TRUE] ELSE policy[p]]
    /\ links' = links \cup [report : {r}, policy : S, by : {stamp + 1}]
    /\ linked' = linked \cup ({r} \X S)
    /\ UNCHANGED <<backups, plan, results, creq, crowded, torn>>

(* Links and schedules go with the report, results keep a NULL.            *)
Orphaned(r) == {[x EXCEPT !.report = IF @ = r THEN 0 ELSE @] : x \in results}

DeleteReport(r) ==
    /\ LiveReport(r)
    /\ report' = [report EXCEPT ![r] = [state |-> "gone", enabled |-> FALSE]]
    /\ links' = {l \in links : l.report # r}
    /\ plan' = [s \in Plans |-> IF plan[s].state = "live" /\ plan[s].body.report = r
                   THEN [state |-> "gone", body |-> NoRun] ELSE plan[s]]
    /\ results' = Orphaned(r)
    /\ UNCHANGED <<backups, policy, creq, stamp, crowded, torn, linked>>

-----------------------------------------------------------------------------
(* Schedules.  Nothing runs them by the clock; a run is requested.         *)

PlanStep == UNCHANGED <<backups, policy, report, links, results, creq, stamp, crowded, torn, linked>>

CreatePlan(s, r, byType, ids) ==
    /\ plan[s].state = "fresh" /\ LiveReport(r)
    /\ plan' = [plan EXCEPT ![s] = [state |-> "live",
                   body |-> [NoRun EXCEPT !.report = r, !.byType = byType, !.ids = ids]]]
    /\ PlanStep

UpdatePlan(s, byType, ids) ==
    /\ plan[s].state = "live"
    /\ plan' = [plan EXCEPT ![s].body.byType = byType, ![s].body.ids = ids]
    /\ PlanStep

DeletePlan(s) ==
    /\ plan[s].state = "live"
    /\ plan' = [plan EXCEPT ![s] = [state |-> "gone", body |-> NoRun]]
    /\ PlanStep

-----------------------------------------------------------------------------
(* Compliance runs.                                                        *)

Serving(r) == {p \in Policies : LivePolicy(p) /\ policy[p].enabled
                                /\ \E l \in links : l.report = r /\ l.policy = p}

(* Mutant: the target type of a schedule is taken for the branch.          *)
TargetOfPlan(b) == IF b.byType THEN {"by_device_type"} ELSE {"device_ids"}

(* Which branch of _resolve_backups_for_run a body takes; none is an error.*)
Target(b) ==
    IF b.byType /\ b.report # 0 THEN {"type"}
    ELSE IF b.ids # {} THEN {"ids"}
    ELSE IF b.one THEN {"one"} ELSE {}

(* Read the report and its policies: the report must exist and be enabled. *)
BeginRun(u, b, s) ==
    /\ b.report # 0 => LiveReport(b.report) /\ report[b.report].enabled
    /\ \E t \in Target(b) :
         Begin(u, [Done EXCEPT !.pc = "pick", !.run = b, !.plan = s, !.target = t,
                    !.chosen = IF b.report = 0 THEN {} ELSE Serving(b.report)])
    /\ UNCHANGED <<backups, policy, report, links, plan, results, crowded, torn, linked>>

RunCompliance(u, b) == BeginRun(u, b, 0)

RunPlan(u, s) == plan[s].state = "live" /\ BeginRun(u, plan[s].body, s)

(* The newest backup of each device.  By type the device is a host of a    *)
(* group, and the query wants the stored host to equal the stripped one.   *)
OnHosts == UNION {Latest({x \in backups : x.host = h /\ ~x.padded}) : h \in TypedHosts}
OnIds(S) == UNION {Latest({x \in backups : x.id = d}) : d \in S}

(* Without policies of a report: those asked for, or else all there are,   *)
(* the disabled ones included.                                             *)
Fallback(u) ==
    LET asked == {p \in creq[u].run.asked : LivePolicy(p)}
    IN  IF asked # {} THEN asked ELSE {p \in Policies : LivePolicy(p)}

(* Mutant: a report without policies falls back by device_ids as well.     *)
ChosenAnyway(u) == IF creq[u].chosen # {} THEN creq[u].chosen ELSE Fallback(u)

(* Only the target of a single backup falls back for a report.             *)
Chosen(u) ==
    IF creq[u].chosen # {} THEN creq[u].chosen
    ELSE IF creq[u].target = "type" \/ (creq[u].target = "ids" /\ creq[u].run.report # 0)
    THEN {} ELSE Fallback(u)

(* Read the backups; a single one, or its device, may not be there.        *)
(* Without backups or policies the request ends here, with an error or an  *)
(* empty answer.                                                           *)
PickBackups(u) ==
    /\ creq[u].pc = "pick"
    /\ \E on \in CASE creq[u].target = "type" -> {OnHosts}
                   [] creq[u].target = "ids"  -> {OnIds(creq[u].run.ids)}
                   [] creq[u].target = "one"  -> {{}} \cup {{x} : x \in backups} :
         IF on = {} \/ Chosen(u) = {} THEN End(u)
         ELSE creq' = [creq EXCEPT ![u].pc = "store", ![u].on = on, ![u].chosen = Chosen(u)]
    /\ UNCHANGED <<backups, policy, report, links, plan, results, stamp, crowded, torn, linked>>

NewResults(u) == [policy : creq[u].chosen, backup : {x.at : x \in creq[u].on},
                  report : {creq[u].run.report}, target : {creq[u].target}]

(* Insert the results and commit: all of them, or none when a row they     *)
(* refer to, or the schedule whose last_run_at is set, has gone.           *)
StoreResults(u) ==
    /\ creq[u].pc = "store"
    /\ results' = IF /\ creq[u].on \subseteq backups
                     /\ \A p \in creq[u].chosen : LivePolicy(p)
                     /\ creq[u].run.report # 0 => LiveReport(creq[u].run.report)
                     /\ creq[u].plan # 0 => plan[creq[u].plan].state = "live"
                  THEN results \cup NewResults(u) ELSE results
    /\ End(u)
    /\ UNCHANGED <<backups, policy, report, links, plan, stamp, crowded, torn, linked>>

(* One result or a batch of them.                                          *)
DeleteResults(S) ==
    /\ S \subseteq results /\ S # {}
    /\ results' = results \ S
    /\ UNCHANGED <<backups, policy, report, links, plan, creq, stamp, crowded, torn, linked>>

-----------------------------------------------------------------------------
BackupActions ==
    \/ \E u \in CfgUsers, b \in Bodies : CreateBackup(u, b)
    \/ \E u \in CfgUsers : StoreBackup(u)
    \/ \E x \in backups : DeleteBackup(x)

PolicyActions ==
    \/ \E p \in Policies, e \in BOOLEAN, g \in Groups :
          CreatePolicy(p, e, g) \/ UpdatePolicy(p, e, g)
    \/ \E S \in SUBSET Policies : \E items \in [S -> [enabled : BOOLEAN, group : Groups]] :
          ImportPolicies(items)
    \/ \E p \in Policies, e \in BOOLEAN : SetPolicyEnabled(p, e)
    \/ \E g \in Groups, e \in BOOLEAN : SetGroupEnabled(g, e)
    \/ \E p \in Policies : DeletePolicy(p)
    \/ \E g \in Groups : DeleteGroup(g)

ReportActions ==
    \/ \E u \in CfgUsers, r \in Reports, S \in SUBSET Policies, e \in BOOLEAN :
          CreateReport(u, r, e, S) \/ UpdateReport(u, r, e, S)
    \/ \E u \in CfgUsers : StoreLinks(u)
    \/ \E r \in Reports, e \in BOOLEAN : SetReportEnabled(r, e)
    \/ \E r \in Reports, e \in BOOLEAN, S \in SUBSET Policies : ImportReport(r, e, S)
    \/ \E r \in Reports : DeleteReport(r)

RunActions ==
    \/ \E s \in Plans, b \in Runs : UpdatePlan(s, b.byType, b.ids)
                                \/ \E r \in Reports : CreatePlan(s, r, b.byType, b.ids)
    \/ \E s \in Plans : DeletePlan(s)
    \/ \E u \in CfgUsers, b \in Runs : RunCompliance(u, b)
    \/ \E u \in CfgUsers, s \in Plans : RunPlan(u, s)
    \/ \E u \in CfgUsers : PickBackups(u) \/ StoreResults(u)
    \/ \E x \in results : DeleteResults({x})
    \/ DeleteResults(results)

CfgNext == BackupActions \/ PolicyActions \/ ReportActions \/ RunActions

CfgSpec == CfgInit /\ [][CfgNext]_cfgVars

-----------------------------------------------------------------------------
(* Every table and every local state has its type.                         *)
CfgTypeOK ==
    /\ backups \subseteq BackupRow
    /\ policy \in [Policies -> PolicyRow]
    /\ report \in [Reports -> ReportRow]
    /\ links \subseteq LinkRow
    /\ plan \in [Plans -> PlanRow]
    /\ results \subseteq ResultRow
    /\ creq \in [CfgUsers -> Request]
    /\ stamp \in 0 .. MaxStamp
    /\ crowded \subseteq Hosts \cup DeviceIds /\ torn \subseteq Reports
    /\ linked \subseteq Reports \X Policies

(* Whatever a request read before other requests deleted rows, no row is   *)
(* left that refers to a missing one: results to backups and policies      *)
(* (which are also evicted by create_backup), links and schedules to       *)
(* reports and policies.                                                   *)
CfgReferences ==
    /\ \A x \in results : /\ LivePolicy(x.policy)
                          /\ \E b \in backups : b.at = x.backup
                          /\ x.report # 0 => LiveReport(x.report)
    /\ \A l \in links : LiveReport(l.report) /\ LivePolicy(l.policy)
    /\ \A s \in Plans : plan[s].state = "live" => LiveReport(plan[s].body.report)

(* create_backup keeps at most Cap rows of a host that is always sent      *)
(* without blanks, unless two creates for that host overlap.               *)
HostCap ==
    \A h \in Hosts \ crowded :
        Cardinality({x \in backups : x.host = h /\ ~x.padded}) <= Cap

(* A result recorded under a report, for a device type or a list of        *)
(* devices, is of a policy that has been one of the report's.              *)
ReportRunsItsPolicies ==
    \A x \in results : x.report # 0 /\ x.target # "one" => <<x.report, x.policy>> \in linked

(* What create_backup removes to make room for a backup of a host is older *)
(* than all that stays there, also when rows come and go between its count *)
(* and its commit, unless two creates for that host overlap.               *)
OldestGoFirst ==
    [][\A u \in CfgUsers : StoreBackup(u) =>
          \A x \in backups \ backups', y \in backups' :
              /\ creq[u].insert.host \in Hosts \ crowded
              /\ y.host = creq[u].insert.host /\ ~y.padded
              => x.at < y.at]_cfgVars

(* The docstring of create_backup: over the cap the oldest row is deleted  *)
(* and the new one inserted.  A create that nothing overlaps stores its    *)
(* backup.                                                                 *)
FullDeviceTakesBackup ==
    [][\A u \in CfgUsers : StoreBackup(u) => Row(u) \in backups']_cfgVars

(* The docstring of _set_report_policies: it overwrites the policies of    *)
(* the report.  The links of a report come from one request, unless two    *)
(* overlapped: each deletes what it saw and leaves the union.              *)
LinksOverwritten ==
    \A l, m \in links : l.report = m.report /\ l.report \notin torn => l.by = m.by
=============================================================================
