------------------------ MODULE ConfigModule_proofs ------------------------
(***************************************************************************)
(* Proofs about ConfigModule, for all sets of requests, devices, policies, *)
(* reports and schedules, and every cap.                                   *)
(***************************************************************************)
EXTENDS ConfigModule, FiniteSetTheorems, WellFoundedInduction, TLAPS

-----------------------------------------------------------------------------
(* Requests.                                                               *)

LEMMA DoneTyped ==
    /\ Done \in Request /\ Done.pc = "idle" /\ Done.at = 0
    /\ NoRun \in RunBody
BY DEF Done, Request, NoRun, RunBody, Targets

(* Beginning and ending a request writes its local state only; every       *)
(* request that begins has a time of its own.                              *)
LEMMA Begun ==
    ASSUME CfgTypeOK, NEW u \in CfgUsers, NEW local \in Request, Begin(u, local)
    PROVE  /\ creq' \in [CfgUsers -> Request]
           /\ creq'[u].at = stamp + 1 /\ creq'[u].pc = local.pc
           /\ creq'[u].insert = local.insert /\ creq'[u].evict = local.evict
           /\ creq'[u].report = local.report /\ creq'[u].enable = local.enable
           /\ creq'[u].cut = local.cut /\ creq'[u].chosen = local.chosen
           /\ creq'[u].run = local.run /\ creq'[u].plan = local.plan
           /\ creq'[u].target = local.target
           /\ \A v \in CfgUsers \ {u} : creq'[v] = creq[v]
           /\ creq[u].pc = "idle"
           /\ stamp' = stamp + 1 /\ stamp' \in 0 .. MaxStamp /\ stamp' \in Stamps
<1>1. stamp + 1 \in Stamps
  BY CfgAssumption DEF CfgTypeOK, Begin, Stamps
<1>2. [local EXCEPT !.at = stamp + 1] \in Request
  BY <1>1 DEF Request
<1>3. creq'[u] = [local EXCEPT !.at = stamp + 1]
  BY DEF CfgTypeOK, Begin
<1>4. /\ creq'[u].at = stamp + 1 /\ creq'[u].pc = local.pc
      /\ creq'[u].insert = local.insert /\ creq'[u].evict = local.evict
      /\ creq'[u].report = local.report /\ creq'[u].enable = local.enable
      /\ creq'[u].cut = local.cut /\ creq'[u].chosen = local.chosen
      /\ creq'[u].run = local.run /\ creq'[u].plan = local.plan
      /\ creq'[u].target = local.target
  BY <1>3 DEF Request
<1>. QED
  BY <1>1, <1>2, <1>4, CfgAssumption DEF CfgTypeOK, Begin, Stamps

LEMMA Ended ==
    ASSUME CfgTypeOK, NEW u \in CfgUsers, End(u)
    PROVE  /\ creq' \in [CfgUsers -> Request]
           /\ creq'[u].pc = "idle"
           /\ \A v \in CfgUsers \ {u} : creq'[v] = creq[v]
BY DoneTyped DEF CfgTypeOK, End

(* What the three kinds of request have read when their first step ends.   *)
LEMMA BackupBegun ==
    ASSUME CfgTypeOK, NEW u \in CfgUsers, NEW b \in Bodies, CreateBackup(u, b)
    PROVE  /\ creq' \in [CfgUsers -> Request] /\ \A v \in CfgUsers \ {u} : creq'[v] = creq[v]
           /\ creq[u].pc = "idle"
           /\ creq'[u].pc = "backup" /\ creq'[u].insert = b /\ creq'[u].evict = Evicted(b)
           /\ creq'[u].at = stamp + 1 /\ stamp' = stamp + 1
           /\ stamp' \in Stamps /\ stamp' \in 0 .. MaxStamp
<1> DEFINE local == [Done EXCEPT !.pc = "backup", !.insert = b, !.evict = Evicted(b)]
<1>1. Evicted(b) \in SUBSET BackupRow
  BY DEF Evicted, Oldest, Counted, CfgTypeOK
<1>2. /\ local \in Request
      /\ local.pc = "backup" /\ local.insert = b /\ local.evict = Evicted(b)
  BY <1>1, DoneTyped DEF Request, Done
<1>3. Begin(u, local)
  BY DEF CreateBackup
<1> HIDE DEF local
<1>. QED
  BY <1>2, <1>3, Begun

LEMMA LinksBegun ==
    ASSUME CfgTypeOK, NEW u \in CfgUsers, NEW r \in Reports, NEW e \in BOOLEAN,
           NEW S \in SUBSET Policies,
           CreateReport(u, r, e, S) \/ UpdateReport(u, r, e, S)
    PROVE  /\ creq' \in [CfgUsers -> Request] /\ \A v \in CfgUsers \ {u} : creq'[v] = creq[v]
           /\ creq[u].pc = "idle"
           /\ creq'[u].pc = "links" /\ creq'[u].report = r /\ creq'[u].chosen = S
           /\ UpdateReport(u, r, e, S) => creq'[u].cut = Cut(r)
           /\ creq'[u].at = stamp + 1 /\ stamp' = stamp + 1
           /\ stamp' \in Stamps /\ stamp' \in 0 .. MaxStamp
<1> DEFINE local == [Done EXCEPT !.pc = "links", !.report = r, !.enable = e, !.chosen = S]
           full  == [Done EXCEPT !.pc = "links", !.report = r, !.enable = e, !.chosen = S,
                                 !.cut = Cut(r)]
<1>1. Cut(r) \in SUBSET LinkRow
  BY DEF Cut, CfgTypeOK
<1>2. local \in Request /\ local.pc = "links" /\ local.report = r /\ local.chosen = S
  BY DoneTyped DEF Request, Done
<1>3. /\ full \in Request /\ full.pc = "links" /\ full.report = r /\ full.chosen = S
      /\ full.cut = Cut(r)
  BY <1>1, DoneTyped DEF Request, Done
<1>4. CreateReport(u, r, e, S) => Begin(u, local) /\ report[r].state = "fresh"
  BY DEF CreateReport
<1>5. UpdateReport(u, r, e, S) => Begin(u, full) /\ report[r].state = "live"
  BY DEF UpdateReport, LiveReport
<1> HIDE DEF local, full
<1>. QED
  BY <1>2, <1>3, <1>4, <1>5, Begun

LEMMA RunBegun ==
    ASSUME CfgTypeOK, NEW u \in CfgUsers, NEW b \in RunBody, NEW s \in Plans \cup {0},
           BeginRun(u, b, s)
    PROVE  /\ creq' \in [CfgUsers -> Request] /\ \A v \in CfgUsers \ {u} : creq'[v] = creq[v]
           /\ creq'[u].pc = "pick" /\ creq'[u].run = b
           /\ creq'[u].chosen = IF b.report = 0 THEN {} ELSE Serving(b.report)
           /\ creq'[u].at = stamp + 1 /\ stamp' = stamp + 1
           /\ stamp' \in Stamps /\ stamp' \in 0 .. MaxStamp
<1> DEFINE S == IF b.report = 0 THEN {} ELSE Serving(b.report)
<1>1. S \in SUBSET Policies
  BY DEF Serving
<1>2. Target(b) \subseteq Targets
  BY DEF Target, Targets
<1>3. PICK t \in Targets : Begin(u, [Done EXCEPT !.pc = "pick", !.run = b, !.plan = s,
                                                 !.target = t, !.chosen = S])
  BY <1>2 DEF BeginRun
<1> DEFINE local == [Done EXCEPT !.pc = "pick", !.run = b, !.plan = s, !.target = t, !.chosen = S]
<1>4. local \in Request
  <2>1. s \in Plans \cup {0} /\ t \in Targets /\ b \in RunBody
    OBVIOUS
  <2> HIDE DEF S
  <2>. QED
    BY <1>1, <2>1, DoneTyped DEF Request
<1>6. local.pc = "pick" /\ local.run = b /\ local.chosen = S
  BY DEF Done
<1>5. Begin(u, local)
  BY <1>3
<1> HIDE DEF local
<1>. QED
  BY <1>4, <1>5, <1>6, Begun

-----------------------------------------------------------------------------
(* Types.                                                                  *)

(* What the program counter of a request says of its local state, and a    *)
(* schedule of its body.                                                   *)
CfgLocal ==
    /\ \A u \in CfgUsers :
          /\ creq[u].pc # "idle" => creq[u].at \in Stamps
          /\ creq[u].pc = "backup" => creq[u].insert \in Bodies
          /\ creq[u].pc = "links" => creq[u].report \in Reports
    /\ \A s \in Plans : plan[s].state = "live" => plan[s].body.report \in Reports

CfgTyped == CfgTypeOK /\ CfgLocal

LEMMA InitCfg == CfgInit => CfgTyped
<1>. SUFFICES ASSUME CfgInit PROVE CfgTyped
  OBVIOUS
<1>1. policy \in [Policies -> PolicyRow]
  <2>1. ASSUME NEW k \in {"fresh", "live"}, NEW g \in Groups
        PROVE  [state |-> k, enabled |-> TRUE, group |-> g] \in PolicyRow
    BY DEF PolicyRow, RowState
  <2>. QED
    BY <2>1 DEF CfgInit
<1>2. report \in [Reports -> ReportRow] /\ plan \in [Plans -> PlanRow]
  BY DoneTyped DEF CfgInit, ReportRow, PlanRow, RowState
<1>3. creq \in [CfgUsers -> Request] /\ \A u \in CfgUsers : creq[u].pc = "idle"
  BY DoneTyped DEF CfgInit
<1>4. stamp \in 0 .. MaxStamp
  BY CfgAssumption DEF CfgInit
<1>5. \A s \in Plans : plan[s].state = "fresh"
  BY DEF CfgInit
<1>. QED
  BY <1>1, <1>2, <1>3, <1>4, <1>5 DEF CfgInit, CfgTyped, CfgTypeOK, CfgLocal

LEMMA BackupTypes ==
    ASSUME CfgTyped, BackupActions
    PROVE  CfgTyped'
<1>. USE DEF CfgTyped
<1>1. ASSUME NEW u \in CfgUsers, NEW b \in Bodies, CreateBackup(u, b) PROVE CfgTyped'
  <2>3. /\ creq' \in [CfgUsers -> Request] /\ stamp' \in 0 .. MaxStamp
        /\ creq'[u].pc = "backup" /\ creq'[u].insert = b /\ creq'[u].at \in Stamps
        /\ \A v \in CfgUsers \ {u} : creq'[v] = creq[v]
    BY <1>1, BackupBegun
  <2>4. DeviceKey(b) \in Hosts \cup DeviceIds
    BY CfgAssumption DEF DeviceKey, Body
  <2>. QED
    BY <1>1, <2>3, <2>4 DEF CreateBackup, CfgTypeOK, CfgLocal
<1>2. ASSUME NEW u \in CfgUsers, StoreBackup(u) PROVE CfgTyped'
  <2>1. Row(u) \in BackupRow
    BY <1>2, CfgAssumption DEF StoreBackup, CfgLocal, Row, BackupRow, Body
  <2>. QED
    BY <1>2, <2>1, Ended DEF StoreBackup, CfgTypeOK, CfgLocal
<1>3. ASSUME NEW x \in backups, DeleteBackup(x) PROVE CfgTyped'
  BY <1>3 DEF DeleteBackup, CfgTypeOK, CfgLocal
<1>. QED
  BY <1>1, <1>2, <1>3 DEF BackupActions

LEMMA PolicyTypes ==
    ASSUME CfgTyped, PolicyActions
    PROVE  CfgTyped'
<1>. USE DEF CfgTyped
<1>0. ASSUME policy' \in [Policies -> PolicyRow], links' \subseteq links, PolicyStep PROVE CfgTyped'
  BY <1>0 DEF PolicyStep, CfgTypeOK, CfgLocal
<1>1. ASSUME NEW p \in Policies, NEW e \in BOOLEAN, NEW g \in Groups,
             CreatePolicy(p, e, g) \/ UpdatePolicy(p, e, g)
      PROVE  CfgTyped'
  <2>1. policy' \in [Policies -> PolicyRow]
    BY <1>1 DEF CreatePolicy, UpdatePolicy, CfgTypeOK, PolicyRow, RowState
  <2>. QED
    BY <1>0, <1>1, <2>1 DEF CreatePolicy, UpdatePolicy
<1>2. ASSUME NEW S \in SUBSET Policies, NEW items \in [S -> [enabled : BOOLEAN, group : Groups]],
             ImportPolicies(items)
      PROVE  CfgTyped'
  <2>1. policy' \in [Policies -> PolicyRow]
    BY <1>2 DEF ImportPolicies, CfgTypeOK, PolicyRow, RowState
  <2>. QED
    BY <1>0, <1>2, <2>1 DEF ImportPolicies
<1>3. ASSUME NEW p \in Policies, NEW e \in BOOLEAN, SetPolicyEnabled(p, e) PROVE CfgTyped'
  <2>1. policy' \in [Policies -> PolicyRow]
    BY <1>3 DEF SetPolicyEnabled, CfgTypeOK, PolicyRow
  <2>. QED
    BY <1>0, <1>3, <2>1 DEF SetPolicyEnabled
<1>4. ASSUME NEW g \in Groups, NEW e \in BOOLEAN, SetGroupEnabled(g, e) PROVE CfgTyped'
  <2>1. policy' \in [Policies -> PolicyRow]
    BY <1>4 DEF SetGroupEnabled, CfgTypeOK, PolicyRow
  <2>. QED
    BY <1>0, <1>4, <2>1 DEF SetGroupEnabled
<1>5. ASSUME NEW S \in SUBSET Policies, DeletePolicies(S) PROVE CfgTyped'
  <2>1. policy' \in [Policies -> PolicyRow]
    BY <1>5 DEF DeletePolicies, CfgTypeOK, PolicyRow, RowState
  <2>. QED
    BY <1>0, <1>5, <2>1 DEF DeletePolicies
<1>6. ASSUME NEW p \in Policies, DeletePolicy(p) PROVE CfgTyped'
  BY <1>5, <1>6 DEF DeletePolicy
<1>7. ASSUME NEW g \in Groups, DeleteGroup(g) PROVE CfgTyped'
  <2>1. InGroup(g) \in SUBSET Policies
    BY DEF InGroup
  <2>. QED
    BY <1>5, <1>7, <2>1 DEF DeleteGroup
<1>. QED
  BY <1>1, <1>2, <1>3, <1>4, <1>6, <1>7 DEF PolicyActions

LEMMA ReportTypes ==
    ASSUME CfgTyped, ReportActions
    PROVE  CfgTyped'
<1>. USE DEF CfgTyped
<1>1. ASSUME NEW u \in CfgUsers, NEW r \in Reports, NEW S \in SUBSET Policies, NEW e \in BOOLEAN,
             CreateReport(u, r, e, S) \/ UpdateReport(u, r, e, S)
      PROVE  CfgTyped'
  <2>1. report' \in [Reports -> ReportRow]
    BY <1>1 DEF CreateReport, UpdateReport, CfgTypeOK, ReportRow, RowState
  <2>2. /\ creq' \in [CfgUsers -> Request] /\ stamp' \in 0 .. MaxStamp
        /\ creq'[u].pc = "links" /\ creq'[u].report = r /\ creq'[u].at \in Stamps
        /\ \A v \in CfgUsers \ {u} : creq'[v] = creq[v]
    BY <1>1, LinksBegun
  <2>. QED
    BY <1>1, <2>1, <2>2 DEF CreateReport, UpdateReport, Torn, CfgTypeOK, CfgLocal
<1>2. ASSUME NEW u \in CfgUsers, StoreLinks(u) PROVE CfgTyped'
  <2>1. NewLinks(u) \subseteq LinkRow
    BY <1>2 DEF StoreLinks, NewLinks, LinkRow, CfgTypeOK, CfgLocal, Request
  <2>2. {<<l.report, l.policy>> : l \in NewLinks(u)} \subseteq Reports \X Policies
    BY <2>1 DEF LinkRow
  <2>3. creq[u].report \in Reports /\ creq[u].enable \in BOOLEAN
    BY <1>2 DEF StoreLinks, CfgLocal, CfgTypeOK, Request
  <2>4. report' \in [Reports -> ReportRow]
    BY <1>2, <2>3 DEF StoreLinks, CfgTypeOK, ReportRow
  <2>. QED
    BY <1>2, <2>1, <2>2, <2>4, Ended DEF StoreLinks, CfgTypeOK, CfgLocal
<1>3. ASSUME NEW r \in Reports, NEW e \in BOOLEAN, SetReportEnabled(r, e) PROVE CfgTyped'
  <2>1. report' \in [Reports -> ReportRow]
    BY <1>3 DEF SetReportEnabled, CfgTypeOK, ReportRow
  <2>. QED
    BY <1>3, <2>1 DEF SetReportEnabled, CfgTypeOK, CfgLocal
<1>4. ASSUME NEW r \in Reports, NEW e \in BOOLEAN, NEW S \in SUBSET Policies, ImportReport(r, e, S)
      PROVE  CfgTyped'
  <2>1. report' \in [Reports -> ReportRow]
    BY <1>4 DEF ImportReport, CfgTypeOK, ReportRow, RowState
  <2>2. policy' \in [Policies -> PolicyRow]
    <3>1. \A p \in Policies : policy'[p] \in PolicyRow
      BY <1>4 DEF ImportReport, CfgTypeOK, PolicyRow, RowState
    <3>2. policy' = [p \in Policies |-> policy'[p]]
      BY <1>4 DEF ImportReport
    <3>. QED
      BY <3>1, <3>2
  <2>3. stamp' \in 0 .. MaxStamp /\ stamp + 1 \in Stamps
    <3>1. stamp < MaxStamp /\ stamp' = stamp + 1
      BY <1>4 DEF ImportReport
    <3>. QED
      BY <3>1, CfgAssumption DEF CfgTypeOK, Stamps
  <2>. QED
    BY <1>4, <2>1, <2>2, <2>3 DEF ImportReport, CfgTypeOK, CfgLocal, LinkRow
<1>5. ASSUME NEW r \in Reports, DeleteReport(r) PROVE CfgTyped'
  <2>1. report' \in [Reports -> ReportRow]
    BY <1>5 DEF DeleteReport, CfgTypeOK, ReportRow, RowState
  <2>2. plan' \in [Plans -> PlanRow]
    BY <1>5, DoneTyped DEF DeleteReport, CfgTypeOK, PlanRow, RowState
  <2>3. Orphaned(r) \subseteq ResultRow
    BY DEF Orphaned, CfgTypeOK, ResultRow
  <2>4. \A s \in Plans : plan'[s].state = "live" => plan'[s] = plan[s]
    BY <1>5 DEF DeleteReport
  <2>. QED
    BY <1>5, <2>1, <2>2, <2>3, <2>4 DEF DeleteReport, CfgTypeOK, CfgLocal
<1>. QED
  BY <1>1, <1>2, <1>3, <1>4, <1>5 DEF ReportActions

LEMMA RunTypes ==
    ASSUME CfgTyped, RunActions
    PROVE  CfgTyped'
<1>. USE DEF CfgTyped
<1>0. \A b \in Runs : b \in RunBody /\ b.byType \in BOOLEAN /\ b.ids \in SUBSET DeviceIds
  BY CfgAssumption DEF RunBody
<1>1. ASSUME NEW s \in Plans, NEW row \in PlanRow, plan' = [plan EXCEPT ![s] = row], PlanStep,
             row.state = "live" => row.body.report \in Reports
      PROVE  CfgTyped'
  BY <1>1 DEF PlanStep, CfgTypeOK, CfgLocal
<1>2. ASSUME NEW s \in Plans, NEW b \in Runs, NEW r \in Reports, CreatePlan(s, r, b.byType, b.ids)
      PROVE  CfgTyped'
  <2> DEFINE body == [NoRun EXCEPT !.report = r, !.byType = b.byType, !.ids = b.ids]
  <2>1. body \in RunBody /\ body.report = r
    BY <1>0 DEF RunBody, NoRun
  <2> HIDE DEF body
  <2>2. [state |-> "live", body |-> body] \in PlanRow
    BY <2>1 DEF PlanRow, RowState
  <2>3. plan' = [plan EXCEPT ![s] = [state |-> "live", body |-> body]] /\ PlanStep
    BY <1>2 DEF CreatePlan, body
  <2>. QED
    BY <1>1, <2>1, <2>2, <2>3
<1>3. ASSUME NEW s \in Plans, NEW b \in Runs, UpdatePlan(s, b.byType, b.ids) PROVE CfgTyped'
  <2>1. plan[s] \in PlanRow /\ plan[s].state = "live" /\ plan[s].body.report \in Reports
    BY <1>3 DEF UpdatePlan, CfgTypeOK, CfgLocal
  <2> DEFINE half == [plan[s] EXCEPT !.body.byType = b.byType]
             row  == [half EXCEPT !.body.ids = b.ids]
  <2>2. plan' = [plan EXCEPT ![s] = row] /\ PlanStep
    BY <1>3 DEF UpdatePlan, CfgTypeOK
  <2>3. half \in PlanRow /\ half.body.report = plan[s].body.report
    BY <1>0, <2>1 DEF PlanRow, RunBody
  <2> HIDE DEF half
  <2>4. row \in PlanRow /\ row.body.report = half.body.report
    BY <1>0, <2>3 DEF PlanRow, RunBody
  <2> HIDE DEF row
  <2>. QED
    BY <1>1, <2>1, <2>2, <2>3, <2>4
<1>4. ASSUME NEW s \in Plans, DeletePlan(s) PROVE CfgTyped'
  <2>1. [state |-> "gone", body |-> NoRun] \in PlanRow
    BY DoneTyped DEF PlanRow, RowState
  <2>. QED
    BY <1>1, <1>4, <2>1 DEF DeletePlan
<1>5. ASSUME NEW u \in CfgUsers, NEW b \in RunBody, NEW s \in Plans \cup {0}, BeginRun(u, b, s)
      PROVE  CfgTyped'
  <2>1. /\ creq' \in [CfgUsers -> Request] /\ stamp' \in 0 .. MaxStamp
        /\ creq'[u].pc = "pick" /\ creq'[u].at \in Stamps
        /\ \A v \in CfgUsers \ {u} : creq'[v] = creq[v]
    BY <1>5, RunBegun
  <2>. QED
    BY <1>5, <2>1 DEF BeginRun, CfgTypeOK, CfgLocal
<1>6. ASSUME NEW u \in CfgUsers, PickBackups(u) PROVE CfgTyped'
  <2>1. CASE End(u)
    BY <1>6, <2>1, Ended DEF PickBackups, CfgTypeOK, CfgLocal
  <2>2. CASE ~End(u)
    <3>1. PICK on \in SUBSET backups :
              creq' = [creq EXCEPT ![u].pc = "store", ![u].on = on, ![u].chosen = Chosen(u)]
      <4>1. creq[u].target \in Targets
        BY DEF CfgTypeOK, Request
      <4>2. OnHosts \subseteq backups /\ OnIds(creq[u].run.ids) \subseteq backups
        BY DEF OnHosts, OnIds, Latest
      <4>3. CASE creq[u].target = "type"
        BY <1>6, <2>2, <4>2, <4>3 DEF PickBackups
      <4>4. CASE creq[u].target = "ids"
        BY <1>6, <2>2, <4>2, <4>4 DEF PickBackups
      <4>5. CASE creq[u].target = "one"
        <5> DEFINE singles == {{}} \cup {{x} : x \in backups}
        <5>1. singles \subseteq SUBSET backups
          OBVIOUS
        <5>2. \E on \in singles : creq' = [creq EXCEPT ![u].pc = "store", ![u].on = on,
                                                       ![u].chosen = Chosen(u)]
          BY <1>6, <2>2, <4>5 DEF PickBackups
        <5> HIDE DEF singles
        <5>. QED
          BY <5>1, <5>2
      <4>. QED
        BY <4>1, <4>3, <4>4, <4>5 DEF Targets
    <3>2. Chosen(u) \in SUBSET Policies /\ creq[u] \in Request /\ on \in SUBSET BackupRow
      <4>1. creq[u] \in Request /\ on \in SUBSET BackupRow
        BY DEF CfgTypeOK
      <4>2. creq[u].chosen \in SUBSET Policies
        BY <4>1 DEF Request
      <4>3. Fallback(u) \in SUBSET Policies
        BY <4>1 DEF Fallback, Request, RunBody
      <4>. QED
        BY <4>1, <4>2, <4>3 DEF Chosen
    <3>3. [creq[u] EXCEPT !.pc = "store", !.on = on, !.chosen = Chosen(u)] \in Request
      BY <3>2 DEF Request
    <3>4. creq' = [creq EXCEPT ![u] = [creq[u] EXCEPT !.pc = "store", !.on = on, !.chosen = Chosen(u)]]
      BY <3>1, <3>2 DEF CfgTypeOK, Request
    <3>5. /\ creq' \in [CfgUsers -> Request] /\ creq'[u].pc = "store" /\ creq'[u].at = creq[u].at
          /\ \A v \in CfgUsers \ {u} : creq'[v] = creq[v]
      BY <3>2, <3>3, <3>4 DEF CfgTypeOK, Request
    <3>. QED
      BY <1>6, <3>5 DEF PickBackups, CfgTypeOK, CfgLocal
  <2>. QED
    BY <2>1, <2>2
<1>7. ASSUME NEW u \in CfgUsers, StoreResults(u) PROVE CfgTyped'
  <2>1. NewResults(u) \subseteq ResultRow
    BY DEF NewResults, ResultRow, CfgTypeOK, Request, RunBody, BackupRow
  <2>. QED
    BY <1>7, <2>1, Ended DEF StoreResults, CfgTypeOK, CfgLocal
<1>8. ASSUME NEW S, DeleteResults(S) PROVE CfgTyped'
  BY <1>8 DEF DeleteResults, CfgTypeOK, CfgLocal
<1>9. \A s \in Plans : plan[s].body \in RunBody
  BY DEF CfgTypeOK, PlanRow
<1>. QED
  BY <1>0, <1>2, <1>3, <1>4, <1>5, <1>6, <1>7, <1>8, <1>9 DEF RunActions, RunCompliance, RunPlan

LEMMA NextCfg == CfgTyped /\ [CfgNext]_cfgVars => CfgTyped'
<1>1. CfgTyped /\ UNCHANGED cfgVars => CfgTyped'
  BY DEF cfgVars, CfgTyped, CfgTypeOK, CfgLocal
<1>. QED
  BY <1>1, BackupTypes, PolicyTypes, ReportTypes, RunTypes DEF CfgNext

LEMMA CfgTypedAlways == CfgSpec => []CfgTyped
<1>. QED
  BY InitCfg, NextCfg, PTL DEF CfgSpec

(* Every table and every local state of a request keeps its type.          *)
THEOREM CfgTypes == CfgSpec => []CfgTypeOK
<1>1. CfgTyped => CfgTypeOK
  BY DEF CfgTyped
<1>. QED
  BY <1>1, CfgTypedAlways, PTL

-----------------------------------------------------------------------------
(* References.                                                             *)

LEMMA RowsTyped ==
    ASSUME CfgTyped
    PROVE  /\ \A x \in results : x.policy \in Policies /\ x.report \in Reports \cup {0}
           /\ \A l \in links : l.policy \in Policies /\ l.report \in Reports
           /\ \A s \in Plans : plan[s].state = "live" => plan[s].body.report \in Reports
           /\ 0 \notin Reports
BY CfgAssumption DEF CfgTyped, CfgTypeOK, CfgLocal, ResultRow, LinkRow

LEMMA NextReferences == CfgTyped /\ CfgReferences /\ [CfgNext]_cfgVars => CfgReferences'
<1>. SUFFICES ASSUME CfgTyped, CfgReferences, [CfgNext]_cfgVars PROVE CfgReferences'
  OBVIOUS
<1>. USE RowsTyped
<1>1. ASSUME NEW u \in CfgUsers, NEW b \in Bodies, CreateBackup(u, b) PROVE CfgReferences'
  BY <1>1 DEF CreateBackup, CfgReferences, LivePolicy, LiveReport
<1>2. ASSUME NEW u \in CfgUsers, StoreBackup(u) PROVE CfgReferences'
  <2>1. \A x \in results : \A b \in backups : b.at = x.backup => b \in backups'
    BY <1>2 DEF StoreBackup, Referred
  <2>. QED
    BY <1>2, <2>1 DEF StoreBackup, CfgReferences, LivePolicy, LiveReport
<1>3. ASSUME NEW x \in backups, DeleteBackup(x) PROVE CfgReferences'
  <2>1. \A y \in results : \A b \in backups : b.at = y.backup => b \in backups'
    BY <1>3 DEF DeleteBackup, Referred
  <2>. QED
    BY <1>3, <2>1 DEF DeleteBackup, CfgReferences, LivePolicy, LiveReport
<1>4. ASSUME PolicyStep, links' \subseteq links,
             \A p \in Policies : LivePolicy(p) /\ ~LivePolicy(p)' =>
                 /\ \A x \in results : x.policy # p
                 /\ \A l \in links' : l.policy # p
      PROVE  CfgReferences'
  BY <1>4 DEF PolicyStep, CfgReferences, LiveReport
<1>5. ASSUME PolicyActions PROVE CfgReferences'
  <2>1. ASSUME NEW S, DeletePolicies(S) PROVE CfgReferences'
    BY <1>4, <2>1 DEF DeletePolicies, LivePolicy
  <2>2. ASSUME NEW p \in Policies, NEW e \in BOOLEAN, NEW g \in Groups,
               CreatePolicy(p, e, g) \/ UpdatePolicy(p, e, g)
        PROVE  CfgReferences'
    BY <1>4, <2>2 DEF CreatePolicy, UpdatePolicy, LivePolicy, CfgTyped,
                      CfgTypeOK, PolicyRow
  <2>3. ASSUME NEW items, ImportPolicies(items) PROVE CfgReferences'
    BY <1>4, <2>3 DEF ImportPolicies, LivePolicy
    <2>4. ASSUME NEW g \in Groups, NEW e \in BOOLEAN, SetGroupEnabled(g, e) PROVE CfgReferences'
    BY <1>4, <2>4 DEF SetGroupEnabled, LivePolicy, CfgTyped, CfgTypeOK, PolicyRow
  <2>5. ASSUME NEW p \in Policies, NEW e \in BOOLEAN, SetPolicyEnabled(p, e) PROVE CfgReferences'
    BY <1>4, <2>5 DEF SetPolicyEnabled, LivePolicy, CfgTyped, CfgTypeOK, PolicyRow
  <2>. QED
    BY <1>5, <2>1, <2>2, <2>3, <2>4, <2>5 DEF PolicyActions, DeletePolicy, DeleteGroup
<1>6. ASSUME NEW u \in CfgUsers, NEW r \in Reports, NEW S \in SUBSET Policies, NEW e \in BOOLEAN,
             CreateReport(u, r, e, S) \/ UpdateReport(u, r, e, S)
      PROVE  CfgReferences'
  <2>1. \A q \in Reports : LiveReport(q) => LiveReport(q)'
    BY <1>6 DEF CreateReport, UpdateReport, LiveReport, CfgTyped, CfgTypeOK
  <2>. QED
    BY <1>6, <2>1 DEF CreateReport, UpdateReport, CfgReferences, LivePolicy
<1>7. ASSUME NEW u \in CfgUsers, StoreLinks(u) PROVE CfgReferences'
  <2>1. \A q \in Reports : LiveReport(q)' <=> LiveReport(q)
    BY <1>7 DEF StoreLinks, LiveReport, CfgTyped, CfgTypeOK, ReportRow
  <2>2. \A l \in NewLinks(u) : l.report = creq[u].report /\ l.policy \in creq[u].chosen
    BY DEF NewLinks
  <2>3. \A l \in links' \ links : LiveReport(l.report) /\ LivePolicy(l.policy) /\ l.report \in Reports
    BY <1>7, <2>2 DEF StoreLinks, CfgTyped, CfgLocal
  <2>. QED
    BY <1>7, <2>1, <2>3 DEF StoreLinks, CfgReferences, LivePolicy
<1>8. ASSUME NEW r \in Reports, NEW e \in BOOLEAN, SetReportEnabled(r, e) PROVE CfgReferences'
  <2>1. \A q \in Reports : LiveReport(q)' <=> LiveReport(q)
    BY <1>8 DEF SetReportEnabled, LiveReport, CfgTyped, CfgTypeOK, ReportRow
  <2>. QED
    BY <1>8, <2>1 DEF SetReportEnabled, CfgReferences, LivePolicy
<1>9. ASSUME NEW r \in Reports, NEW e \in BOOLEAN, NEW S \in SUBSET Policies, ImportReport(r, e, S)
      PROVE  CfgReferences'
  <2>1. \A q \in Reports : LiveReport(q) => LiveReport(q)'
    BY <1>9 DEF ImportReport, LiveReport, CfgTyped, CfgTypeOK
  <2>2. \A p \in Policies : LivePolicy(p) \/ p \in S => LivePolicy(p)'
    BY <1>9 DEF ImportReport, LivePolicy, CfgTyped, CfgTypeOK, PolicyRow
  <2>3. LiveReport(r)'
    BY <1>9 DEF ImportReport, LiveReport, CfgTyped, CfgTypeOK
  <2>4. \A l \in links' \ links : l.report = r /\ l.policy \in S
    BY <1>9 DEF ImportReport
  <2>. QED
    BY <1>9, <2>1, <2>2, <2>3, <2>4 DEF ImportReport, CfgReferences
<1>10. ASSUME NEW r \in Reports, DeleteReport(r) PROVE CfgReferences'
  <2>1. \A q \in Reports \ {r} : LiveReport(q)' <=> LiveReport(q)
    BY <1>10 DEF DeleteReport, LiveReport, CfgTyped, CfgTypeOK
  <2>2. \A s \in Plans : plan'[s].state = "live" => plan'[s] = plan[s] /\ plan[s].body.report # r
    BY <1>10 DEF DeleteReport
  <2>3. \A y \in results' : \E x \in results : /\ y.policy = x.policy /\ y.backup = x.backup
                                               /\ y.report = IF x.report = r THEN 0 ELSE x.report
    BY <1>10 DEF DeleteReport, Orphaned, CfgTyped, CfgTypeOK, ResultRow
  <2>. QED
    BY <1>10, <2>1, <2>2, <2>3 DEF DeleteReport, CfgReferences, LivePolicy
<1>11. ASSUME NEW s \in Plans, NEW r \in Reports, NEW b \in Runs, CreatePlan(s, r, b.byType, b.ids)
       PROVE  CfgReferences'
  <2>1. plan'[s].body.report = r /\ LiveReport(r) /\ \A q \in Plans \ {s} : plan'[q] = plan[q]
    BY <1>11 DEF CreatePlan, CfgTyped, CfgTypeOK, NoRun
  <2>. QED
    BY <1>11, <2>1 DEF CreatePlan, PlanStep, CfgReferences, LivePolicy, LiveReport
<1>12. ASSUME NEW s \in Plans, NEW b \in Runs, UpdatePlan(s, b.byType, b.ids) PROVE CfgReferences'
  <2>1. \A q \in Plans : plan'[q].state = plan[q].state /\ plan'[q].body.report = plan[q].body.report
    BY <1>12 DEF UpdatePlan, CfgTyped, CfgTypeOK, PlanRow, RunBody
  <2>2. UNCHANGED <<backups, policy, report, links, results>>
    BY <1>12 DEF UpdatePlan, PlanStep
  <2>. QED
    BY <2>1, <2>2 DEF CfgReferences, LivePolicy, LiveReport
<1>13. ASSUME NEW s \in Plans, DeletePlan(s) PROVE CfgReferences'
  <2>1. \A q \in Plans : plan'[q].state = "live" => plan'[q] = plan[q]
    BY <1>13 DEF DeletePlan, CfgTyped, CfgTypeOK
  <2>. QED
    BY <1>13, <2>1 DEF DeletePlan, PlanStep, CfgReferences, LivePolicy, LiveReport
<1>14. ASSUME NEW u \in CfgUsers,
              \/ \E b, s : BeginRun(u, b, s)
              \/ PickBackups(u)
       PROVE  CfgReferences'
  BY <1>14 DEF BeginRun, PickBackups, CfgReferences, LivePolicy, LiveReport
<1>15. ASSUME NEW u \in CfgUsers, StoreResults(u) PROVE CfgReferences'
  <2>1. ASSUME NEW x \in results' \ results
        PROVE  /\ LivePolicy(x.policy) /\ (\E b \in backups : b.at = x.backup)
               /\ x.report # 0 => LiveReport(x.report)
    <3>1. /\ creq[u].on \subseteq backups
          /\ \A p \in creq[u].chosen : LivePolicy(p)
          /\ creq[u].run.report # 0 => LiveReport(creq[u].run.report)
          /\ x \in NewResults(u)
      BY <1>15, <2>1 DEF StoreResults
    <3>2. x.policy \in creq[u].chosen /\ x.report = creq[u].run.report
          /\ \E b \in creq[u].on : x.backup = b.at
      BY <3>1 DEF NewResults
    <3>. QED
      BY <3>1, <3>2
  <2>. QED
    BY <1>15, <2>1 DEF StoreResults, CfgReferences, LivePolicy, LiveReport
<1>16. ASSUME NEW S, DeleteResults(S) PROVE CfgReferences'
  BY <1>16 DEF DeleteResults, CfgReferences, LivePolicy, LiveReport
<1>17. CASE UNCHANGED cfgVars
  BY <1>17 DEF cfgVars, CfgReferences, LivePolicy, LiveReport
<1>. QED
  BY <1>1, <1>2, <1>3, <1>5, <1>6, <1>7, <1>8, <1>9, <1>10, <1>11, <1>12, <1>13, <1>14, <1>15,
     <1>16, <1>17 DEF CfgNext, BackupActions, ReportActions, RunActions, RunCompliance, RunPlan

(* No row refers to a missing one: whatever was deleted or evicted between *)
(* the reads of a request and its commit, a result has its backup, its     *)
(* policy and its report, a link its report and its policy, a schedule its *)
(* report.                                                                 *)
THEOREM NothingDangles == CfgSpec => []CfgReferences
<1>1. CfgInit => CfgReferences
  BY DEF CfgInit, CfgReferences
<1>. QED
  BY <1>1, NextReferences, CfgTypedAlways, PTL DEF CfgSpec

-----------------------------------------------------------------------------
(* Links of a report, and the policies a run has chosen.                   *)

(* Steps that make no link, and no request that will.                      *)
QuietLinks ==
    /\ links' \subseteq links /\ torn' = torn
    /\ \A u \in CfgUsers : creq'[u] = creq[u] \/ creq'[u].pc # "links"
    /\ \A r \in Reports : report'[r].state = "fresh" => report[r].state = "fresh"

(* Steps that record no result of a report, and no run that will.          *)
QuietRuns ==
    /\ links' \subseteq links /\ linked' = linked
    /\ \A u \in CfgUsers : creq'[u] = creq[u] \/ creq'[u].pc \notin {"pick", "store"}
    /\ \A y \in results' : y.report # 0 => y \in results

LEMMA Quietness ==
    ASSUME CfgTyped, [CfgNext]_cfgVars
    PROVE  /\ \/ QuietLinks
              \/ \E u \in CfgUsers, r \in Reports, S \in SUBSET Policies, e \in BOOLEAN :
                     CreateReport(u, r, e, S) \/ UpdateReport(u, r, e, S)
              \/ \E u \in CfgUsers : StoreLinks(u)
              \/ \E r \in Reports, e \in BOOLEAN, S \in SUBSET Policies : ImportReport(r, e, S)
           /\ \/ QuietRuns
              \/ \E u \in CfgUsers : StoreLinks(u)
              \/ \E r \in Reports, e \in BOOLEAN, S \in SUBSET Policies : ImportReport(r, e, S)
              \/ \E u \in CfgUsers, b \in RunBody, s \in Plans \cup {0} : BeginRun(u, b, s)
              \/ \E u \in CfgUsers : PickBackups(u) \/ StoreResults(u)
<1>1. ASSUME BackupActions PROVE QuietLinks /\ QuietRuns
  <2>1. ASSUME NEW u \in CfgUsers, NEW b \in Bodies, CreateBackup(u, b) PROVE QuietLinks /\ QuietRuns
    <3>1. creq'[u].pc = "backup" /\ \A v \in CfgUsers \ {u} : creq'[v] = creq[v]
      BY <2>1, BackupBegun DEF CfgTyped
    <3>. QED
      BY <2>1, <3>1 DEF CreateBackup, QuietLinks, QuietRuns
  <2>2. ASSUME NEW u \in CfgUsers, StoreBackup(u) PROVE QuietLinks /\ QuietRuns
    BY <2>2, Ended DEF StoreBackup, QuietLinks, QuietRuns, CfgTyped
  <2>3. ASSUME NEW x \in backups, DeleteBackup(x) PROVE QuietLinks /\ QuietRuns
    BY <2>3 DEF DeleteBackup, QuietLinks, QuietRuns
  <2>. QED
    BY <1>1, <2>1, <2>2, <2>3 DEF BackupActions
<1>2. ASSUME PolicyActions PROVE QuietLinks /\ QuietRuns
  <2>1. PolicyStep /\ links' \subseteq links
    BY <1>2 DEF PolicyActions, CreatePolicy, UpdatePolicy, ImportPolicies, SetPolicyEnabled,
                SetGroupEnabled, DeletePolicy, DeleteGroup, DeletePolicies
  <2>. QED
    BY <2>1 DEF PolicyStep, QuietLinks, QuietRuns
<1>3. ASSUME NEW r \in Reports, NEW e \in BOOLEAN, SetReportEnabled(r, e) PROVE QuietLinks /\ QuietRuns
  <2>1. \A q \in Reports : report'[q].state = report[q].state
    BY <1>3 DEF SetReportEnabled, CfgTyped, CfgTypeOK, ReportRow
  <2>. QED
    BY <1>3, <2>1 DEF SetReportEnabled, QuietLinks, QuietRuns
<1>4. ASSUME NEW r \in Reports, DeleteReport(r) PROVE QuietLinks /\ QuietRuns
  <2>1. \A q \in Reports : report'[q].state = "fresh" => report[q].state = "fresh"
    BY <1>4 DEF DeleteReport, CfgTyped, CfgTypeOK
  <2>2. \A y \in results' : y.report # 0 => y \in results
    <3>1. \A x \in ResultRow : x.report # r => [x EXCEPT !.report = IF @ = r THEN 0 ELSE @] = x
      BY DEF ResultRow
    <3>2. \A x \in ResultRow : x.report = r => [x EXCEPT !.report = IF @ = r THEN 0 ELSE @].report = 0
      BY DEF ResultRow
    <3>3. ASSUME NEW y \in results', y.report # 0 PROVE y \in results
      <4>1. PICK x \in results : y = [x EXCEPT !.report = IF @ = r THEN 0 ELSE @]
        BY <1>4, <3>3 DEF DeleteReport, Orphaned
      <4>2. x \in ResultRow
        BY DEF CfgTyped, CfgTypeOK
      <4>. QED
        BY <3>1, <3>2, <3>3, <4>1, <4>2
    <3>. QED
      BY <3>3
  <2>. QED
    BY <1>4, <2>1, <2>2 DEF DeleteReport, QuietLinks, QuietRuns
<1>5. ASSUME NEW u \in CfgUsers, NEW r \in Reports, NEW S \in SUBSET Policies, NEW e \in BOOLEAN,
             CreateReport(u, r, e, S) \/ UpdateReport(u, r, e, S)
      PROVE  QuietRuns
  <2>1. creq'[u].pc = "links" /\ \A v \in CfgUsers \ {u} : creq'[v] = creq[v]
    BY <1>5, LinksBegun DEF CfgTyped
  <2>. QED
    BY <1>5, <2>1 DEF CreateReport, UpdateReport, QuietRuns
<1>6. ASSUME NEW s \in Plans, NEW byType, NEW ids,
             UpdatePlan(s, byType, ids) \/ (\E r \in Reports : CreatePlan(s, r, byType, ids))
             \/ DeletePlan(s)
      PROVE  QuietLinks /\ QuietRuns
  BY <1>6 DEF UpdatePlan, CreatePlan, DeletePlan, PlanStep, QuietLinks, QuietRuns
<1>7. ASSUME NEW u \in CfgUsers, NEW b \in RunBody, NEW s \in Plans \cup {0}, BeginRun(u, b, s)
      PROVE  QuietLinks
  <2>1. creq'[u].pc = "pick" /\ \A v \in CfgUsers \ {u} : creq'[v] = creq[v]
    BY <1>7, RunBegun DEF CfgTyped
  <2>. QED
    BY <1>7, <2>1 DEF BeginRun, QuietLinks
<1>8. ASSUME NEW u \in CfgUsers, PickBackups(u) \/ StoreResults(u) PROVE QuietLinks
  <2>1. UNCHANGED <<links, torn, report>>
    BY <1>8 DEF PickBackups, StoreResults
  <2>2. CASE End(u)
    BY <2>1, <2>2, Ended DEF QuietLinks, CfgTyped
  <2>3. CASE ~End(u)
    <3>1. \E on : creq' = [creq EXCEPT ![u].pc = "store", ![u].on = on, ![u].chosen = Chosen(u)]
      BY <1>8, <2>3 DEF PickBackups, StoreResults
    <3>. QED
      BY <2>1, <3>1 DEF QuietLinks, CfgTyped, CfgTypeOK, Request
  <2>. QED
    BY <2>2, <2>3
<1>9. ASSUME NEW S, DeleteResults(S) PROVE QuietLinks /\ QuietRuns
  BY <1>9 DEF DeleteResults, QuietLinks, QuietRuns
<1>10. CASE UNCHANGED cfgVars
  BY <1>10 DEF cfgVars, QuietLinks, QuietRuns
<1>11. CASE ReportActions
  BY <1>3, <1>4, <1>5, <1>11 DEF ReportActions
<1>12. CASE RunActions
  <2>1. /\ \A u \in CfgUsers, b \in Runs : RunCompliance(u, b) => BeginRun(u, b, 0) /\ b \in RunBody
        /\ \A u \in CfgUsers, s \in Plans : RunPlan(u, s) =>
              BeginRun(u, plan[s].body, s) /\ plan[s].body \in RunBody
    BY CfgAssumption DEF RunCompliance, RunPlan, CfgTyped, CfgTypeOK, PlanRow
  <2>. QED
    BY <1>6, <1>7, <1>8, <1>9, <1>12, <2>1 DEF RunActions
<1>. QED
  BY <1>1, <1>2, <1>10, <1>11, <1>12 DEF CfgNext

(* What makes the links of a report those of one request: a request that   *)
(* is to write them has seen all there are, unless another one writes them *)
(* as well; a report that is created has none.                             *)
OneWriter ==
    /\ LinksOverwritten
    /\ \A u \in CfgUsers : creq[u].pc = "links" =>
          /\ creq[u].report \in torn \/ Cut(creq[u].report) \subseteq creq[u].cut
          /\ report[creq[u].report].state # "fresh"
    /\ \A u, v \in CfgUsers :
          u # v /\ creq[u].pc = "links" /\ creq[v].pc = "links" /\ creq[u].report = creq[v].report
              => creq[u].report \in torn

LEMMA NextOneWriter ==
    CfgTyped /\ CfgReferences /\ OneWriter /\ [CfgNext]_cfgVars => OneWriter'
<1>. SUFFICES ASSUME CfgTyped, CfgReferences, OneWriter, [CfgNext]_cfgVars PROVE OneWriter'
  OBVIOUS
<1>. USE RowsTyped
<1>0. \A u \in CfgUsers : creq[u].pc = "links" => creq[u].report \in Reports
  BY DEF CfgTyped, CfgLocal
<1>1. CASE QuietLinks
  <2>1. LinksOverwritten'
    BY <1>1 DEF QuietLinks, OneWriter, LinksOverwritten
  <2>2. \A u \in CfgUsers : creq'[u].pc = "links" => creq'[u] = creq[u]
    BY <1>1 DEF QuietLinks
  <2>3. \A r : Cut(r)' \subseteq Cut(r)
    BY <1>1 DEF QuietLinks, Cut
  <2>. QED
    BY <1>0, <1>1, <2>1, <2>2, <2>3 DEF QuietLinks, OneWriter
<1>2. ASSUME NEW u \in CfgUsers, NEW r \in Reports, NEW S \in SUBSET Policies, NEW e \in BOOLEAN,
             CreateReport(u, r, e, S) \/ UpdateReport(u, r, e, S)
      PROVE  OneWriter'
  <2>1. /\ creq'[u].pc = "links" /\ creq'[u].report = r
        /\ \A v \in CfgUsers \ {u} : creq'[v] = creq[v]
        /\ UpdateReport(u, r, e, S) => creq'[u].cut = Cut(r)
        /\ creq[u].pc = "idle"
    BY <1>2, LinksBegun DEF CfgTyped
  <2>2. /\ links' = links /\ torn' = Torn(r)
        /\ report'[r].state = "live" /\ \A q \in Reports \ {r} : report'[q] = report[q]
    BY <1>2 DEF CreateReport, UpdateReport, LiveReport, CfgTyped, CfgTypeOK
  <2>3. \A q : Cut(q)' = Cut(q)
    BY <2>2 DEF Cut
  <2>4. Cut(r) \subseteq creq'[u].cut
    <3>1. CASE UpdateReport(u, r, e, S)
      BY <2>1, <3>1
    <3>2. CASE CreateReport(u, r, e, S)
      BY <3>2 DEF CreateReport, CfgReferences, LiveReport, Cut
    <3>. QED
      BY <1>2, <3>1, <3>2
  <2>5. torn \subseteq torn' /\ \A v \in CfgUsers : creq[v].pc = "links" /\ creq[v].report = r => r \in torn'
    BY <2>2 DEF Torn
  <2>6. LinksOverwritten'
    BY <2>2, <2>5 DEF OneWriter, LinksOverwritten
  <2>. QED
    BY <1>0, <2>1, <2>2, <2>3, <2>4, <2>5, <2>6 DEF OneWriter
<1>3. ASSUME NEW u \in CfgUsers, StoreLinks(u) PROVE OneWriter'
  <2>1. PICK r \in Reports : r = creq[u].report
    BY <1>0, <1>3 DEF StoreLinks
  <2>2. /\ creq'[u].pc = "idle" /\ \A v \in CfgUsers \ {u} : creq'[v] = creq[v]
        /\ torn' = torn
    BY <1>3, Ended DEF StoreLinks, CfgTyped
  <2>3. \A q \in Reports : report'[q].state = report[q].state
    BY <1>3, <2>1 DEF StoreLinks, CfgTyped, CfgTypeOK, ReportRow
  <2>4. links' = links \/ links' = (links \ creq[u].cut) \cup NewLinks(u)
    BY <1>3 DEF StoreLinks
  <2>5. \A l \in NewLinks(u) : l.report = r /\ l.by = creq[u].at
    BY <2>1 DEF NewLinks
  <2>6. r \in torn \/ Cut(r) \subseteq creq[u].cut
    BY <1>3, <2>1 DEF StoreLinks, OneWriter
  <2>7. LinksOverwritten'
    BY <2>2, <2>4, <2>5, <2>6 DEF OneWriter, LinksOverwritten, Cut
  <2>8. \A q \in Reports : q # r => Cut(q)' \subseteq Cut(q)
    BY <2>4, <2>5 DEF Cut
  <2>9. \A v \in CfgUsers \ {u} : creq[v].pc = "links" /\ creq[v].report = r => r \in torn
    BY <1>3, <2>1 DEF StoreLinks, OneWriter
  <2>. QED
    BY <1>0, <2>2, <2>3, <2>7, <2>8, <2>9 DEF OneWriter
<1>4. ASSUME NEW r \in Reports, NEW e \in BOOLEAN, NEW S \in SUBSET Policies, ImportReport(r, e, S)
      PROVE  OneWriter'
  <2>1. /\ report[r].state = "fresh" /\ report'[r].state = "live"
        /\ \A q \in Reports \ {r} : report'[q] = report[q]
        /\ creq' = creq /\ torn' = torn
        /\ links' = links \cup [report : {r}, policy : S, by : {stamp + 1}]
    BY <1>4 DEF ImportReport, CfgTyped, CfgTypeOK
  <2>2. \A l \in links : l.report # r
    BY <2>1 DEF CfgReferences, LiveReport
  <2>3. \A q \in Reports \ {r} : Cut(q)' \subseteq Cut(q)
    BY <2>1 DEF Cut
  <2>4. \A v \in CfgUsers : creq[v].pc = "links" => creq[v].report # r
    BY <2>1 DEF OneWriter
  <2>5. LinksOverwritten'
    BY <2>1, <2>2 DEF OneWriter, LinksOverwritten
  <2>. QED
    BY <1>0, <2>1, <2>3, <2>4, <2>5 DEF OneWriter
<1>. QED
  BY <1>1, <1>2, <1>3, <1>4, Quietness

(* The links of a report come from one request, unless two that wrote them *)
(* overlapped.                                                             *)
THEOREM LinksOfOneRequest == CfgSpec => []LinksOverwritten
<1>1. CfgInit => OneWriter
  BY DoneTyped DEF CfgInit, OneWriter, LinksOverwritten
<1>2. OneWriter => LinksOverwritten
  BY DEF OneWriter
<1>. QED
  BY <1>1, <1>2, NextOneWriter, CfgTypedAlways, NothingDangles, PTL DEF CfgSpec

-----------------------------------------------------------------------------
(* Runs of a report.                                                       *)

(* What a run of a report has chosen, it has chosen from the report's      *)
(* links.                                                                  *)
ChosenLinked ==
    /\ \A l \in links : <<l.report, l.policy>> \in linked
    /\ \A u \in CfgUsers :
          /\ creq[u].pc = "pick" \/ (creq[u].pc = "store" /\ creq[u].target # "one")
          /\ creq[u].run.report # 0
          => \A p \in creq[u].chosen : <<creq[u].run.report, p>> \in linked
    /\ ReportRunsItsPolicies

LEMMA NextChosen == CfgTyped /\ ChosenLinked /\ [CfgNext]_cfgVars => ChosenLinked'
<1>. SUFFICES ASSUME CfgTyped, ChosenLinked, [CfgNext]_cfgVars PROVE ChosenLinked'
  OBVIOUS
<1>1. CASE QuietRuns
  BY <1>1 DEF QuietRuns, ChosenLinked, ReportRunsItsPolicies
<1>2. ASSUME NEW u \in CfgUsers, StoreLinks(u) PROVE ChosenLinked'
  <2>1. /\ creq'[u].pc = "idle" /\ \A v \in CfgUsers \ {u} : creq'[v] = creq[v]
        /\ results' = results
    BY <1>2, Ended DEF StoreLinks, CfgTyped
  <2>2. linked \subseteq linked' /\ \A l \in links' : l \in links \/ <<l.report, l.policy>> \in linked'
    BY <1>2 DEF StoreLinks
  <2>. QED
    BY <2>1, <2>2 DEF ChosenLinked, ReportRunsItsPolicies
<1>3. ASSUME NEW r \in Reports, NEW e \in BOOLEAN, NEW S \in SUBSET Policies, ImportReport(r, e, S)
      PROVE  ChosenLinked'
  <2>1. UNCHANGED <<creq, results>> /\ linked' = linked \cup ({r} \X S)
    BY <1>3 DEF ImportReport
  <2>2. \A l \in links' : l \in links \/ (l.report = r /\ l.policy \in S)
    BY <1>3 DEF ImportReport
  <2>. QED
    BY <2>1, <2>2 DEF ChosenLinked, ReportRunsItsPolicies
<1>4. ASSUME NEW u \in CfgUsers, NEW b \in RunBody, NEW s \in Plans \cup {0}, BeginRun(u, b, s)
      PROVE  ChosenLinked'
  <2>1. /\ creq'[u].run = b /\ \A v \in CfgUsers \ {u} : creq'[v] = creq[v]
        /\ creq'[u].chosen = IF b.report = 0 THEN {} ELSE Serving(b.report)
    BY <1>4, RunBegun DEF CfgTyped
  <2>2. UNCHANGED <<links, linked, results>>
    BY <1>4 DEF BeginRun
  <2>3. \A p \in Serving(b.report) : <<b.report, p>> \in linked
    BY DEF Serving, ChosenLinked
  <2>. QED
    BY <2>1, <2>2, <2>3 DEF ChosenLinked, ReportRunsItsPolicies
<1>5. ASSUME NEW u \in CfgUsers, PickBackups(u) PROVE ChosenLinked'
  <2>1. UNCHANGED <<links, linked, results>> /\ creq[u].pc = "pick"
    BY <1>5 DEF PickBackups
  <2>2. CASE End(u)
    BY <2>1, <2>2, Ended DEF CfgTyped, ChosenLinked, ReportRunsItsPolicies
  <2>3. CASE ~End(u)
    <3>1. PICK on : creq' = [creq EXCEPT ![u].pc = "store", ![u].on = on, ![u].chosen = Chosen(u)]
      BY <1>5, <2>3 DEF PickBackups
    <3>2. /\ creq'[u].target = creq[u].target /\ creq'[u].run = creq[u].run
          /\ creq'[u].chosen = Chosen(u)
          /\ \A v \in CfgUsers \ {u} : creq'[v] = creq[v]
      BY <3>1 DEF CfgTyped, CfgTypeOK, Request
    <3>3. creq[u].target # "one" /\ creq[u].run.report # 0 =>
              Chosen(u) = creq[u].chosen \/ Chosen(u) = {}
      BY DEF Chosen, CfgTyped, CfgTypeOK, Request, Targets
    <3>4. creq[u].target # "one" /\ creq[u].run.report # 0 =>
              \A p \in creq'[u].chosen : <<creq[u].run.report, p>> \in linked
      BY <2>1, <3>2, <3>3 DEF ChosenLinked
    <3>5. ReportRunsItsPolicies' /\ \A l \in links' : <<l.report, l.policy>> \in linked'
      BY <2>1 DEF ChosenLinked, ReportRunsItsPolicies
    <3>6. ASSUME NEW v \in CfgUsers, creq'[v].run.report # 0, NEW p \in creq'[v].chosen,
                 creq'[v].pc = "pick" \/ (creq'[v].pc = "store" /\ creq'[v].target # "one")
          PROVE  <<creq'[v].run.report, p>> \in linked'
      <4>1. CASE v = u
        <5>1. creq'[u].pc = "store"
          BY <3>1 DEF CfgTyped, CfgTypeOK, Request
        <5>. QED
          BY <2>1, <3>2, <3>4, <3>6, <4>1, <5>1
      <4>2. CASE v # u
        BY <2>1, <3>2, <3>6, <4>2 DEF ChosenLinked
      <4>. QED
        BY <4>1, <4>2
    <3>. QED
      BY <3>5, <3>6 DEF ChosenLinked
  <2>. QED
    BY <2>2, <2>3
<1>6. ASSUME NEW u \in CfgUsers, StoreResults(u) PROVE ChosenLinked'
  <2>1. /\ creq'[u].pc = "idle" /\ \A v \in CfgUsers \ {u} : creq'[v] = creq[v]
        /\ UNCHANGED <<links, linked>>
    BY <1>6, Ended DEF StoreResults, CfgTyped
  <2>2. \A x \in results' \ results : /\ x.policy \in creq[u].chosen
                                      /\ x.report = creq[u].run.report /\ x.target = creq[u].target
    BY <1>6 DEF StoreResults, NewResults
  <2>3. creq[u].pc = "store"
    BY <1>6 DEF StoreResults
  <2>. QED
    BY <2>1, <2>2, <2>3 DEF ChosenLinked, ReportRunsItsPolicies
<1>. QED
  BY <1>1, <1>2, <1>3, <1>4, <1>5, <1>6, Quietness

(* A result recorded under a report, by device type or for a list of       *)
(* devices, is of a policy that has been one of the report's.              *)
THEOREM RunsKeepToTheReport == CfgSpec => []ReportRunsItsPolicies
<1>1. CfgInit => ChosenLinked
  BY DoneTyped DEF CfgInit, ChosenLinked, ReportRunsItsPolicies
<1>2. ChosenLinked => ReportRunsItsPolicies
  BY DEF ChosenLinked
<1>. QED
  BY <1>1, <1>2, NextChosen, CfgTypedAlways, PTL DEF CfgSpec

-----------------------------------------------------------------------------
(* Backups of a host.                                                      *)

Storing(u) == creq[u].pc = "backup"

(* Every backup, stored or to be stored, has a time of its own, and what   *)
(* is to be removed is older than what it makes room for.                  *)
Times ==
    /\ \A x \in backups : x.at <= stamp
    /\ \A x, y \in backups : x.at = y.at => x = y
    /\ \A u \in CfgUsers : Storing(u) =>
          /\ creq[u].at <= stamp
          /\ \A x \in backups : x.at # creq[u].at
          /\ \A x \in creq[u].evict : /\ x.at < creq[u].at
                                      /\ \A y \in backups : x.at = y.at => x = y
    /\ \A u, v \in CfgUsers : u # v /\ Storing(u) /\ Storing(v) =>
          /\ creq[u].at # creq[v].at
          /\ \A x \in creq[v].evict : x.at # creq[u].at

(* A create whose host no other create is about will remove the oldest     *)
(* rows of the host.                                                       *)
Alone ==
    /\ \A u, v \in CfgUsers :
          /\ u # v /\ Storing(u) /\ Storing(v)
          /\ creq[u].insert.host = creq[v].insert.host /\ creq[u].insert.host \in Hosts
          => creq[u].insert.host \in crowded
    /\ \A u \in CfgUsers : Storing(u) /\ creq[u].insert.host \in Hosts \ crowded =>
          \A x \in creq[u].evict, y \in backups :
              y.host = creq[u].insert.host /\ ~y.padded => x.at <= y.at

(* Steps that store no backup, and no request that will.                   *)
QuietBackups ==
    /\ backups' \subseteq backups /\ crowded' = crowded
    /\ stamp' \in Nat /\ stamp <= stamp'
    /\ \A u \in CfgUsers : creq'[u] = creq[u] \/ creq'[u].pc # "backup"

LEMMA BackupsQuiet ==
    ASSUME CfgTyped, [CfgNext]_cfgVars
    PROVE  \/ QuietBackups
           \/ \E u \in CfgUsers, b \in Bodies : CreateBackup(u, b)
           \/ \E u \in CfgUsers : StoreBackup(u)
<1>0. stamp \in Nat
  BY CfgAssumption DEF CfgTyped, CfgTypeOK
<1>1. ASSUME NEW x \in backups, DeleteBackup(x) PROVE QuietBackups
  BY <1>0, <1>1 DEF DeleteBackup, QuietBackups
<1>2. ASSUME PolicyActions PROVE QuietBackups
  <2>1. PolicyStep
    BY <1>2 DEF PolicyActions, CreatePolicy, UpdatePolicy, ImportPolicies, SetPolicyEnabled,
                SetGroupEnabled, DeletePolicy, DeleteGroup, DeletePolicies
  <2>. QED
    BY <1>0, <2>1 DEF PolicyStep, QuietBackups
<1>3. ASSUME NEW u \in CfgUsers, NEW r \in Reports, NEW S \in SUBSET Policies, NEW e \in BOOLEAN,
             CreateReport(u, r, e, S) \/ UpdateReport(u, r, e, S)
      PROVE  QuietBackups
  <2>1. creq'[u].pc = "links" /\ stamp' = stamp + 1 /\ \A v \in CfgUsers \ {u} : creq'[v] = creq[v]
    BY <1>3, LinksBegun DEF CfgTyped
  <2>. QED
    BY <1>0, <1>3, <2>1 DEF CreateReport, UpdateReport, QuietBackups
<1>4. ASSUME NEW u \in CfgUsers, StoreLinks(u) \/ StoreResults(u) PROVE QuietBackups
  BY <1>0, <1>4, Ended DEF StoreLinks, StoreResults, QuietBackups, CfgTyped
<1>5. ASSUME NEW r \in Reports, NEW e \in BOOLEAN, NEW S \in SUBSET Policies,
             SetReportEnabled(r, e) \/ ImportReport(r, e, S) \/ DeleteReport(r)
      PROVE  QuietBackups
  <2>1. UNCHANGED <<backups, crowded, creq>> /\ (stamp' = stamp \/ stamp' = stamp + 1)
    BY <1>5 DEF SetReportEnabled, ImportReport, DeleteReport
  <2>. QED
    BY <1>0, <2>1 DEF QuietBackups
<1>6. ASSUME NEW s \in Plans, NEW byType, NEW ids,
             UpdatePlan(s, byType, ids) \/ (\E r \in Reports : CreatePlan(s, r, byType, ids))
             \/ DeletePlan(s)
      PROVE  QuietBackups
  <2>1. UNCHANGED <<backups, crowded, creq, stamp>>
    BY <1>6 DEF UpdatePlan, CreatePlan, DeletePlan, PlanStep
  <2>. QED
    BY <1>0, <2>1 DEF QuietBackups
<1>7. ASSUME NEW u \in CfgUsers, NEW b \in RunBody, NEW s \in Plans \cup {0}, BeginRun(u, b, s)
      PROVE  QuietBackups
  <2>1. creq'[u].pc = "pick" /\ stamp' = stamp + 1 /\ \A v \in CfgUsers \ {u} : creq'[v] = creq[v]
    BY <1>7, RunBegun DEF CfgTyped
  <2>. QED
    BY <1>0, <1>7, <2>1 DEF BeginRun, QuietBackups
<1>8. ASSUME NEW u \in CfgUsers, PickBackups(u) PROVE QuietBackups
  <2>1. UNCHANGED <<backups, stamp, crowded>>
    BY <1>8 DEF PickBackups
  <2>2. CASE End(u)
    BY <1>0, <2>1, <2>2, Ended DEF QuietBackups, CfgTyped
  <2>3. CASE ~End(u)
    <3>1. \E on : creq' = [creq EXCEPT ![u].pc = "store", ![u].on = on, ![u].chosen = Chosen(u)]
      BY <1>8, <2>3 DEF PickBackups
    <3>. QED
      BY <1>0, <2>1, <3>1 DEF QuietBackups, CfgTyped, CfgTypeOK, Request
  <2>. QED
    BY <2>2, <2>3
<1>9. ASSUME NEW S, DeleteResults(S) PROVE QuietBackups
  BY <1>0, <1>9 DEF DeleteResults, QuietBackups
<1>10. ASSUME UNCHANGED cfgVars PROVE QuietBackups
  BY <1>0, <1>10 DEF cfgVars, QuietBackups
<1>11. /\ \A u \in CfgUsers, b \in Runs : RunCompliance(u, b) => BeginRun(u, b, 0) /\ b \in RunBody
       /\ \A u \in CfgUsers, s \in Plans : RunPlan(u, s) =>
              BeginRun(u, plan[s].body, s) /\ plan[s].body \in RunBody
  BY CfgAssumption DEF RunCompliance, RunPlan, CfgTyped, CfgTypeOK, PlanRow
<1>12. CASE BackupActions
  BY <1>1, <1>12 DEF BackupActions
<1>13. CASE ReportActions
  BY <1>3, <1>4, <1>5, <1>13 DEF ReportActions
<1>14. CASE RunActions
  BY <1>4, <1>6, <1>7, <1>8, <1>9, <1>11, <1>14 DEF RunActions
<1>. QED
  BY <1>2, <1>10, <1>12, <1>13, <1>14 DEF CfgNext

LEMMA BackupRows ==
    ASSUME CfgTyped
    PROVE  /\ stamp \in Nat
           /\ \A x \in backups : x.at \in Nat /\ x.padded \in BOOLEAN /\ x.host \in Hosts \cup {NoHost}
           /\ \A u \in CfgUsers : creq[u].at \in Nat /\ \A x \in creq[u].evict : x.at \in Nat
           /\ \A u \in CfgUsers : Storing(u) => creq[u].insert \in Bodies
                                             /\ creq[u].insert.host \in Hosts \cup {NoHost}
<1>1. Stamps \subseteq Nat /\ stamp \in Nat
  BY CfgAssumption DEF Stamps, CfgTyped, CfgTypeOK
<1>2. \A x \in BackupRow : x.at \in Nat /\ x.padded \in BOOLEAN /\ x.host \in Hosts \cup {NoHost}
  BY <1>1 DEF BackupRow
<1>3. \A u \in CfgUsers : creq[u].at \in Nat /\ creq[u].evict \subseteq BackupRow
  <2>1. \A u \in CfgUsers : creq[u] \in Request
    BY DEF CfgTyped, CfgTypeOK
  <2>2. \A r \in Request : r.at \in Stamps \cup {0} /\ r.evict \subseteq BackupRow
    BY DEF Request
  <2>3. \A u \in CfgUsers : creq[u].at \in Stamps \cup {0} /\ creq[u].evict \subseteq BackupRow
    BY <2>1, <2>2
  <2>4. Stamps \cup {0} \subseteq Nat
    BY <1>1
  <2>. QED
    BY <2>3, <2>4
<1>4. \A u \in CfgUsers : Storing(u) => creq[u].insert \in Bodies /\ creq[u].insert.host \in Hosts \cup {NoHost}
  BY CfgAssumption DEF Storing, CfgTyped, CfgLocal, Body
<1>5. backups \subseteq BackupRow
  BY DEF CfgTyped, CfgTypeOK
<1>. QED
  BY <1>1, <1>2, <1>3, <1>4, <1>5

(* What a step of create_backup does to the rows and the requests.         *)
LEMMA CreateStep ==
    ASSUME CfgTyped, NEW u \in CfgUsers, NEW b \in Bodies, CreateBackup(u, b)
    PROVE  /\ backups' = backups /\ stamp' = stamp + 1
           /\ \A v \in CfgUsers \ {u} : creq'[v] = creq[v] /\ (Storing(v)' <=> Storing(v))
           /\ ~Storing(u) /\ Storing(u)'
           /\ creq'[u].at = stamp + 1 /\ creq'[u].insert = b
           /\ creq'[u].evict = Evicted(b) /\ Evicted(b) \subseteq backups
           /\ crowded \subseteq crowded'
           /\ \A v \in CfgUsers : Storing(v) /\ creq[v].insert.host = b.host /\ b.host \in Hosts =>
                  b.host \in crowded'
<1>1. /\ backups' = backups /\ crowded \subseteq crowded'
      /\ (\E v \in CfgUsers : Storing(v) /\ DeviceKey(creq[v].insert) = DeviceKey(b)) =>
             DeviceKey(b) \in crowded'
  BY DEF CreateBackup, Storing
<1>2. Evicted(b) \subseteq backups
  BY DEF Evicted, Oldest, Counted
<1>3. /\ \A v \in CfgUsers \ {u} : creq'[v] = creq[v] /\ (Storing(v)' <=> Storing(v))
      /\ ~Storing(u) /\ Storing(u)'
      /\ stamp' = stamp + 1 /\ creq'[u].at = stamp + 1 /\ creq'[u].insert = b
      /\ creq'[u].evict = Evicted(b)
  BY BackupBegun DEF CfgTyped, Storing
<1>4. b.host \in Hosts => b.host # NoHost
  BY CfgAssumption
<1>. QED
  BY <1>1, <1>2, <1>3, <1>4 DEF DeviceKey

LEMMA StoreStep ==
    ASSUME CfgTyped, NEW u \in CfgUsers, StoreBackup(u)
    PROVE  /\ \/ backups' = backups
              \/ backups' = (backups \ creq[u].evict) \cup {Row(u)}
           /\ stamp' = stamp /\ crowded' = crowded
           /\ \A v \in CfgUsers \ {u} : creq'[v] = creq[v] /\ (Storing(v)' <=> Storing(v))
           /\ Storing(u) /\ ~Storing(u)'
           /\ Row(u).at = creq[u].at /\ Row(u).host = creq[u].insert.host
           /\ Row(u).padded = creq[u].insert.padded
BY Ended DEF StoreBackup, Storing, CfgTyped, Row

LEMMA NextTimes == CfgTyped /\ Times /\ [CfgNext]_cfgVars => Times'
<1>. SUFFICES ASSUME CfgTyped, Times, [CfgNext]_cfgVars PROVE Times'
  OBVIOUS
<1>0. /\ stamp \in Nat
      /\ \A x \in backups : x.at \in Nat
      /\ \A u \in CfgUsers : creq[u].at \in Nat /\ \A x \in creq[u].evict : x.at \in Nat
  BY BackupRows
<1>1. CASE QuietBackups
  <2>1. \A u \in CfgUsers : Storing(u)' => Storing(u) /\ creq'[u] = creq[u]
    BY <1>1 DEF QuietBackups, Storing
  <2>. QED
    BY <1>0, <1>1, <2>1 DEF QuietBackups, Times
<1>2. ASSUME NEW u \in CfgUsers, NEW b \in Bodies, CreateBackup(u, b) PROVE Times'
  <2>1. /\ backups' = backups /\ stamp' = stamp + 1
        /\ \A v \in CfgUsers \ {u} : creq'[v] = creq[v] /\ (Storing(v)' <=> Storing(v))
        /\ creq'[u].at = stamp + 1 /\ creq'[u].evict \subseteq backups
    BY <1>2, CreateStep
  <2>2. \A x \in backups : x.at < stamp + 1 /\ x.at <= stamp'
    BY <1>0, <2>1 DEF Times
  <2>3. \A v \in CfgUsers : Storing(v) => creq[v].at < stamp + 1 /\ \A x \in creq[v].evict : x.at < stamp + 1
    BY <1>0 DEF Times
  <2>4. \A v \in CfgUsers : Storing(v)' =>
          /\ creq'[v].at <= stamp'
          /\ \A x \in backups' : x.at # creq'[v].at
          /\ \A x \in creq'[v].evict : /\ x.at < creq'[v].at
                                       /\ \A y \in backups' : x.at = y.at => x = y
    BY <1>0, <2>1, <2>2, <2>3 DEF Times
  <2>5. \A v, w \in CfgUsers : v # w /\ Storing(v)' /\ Storing(w)' =>
          /\ creq'[v].at # creq'[w].at
          /\ \A x \in creq'[w].evict : x.at # creq'[v].at
    BY <1>0, <2>1, <2>2, <2>3 DEF Times
  <2>. QED
    BY <2>1, <2>2, <2>4, <2>5 DEF Times
<1>3. ASSUME NEW u \in CfgUsers, StoreBackup(u) PROVE Times'
  <2>1. /\ backups' \subseteq backups \cup {Row(u)}
        /\ stamp' = stamp
        /\ \A v \in CfgUsers \ {u} : creq'[v] = creq[v] /\ (Storing(v)' <=> Storing(v))
        /\ Storing(u) /\ ~Storing(u)'
        /\ Row(u).at = creq[u].at
    BY <1>3, StoreStep
  <2>. QED
    BY <1>0, <2>1 DEF Times
<1>. QED
  BY <1>1, <1>2, <1>3, BackupsQuiet

LEMMA NextAlone == CfgTyped /\ Times /\ Alone /\ [CfgNext]_cfgVars => Alone'
<1>. SUFFICES ASSUME CfgTyped, Times, Alone, [CfgNext]_cfgVars PROVE Alone'
  OBVIOUS
<1>0. /\ \A x \in backups : x.at \in Nat
      /\ \A u \in CfgUsers : creq[u].at \in Nat /\ \A x \in creq[u].evict : x.at \in Nat
  BY BackupRows
<1>1. CASE QuietBackups
  <2>1. \A u \in CfgUsers : Storing(u)' => Storing(u) /\ creq'[u] = creq[u]
    BY <1>1 DEF QuietBackups, Storing
  <2>. QED
    BY <1>1, <2>1 DEF QuietBackups, Alone
<1>2. ASSUME NEW u \in CfgUsers, NEW b \in Bodies, CreateBackup(u, b) PROVE Alone'
  <2>1. /\ backups' = backups
        /\ \A v \in CfgUsers \ {u} : creq'[v] = creq[v] /\ (Storing(v)' <=> Storing(v))
        /\ ~Storing(u) /\ creq'[u].insert = b /\ creq'[u].evict = Evicted(b)
        /\ crowded \subseteq crowded'
        /\ \A v \in CfgUsers : Storing(v) /\ creq[v].insert.host = b.host /\ b.host \in Hosts =>
                  b.host \in crowded'
    BY <1>2, CreateStep
  <2>2. b.host \in Hosts => \A x \in Evicted(b), y \in backups :
            y.host = b.host /\ ~y.padded => x.at <= y.at
    BY CfgAssumption DEF Evicted, Oldest, Counted
  <2>. QED
    BY <2>1, <2>2 DEF Alone
<1>3. ASSUME NEW u \in CfgUsers, StoreBackup(u) PROVE Alone'
  <2>1. /\ backups' \subseteq backups \cup {Row(u)}
        /\ crowded' = crowded
        /\ \A v \in CfgUsers \ {u} : creq'[v] = creq[v] /\ (Storing(v)' <=> Storing(v))
        /\ Storing(u) /\ ~Storing(u)'
        /\ Row(u).host = creq[u].insert.host
    BY <1>3, StoreStep
  <2>. QED
    BY <2>1 DEF Alone
<1>. QED
  BY <1>1, <1>2, <1>3, BackupsQuiet

LEMMA TimesAlways == CfgSpec => [](Times /\ Alone)
<1>1. CfgInit => Times /\ Alone
  BY DoneTyped DEF CfgInit, Times, Alone, Storing
<1>. QED
  BY <1>1, NextTimes, NextAlone, CfgTypedAlways, PTL DEF CfgSpec

(* What create_backup removes to make room for a backup of a host is older *)
(* than all that stays there, unless two creates for that host overlap.    *)
THEOREM OldBackupsGoFirst == CfgSpec => OldestGoFirst
<1> DEFINE Older ==
      \A u \in CfgUsers : StoreBackup(u) =>
          \A x \in backups \ backups', y \in backups' :
              /\ creq[u].insert.host \in Hosts \ crowded
              /\ y.host = creq[u].insert.host /\ ~y.padded
              => x.at < y.at
<1>1. CfgTyped /\ Times /\ Alone /\ [CfgNext]_cfgVars => [Older]_cfgVars
  <2>. SUFFICES ASSUME CfgTyped, Times, Alone, NEW u \in CfgUsers, StoreBackup(u),
                       NEW x \in backups \ backups', NEW y \in backups',
                       creq[u].insert.host \in Hosts \ crowded,
                       y.host = creq[u].insert.host, ~y.padded
                PROVE  x.at < y.at
    OBVIOUS
  <2>1. /\ x \in creq[u].evict /\ (y = Row(u) \/ (y \in backups /\ y \notin creq[u].evict))
        /\ Row(u).at = creq[u].at /\ Storing(u)
    BY StoreStep
  <2>2. x.at \in Nat /\ creq[u].at \in Nat
    BY BackupRows
  <2>3. CASE y = Row(u)
    BY <2>1, <2>3 DEF Times
  <2>4. CASE y \in backups /\ y \notin creq[u].evict
    <3>1. y.at \in Nat /\ x.at <= y.at /\ x.at # y.at
      BY <2>1, <2>4, BackupRows DEF Times, Alone
    <3>. QED
      BY <2>2, <3>1
  <2>. QED
    BY <2>1, <2>3, <2>4
<1>. QED
  BY <1>1, CfgTypedAlways, TimesAlways, PTL DEF CfgSpec, OldestGoFirst

-----------------------------------------------------------------------------
(* The cap.                                                                *)

LEMMA Smallest ==
    ASSUME NEW S \in SUBSET Nat, S # {}
    PROVE  \E m \in S : \A k \in S : m <= k
<1> DEFINE R == OpToRel(<, Nat)
<1>1. IsWellFoundedOn(R, Nat)
  BY NatLessThanWellFounded
<1>2. \A x, y \in Nat : x < y => <<x, y>> \in R
  BY DEF OpToRel
<1> HIDE DEF R
<1>3. PICK m \in S : \A k \in S : ~ (<<k, m>> \in R)
  BY <1>1, WFMin
<1>4. \A k \in S : k \in Nat /\ m \in Nat /\ ~(k < m)
  BY <1>2, <1>3
<1>5. \A k \in S : m <= k
  BY <1>4
<1>. QED
  BY <1>5

RowsOf(h) == {x \in backups : x.host = h /\ ~x.padded}

(* A host has at most Cap rows, and a create that nothing overlaps leaves  *)
(* room for the one it inserts.                                            *)
Room ==
    /\ IsFiniteSet(backups)
    /\ \A h \in Hosts \ crowded : Cardinality(RowsOf(h)) <= Cap
    /\ \A u \in CfgUsers : Storing(u) /\ creq[u].insert.host \in Hosts \ crowded =>
          Cardinality(RowsOf(creq[u].insert.host) \ creq[u].evict) < Cap

(* A part of a finite set is finite and no larger.                         *)
LEMMA Part ==
    ASSUME NEW S, IsFiniteSet(S), NEW T, T \subseteq S
    PROVE  /\ IsFiniteSet(T) /\ Cardinality(T) \in Nat /\ Cardinality(S) \in Nat
           /\ Cardinality(T) <= Cardinality(S)
           /\ T # S => Cardinality(T) < Cardinality(S)
<1>1. /\ IsFiniteSet(T) /\ Cardinality(T) <= Cardinality(S)
      /\ Cardinality(S) = Cardinality(T) => S = T
  BY FS_Subset
<1>2. Cardinality(T) \in Nat /\ Cardinality(S) \in Nat
  BY <1>1, FS_CardinalityType
<1>. QED
  BY <1>1, <1>2

LEMMA FullHostLosesOne ==
    ASSUME CfgTyped, Room, NEW b \in Bodies, b.host \in Hosts \ crowded
    PROVE  Cardinality(RowsOf(b.host) \ Evicted(b)) < Cap
<1> DEFINE S == RowsOf(b.host)
<1>1. Counted(b) = S
  BY CfgAssumption DEF Counted, RowsOf
<1>2. IsFiniteSet(S) /\ Cardinality(S) \in Nat /\ Cardinality(S) <= Cap
  BY Part DEF Room, RowsOf
<1>3. Cardinality(S \ Evicted(b)) \in Nat /\ Cardinality(S \ Evicted(b)) <= Cardinality(S)
  BY <1>2, Part
<1>4. Cap \in Nat /\ Cap > 0
  BY CfgAssumption
<1>5. CASE Cardinality(S) < Cap
  BY <1>2, <1>3, <1>4, <1>5
<1>6. CASE Cardinality(S) = Cap
  <2>1. Evicted(b) = Oldest(S)
    BY <1>1, <1>4, <1>6 DEF Evicted
  <2>2. S # {}
    BY <1>4, <1>6, FS_EmptySet
  <2>3. \A x \in S : x.at \in Nat
    BY BackupRows DEF RowsOf
  <2>4. PICK m \in {x.at : x \in S} : \A k \in {x.at : x \in S} : m <= k
    BY <2>2, <2>3, Smallest
  <2>5. Oldest(S) # {} /\ Oldest(S) \subseteq S
    BY <2>4 DEF Oldest
  <2>6. S \ Evicted(b) # S
    BY <2>1, <2>5
  <2>7. S \ Evicted(b) \subseteq S
    OBVIOUS
  <2> HIDE DEF S
  <2>8. Cardinality(S \ Evicted(b)) < Cardinality(S)
    BY <1>2, <2>6, <2>7, Part
  <2>. QED
    BY <1>6, <2>8 DEF S
<1>. QED
  BY <1>2, <1>4, <1>5, <1>6

LEMMA NextRoom == CfgTyped /\ Alone /\ Room /\ [CfgNext]_cfgVars => Room'
<1>. SUFFICES ASSUME CfgTyped, Alone, Room, [CfgNext]_cfgVars PROVE Room'
  OBVIOUS
<1>0. Cap \in Nat /\ \A h : IsFiniteSet(RowsOf(h)) /\ RowsOf(h) \subseteq backups
  BY CfgAssumption, Part DEF Room, RowsOf
<1>1. CASE QuietBackups
  <2>1. \A u \in CfgUsers : Storing(u)' => Storing(u) /\ creq'[u] = creq[u]
    BY <1>1 DEF QuietBackups, Storing
  <2>2. \A h : RowsOf(h)' \subseteq RowsOf(h)
    BY <1>1 DEF QuietBackups, RowsOf
  <2>3. IsFiniteSet(backups')
    BY <1>1, Part DEF QuietBackups, Room
  <2>4. \A h \in Hosts \ crowded' : Cardinality(RowsOf(h)') <= Cap
    <3>1. \A h \in Hosts : /\ Cardinality(RowsOf(h)') \in Nat /\ Cardinality(RowsOf(h)) \in Nat
                           /\ Cardinality(RowsOf(h)') <= Cardinality(RowsOf(h))
      BY <1>0, <2>2, Part
    <3>. QED
      BY <1>0, <1>1, <3>1 DEF QuietBackups, Room
  <2>5. ASSUME NEW u \in CfgUsers, Storing(u)', NEW h \in Hosts \ crowded', h = creq'[u].insert.host,
               NEW E, E = creq'[u].evict
        PROVE  Cardinality(RowsOf(h)' \ E) < Cap
    <3>1. Cardinality(RowsOf(h) \ E) < Cap
      BY <1>1, <2>1, <2>5 DEF QuietBackups, Room
    <3>2. IsFiniteSet(RowsOf(h) \ E)
      BY <1>0, Part
    <3>3. RowsOf(h)' \ E \subseteq RowsOf(h) \ E
      BY <2>2
    <3>4. /\ Cardinality(RowsOf(h)' \ E) <= Cardinality(RowsOf(h) \ E)
          /\ Cardinality(RowsOf(h)' \ E) \in Nat /\ Cardinality(RowsOf(h) \ E) \in Nat
      BY <3>2, <3>3, Part
    <3>. QED
      BY <1>0, <3>1, <3>4
  <2>. QED
    BY <2>1, <2>3, <2>4, <2>5 DEF Room
<1>2. ASSUME NEW u \in CfgUsers, NEW b \in Bodies, CreateBackup(u, b) PROVE Room'
  <2>1. /\ backups' = backups
        /\ \A v \in CfgUsers \ {u} : creq'[v] = creq[v] /\ (Storing(v)' <=> Storing(v))
        /\ creq'[u].insert = b /\ creq'[u].evict = Evicted(b)
        /\ crowded \subseteq crowded'
    BY <1>2, CreateStep
  <2>2. \A h : RowsOf(h)' = RowsOf(h)
    BY <2>1 DEF RowsOf
  <2>3. b.host \in Hosts \ crowded => Cardinality(RowsOf(b.host) \ Evicted(b)) < Cap
    BY FullHostLosesOne
  <2>4. \A v \in CfgUsers : Storing(v)' /\ creq'[v].insert.host \in Hosts \ crowded' =>
            Cardinality(RowsOf(creq'[v].insert.host) \ creq'[v].evict) < Cap
    BY <2>1, <2>3 DEF Room
  <2>5. \A h \in Hosts \ crowded' : Cardinality(RowsOf(h)') <= Cap
    BY <2>1, <2>2 DEF Room
  <2>6. IsFiniteSet(backups')
    BY <2>1 DEF Room
  <2>. QED
    BY <2>1, <2>4, <2>5, <2>6 DEF Room, RowsOf
<1>3. ASSUME NEW u \in CfgUsers, StoreBackup(u) PROVE Room'
  <2>0. PICK h \in Hosts \cup {NoHost} : h = creq[u].insert.host
    BY <1>3, BackupRows DEF StoreBackup, Storing
  <2>1. /\ \/ backups' = backups
           \/ backups' = (backups \ creq[u].evict) \cup {Row(u)}
        /\ crowded' = crowded
        /\ \A v \in CfgUsers \ {u} : creq'[v] = creq[v] /\ (Storing(v)' <=> Storing(v))
        /\ Storing(u) /\ ~Storing(u)'
        /\ Row(u).host = h
    BY <1>3, <2>0, StoreStep
  <2>2. IsFiniteSet(backups')
    <3>1. IsFiniteSet(backups \ creq[u].evict)
      BY Part DEF Room
    <3>2. IsFiniteSet((backups \ creq[u].evict) \cup {Row(u)})
      BY <3>1, FS_AddElement
    <3>. QED
      BY <2>1, <3>2 DEF Room
  <2>3. \A g : g # h => RowsOf(g)' \subseteq RowsOf(g)
    BY <2>1 DEF RowsOf
  <2>4. RowsOf(h)' \subseteq RowsOf(h) \/ RowsOf(h)' \subseteq (RowsOf(h) \ creq[u].evict) \cup {Row(u)}
    BY <2>1 DEF RowsOf
  <2>5. ASSUME NEW g \in Hosts \ crowded, RowsOf(g)' \subseteq RowsOf(g)
        PROVE  Cardinality(RowsOf(g)') <= Cap
    <3>1. /\ Cardinality(RowsOf(g)') \in Nat /\ Cardinality(RowsOf(g)) \in Nat
          /\ Cardinality(RowsOf(g)') <= Cardinality(RowsOf(g))
      BY <1>0, <2>5, Part
    <3>. QED
      BY <1>0, <3>1 DEF Room
  <2>6. ASSUME h \in Hosts \ crowded, RowsOf(h)' \subseteq (RowsOf(h) \ creq[u].evict) \cup {Row(u)}
        PROVE  Cardinality(RowsOf(h)') <= Cap
    <3> DEFINE K == RowsOf(h) \ creq[u].evict
    <3>1. Cardinality(K) < Cap
      BY <2>0, <2>1, <2>6 DEF Room
    <3>2. IsFiniteSet(K) /\ Cardinality(K) \in Nat
      BY <1>0, Part
    <3> HIDE DEF K
    <3>3. IsFiniteSet(K \cup {Row(u)}) /\ Cardinality(K \cup {Row(u)}) <= Cardinality(K) + 1
      <4>1. /\ IsFiniteSet(K \cup {Row(u)})
            /\ \/ Cardinality(K \cup {Row(u)}) = Cardinality(K)
               \/ Cardinality(K \cup {Row(u)}) = Cardinality(K) + 1
        BY <3>2, FS_AddElement, Zenon
      <4>. QED
        BY <3>2, <4>1
    <3>4. RowsOf(h)' \subseteq K \cup {Row(u)}
      BY <2>6 DEF K
    <3>5. /\ Cardinality(RowsOf(h)') <= Cardinality(K \cup {Row(u)})
          /\ Cardinality(RowsOf(h)') \in Nat /\ Cardinality(K \cup {Row(u)}) \in Nat
      BY <3>3, <3>4, Part
    <3>. QED
      BY <1>0, <3>1, <3>2, <3>3, <3>5
  <2>7. \A g \in Hosts \ crowded' : Cardinality(RowsOf(g)') <= Cap
    BY <2>1, <2>3, <2>4, <2>5, <2>6
  <2>8. ASSUME NEW v \in CfgUsers, Storing(v)', NEW g \in Hosts \ crowded', g = creq'[v].insert.host,
               NEW E, E = creq'[v].evict
        PROVE  Cardinality(RowsOf(g)' \ E) < Cap
    <3>1. v # u /\ Storing(v) /\ creq'[v] = creq[v] /\ g \in Hosts \ crowded
      BY <2>1, <2>8
    <3>2. g # h
      BY <2>0, <2>1, <2>8, <3>1 DEF Alone
    <3>3. Cardinality(RowsOf(g) \ E) < Cap
      BY <2>8, <3>1 DEF Room
    <3>4. IsFiniteSet(RowsOf(g) \ E)
      BY <1>0, Part
    <3>5. RowsOf(g)' \ E \subseteq RowsOf(g) \ E
      BY <2>3, <3>2
    <3>6. /\ Cardinality(RowsOf(g)' \ E) <= Cardinality(RowsOf(g) \ E)
          /\ Cardinality(RowsOf(g)' \ E) \in Nat /\ Cardinality(RowsOf(g) \ E) \in Nat
      BY <3>4, <3>5, Part
    <3>. QED
      BY <1>0, <3>3, <3>6
  <2>. QED
    BY <2>1, <2>2, <2>7, <2>8 DEF Room
<1>. QED
  BY <1>1, <1>2, <1>3, BackupsQuiet

(* A host that is sent without blanks has at most Cap backups, unless two  *)
(* creates for that host overlap.                                          *)
THEOREM CapHolds == CfgSpec => []HostCap
<1>1. CfgInit => Room
  <2>. SUFFICES ASSUME CfgInit PROVE Room
    OBVIOUS
  <2>1. backups = {} /\ \A u \in CfgUsers : ~Storing(u)
    BY DoneTyped DEF CfgInit, Storing
  <2>2. \A h : RowsOf(h) = {}
    BY <2>1 DEF RowsOf
  <2>. QED
    BY <2>1, <2>2, FS_EmptySet, CfgAssumption DEF Room
<1>2. Room => HostCap
  BY DEF Room, HostCap, RowsOf
<1>. QED
  BY <1>1, <1>2, NextRoom, CfgTypedAlways, TimesAlways, PTL DEF CfgSpec
=============================================================================
