--------------------- MODULE ProcessDefinitions_proofs ---------------------
(***************************************************************************)
(* Proofs about ProcessDefinitions, for all sets of servers, definitions,  *)
(* contents and jobs.                                                      *)
(***************************************************************************)
EXTENDS ProcessDefinitions, FiniteSetTheorems, TLAPS

-----------------------------------------------------------------------------
(* Requests.                                                               *)

LEMMA RequestKinds ==
    ASSUME NEW r \in PdRequest
    PROVE  /\ r.pc \in {"idle", "update", "rollback", "publish", "job"}
           /\ r.pc = "update" => r.read \in VersionRow /\ r.content \in Contents
           /\ r.pc = "rollback" => r.read \in VersionRow
           /\ r.pc \in {"publish", "job"} => r.of \in Definitions
           /\ r.pc = "job" => r.job \in PdJobs \cup {0}
BY DEF PdRequest, PdIdle

LEMMA Requests ==
    /\ PdIdle \in PdRequest /\ PdIdle.pc = "idle"
    /\ \A v \in VersionRow, c \in Contents : [pc |-> "update", read |-> v, content |-> c] \in PdRequest
    /\ \A v \in VersionRow : [pc |-> "rollback", read |-> v] \in PdRequest
    /\ \A d \in Definitions : [pc |-> "publish", of |-> d] \in PdRequest
    /\ \A d \in Definitions, j \in PdJobs \cup {0} : [pc |-> "job", of |-> d, job |-> j] \in PdRequest
BY DEF PdRequest, PdIdle

(* What a definition is belongs to the rows of its history.                *)
LEMMA CurrentRow ==
    ASSUME PdTypeOK, NEW d \in Definitions
    PROVE  Current(d) \in VersionRow /\ Current(d).of = d
BY DEF PdTypeOK, Current, VersionRow, DefRow

LEMMA DefinitionWritten ==
    ASSUME PdTypeOK, NEW d \in Definitions, NEW row \in DefRow, pdef' = [pdef EXCEPT ![d] = row]
    PROVE  pdef' \in [Definitions -> DefRow]
BY DEF PdTypeOK

LEMMA RequestWritten ==
    ASSUME PdTypeOK, NEW s \in PdServers, NEW r \in PdRequest, preq' = [preq EXCEPT ![s] = r]
    PROVE  /\ preq' \in [PdServers -> PdRequest] /\ preq'[s] = r
           /\ \A v \in PdServers \ {s} : preq'[v] = preq[v]
BY DEF PdTypeOK

-----------------------------------------------------------------------------
(* Types.                                                                  *)

(* What an update or a rollback has read is of a definition that exists.   *)
ReadsExist == \A s \in PdServers : preq[s].pc \in {"update", "rollback"} => Exists(preq[s].read.of)

LEMMA InitPd == PdInit => PdTypeOK /\ ReadsExist
BY Requests, PdAssumption DEF PdInit, PdTypeOK, ReadsExist, DefRow, Versions

LEMMA NextPd == PdTypeOK /\ ReadsExist /\ [PdNext]_pdVars => PdTypeOK'
<1>. SUFFICES ASSUME PdTypeOK, ReadsExist, [PdNext]_pdVars PROVE PdTypeOK'
  OBVIOUS
<1>0. \A s \in PdServers : preq[s] \in PdRequest
  BY DEF PdTypeOK
<1>1. ASSUME NEW d \in Definitions, NEW c \in Contents, CreateDefinition(d, c) PROVE PdTypeOK'
  <2>1. [state |-> "live", status |-> "draft", version |-> 1, content |-> c] \in DefRow
    BY PdAssumption DEF DefRow, Versions
  <2>2. [of |-> d, version |-> 1, content |-> c] \in VersionRow
    BY PdAssumption DEF VersionRow, Versions
  <2>3. pdef' \in [Definitions -> DefRow]
    BY <1>1, <2>1, DefinitionWritten DEF CreateDefinition
  <2>4. \A e \in Definitions : Exists(e) => Exists(e)'
    BY <1>1 DEF CreateDefinition, PdTypeOK, Exists
  <2>. QED
    BY <1>1, <2>2, <2>3, <2>4 DEF CreateDefinition, Rows, PdTypeOK, VersionRow
<1>2. ASSUME NEW d \in Definitions, DeleteDefinition(d) PROVE PdTypeOK'
  <2>1. [pdef[d] EXCEPT !.state = "deleted"] \in DefRow
    BY DEF PdTypeOK, DefRow
  <2>2. pdef' \in [Definitions -> DefRow]
    BY <1>2, <2>1, DefinitionWritten DEF DeleteDefinition, PdTypeOK
  <2>3. \A e \in Definitions : Exists(e) => Exists(e)'
    BY <1>2 DEF DeleteDefinition, PdTypeOK, Exists, LiveDef, DefRow
  <2>. QED
    BY <1>2, <2>2, <2>3 DEF DeleteDefinition, Rows, PdTypeOK, VersionRow
<1>3. ASSUME NEW d \in Definitions, NEW status \in {"published", "disabled"},
             pdef' = [pdef EXCEPT ![d].status = status],
             UNCHANGED <<versions, pjobs, committed, rolled, skipped, orphaned>>,
             preq' \in [PdServers -> PdRequest], crossed' \subseteq Definitions
      PROVE  PdTypeOK'
  <2>1. [pdef[d] EXCEPT !.status = status] \in DefRow
    BY DEF PdTypeOK, DefRow
  <2>2. pdef' \in [Definitions -> DefRow]
    BY <1>3, <2>1, DefinitionWritten DEF PdTypeOK
  <2>3. \A e \in Definitions : Exists(e) => Exists(e)'
    BY <1>3 DEF PdTypeOK, Exists, DefRow
  <2>. QED
    BY <1>3, <2>2, <2>3 DEF PdTypeOK, VersionRow
<1>4. ASSUME NEW d \in Definitions, DisableDefinition(d) PROVE PdTypeOK'
  BY <1>3, <1>4 DEF DisableDefinition, Rows, PdTypeOK
<1>5. ASSUME NEW s \in PdServers, NEW d \in Definitions, NEW c \in Contents, UpdateRead(s, d, c) PROVE PdTypeOK'
  BY <1>5, Requests, CurrentRow, RequestWritten DEF UpdateRead, PdTypeOK, Exists
<1>6. ASSUME NEW s \in PdServers, UpdateWrite(s) PROVE PdTypeOK'
  <2>1. PICK d \in Definitions : d = preq[s].read.of
    BY <1>0, <1>6, RequestKinds DEF UpdateWrite, VersionRow
  <2>2. preq[s].read \in VersionRow /\ preq[s].content \in Contents
    BY <1>0, <1>6, RequestKinds DEF UpdateWrite
  <2>3. pdef[d] \in DefRow /\ pdef[d].version < MaxVersion
    BY <1>6, <2>1 DEF UpdateWrite, PdTypeOK
  <2>4. NextVersion(s) \in Versions
    BY <2>1, <2>3, PdAssumption DEF NextVersion, Versions, DefRow
  <2>5. [pdef[d] EXCEPT !.version = NextVersion(s), !.content = preq[s].content] \in DefRow
    BY <2>2, <2>3, <2>4 DEF DefRow
  <2>6. pdef' = [pdef EXCEPT ![d] = [pdef[d] EXCEPT !.version = NextVersion(s), !.content = preq[s].content]]
    BY <1>6, <2>1 DEF UpdateWrite, PdTypeOK
  <2>7. pdef' \in [Definitions -> DefRow]
    BY <2>5, <2>6, DefinitionWritten
  <2>8. \A e \in Definitions : Exists(e) => Exists(e)'
    BY <2>6, <2>3 DEF PdTypeOK, Exists, DefRow
  <2>9. [of |-> d, version |-> NextVersion(s), content |-> preq[s].content] \in VersionRow
    BY <2>2, <2>4 DEF VersionRow
  <2>10. preq' \in [PdServers -> PdRequest]
    BY <1>6, Requests, RequestWritten DEF UpdateWrite
  <2>11. \A v \in versions' : v \in VersionRow /\ Exists(v.of)'
    BY <1>6, <2>2, <2>8 DEF UpdateWrite, Snapshot, PdTypeOK, ReadsExist, VersionRow
  <2>. QED
    BY <1>6, <2>1, <2>7, <2>9, <2>10, <2>11 DEF UpdateWrite, PdTypeOK
<1>7. ASSUME NEW s \in PdServers, NEW v \in versions, RollbackRead(s, v) PROVE PdTypeOK'
  BY <1>7, Requests, RequestWritten DEF RollbackRead, PdTypeOK, Exists
<1>8. ASSUME NEW s \in PdServers, RollbackWrite(s) PROVE PdTypeOK'
  <2>1. PICK v \in VersionRow : v = preq[s].read
    BY <1>0, <1>8, RequestKinds DEF RollbackWrite
  <2>2. v.of \in Definitions /\ pdef[v.of] \in DefRow
    BY <2>1 DEF VersionRow, PdTypeOK
  <2>3. [pdef[v.of] EXCEPT !.version = v.version, !.content = v.content] \in DefRow
    BY <2>2 DEF DefRow, VersionRow
  <2>4. pdef' = [pdef EXCEPT ![v.of] = [pdef[v.of] EXCEPT !.version = v.version, !.content = v.content]]
    BY <1>8, <2>1, <2>2 DEF RollbackWrite, PdTypeOK
  <2>5. pdef' \in [Definitions -> DefRow]
    BY <2>2, <2>3, <2>4, DefinitionWritten
  <2>6. \A e \in Definitions : Exists(e) => Exists(e)'
    BY <2>2, <2>4 DEF PdTypeOK, Exists, DefRow
  <2>7. preq' \in [PdServers -> PdRequest]
    BY <1>8, Requests, RequestWritten DEF RollbackWrite
  <2>. QED
    BY <1>8, <2>1, <2>2, <2>5, <2>6, <2>7 DEF RollbackWrite, PdTypeOK, VersionRow
<1>9. ASSUME NEW s \in PdServers, NEW d \in Definitions, PublishStatus(s, d) PROVE PdTypeOK'
  <2>1. preq' \in [PdServers -> PdRequest]
    BY <1>9, Requests, RequestWritten DEF PublishStatus
  <2>2. crossed' \subseteq Definitions
    BY <1>9 DEF PublishStatus, PdTypeOK
  <2>. QED
    BY <1>3, <1>9, <2>1, <2>2 DEF PublishStatus
<1>10. ASSUME NEW s \in PdServers, PublishLookup(s) PROVE PdTypeOK'
  <2>1. preq[s].of \in Definitions
    BY <1>0, <1>10, RequestKinds DEF PublishLookup
  <2>2. Found(preq[s].of) \subseteq PdJobs
    BY DEF Found, JobsOf, PdTypeOK, JobRow
  <2>3. PICK j \in PdJobs \cup {0} : preq' = [preq EXCEPT ![s] = [pc |-> "job", of |-> preq[s].of, job |-> j]]
    BY <1>10, <2>2 DEF PublishLookup
  <2>4. preq' \in [PdServers -> PdRequest]
    BY <2>1, <2>3, Requests, RequestWritten
  <2>. QED
    BY <1>10, <2>4 DEF PublishLookup, PdTypeOK, Exists
<1>11. ASSUME NEW s \in PdServers, PublishJob(s) PROVE PdTypeOK'
  <2>1. preq[s].of \in Definitions
    BY <1>0, <1>11, RequestKinds DEF PublishJob
  <2>2. \A j \in PdJobs : [id |-> j, of |-> preq[s].of] \in JobRow
    BY <2>1 DEF JobRow
  <2>3. pjobs' \subseteq JobRow
    BY <1>11, <2>2 DEF PublishJob, PdTypeOK
  <2>4. orphaned' \subseteq Definitions
    BY <1>11 DEF PublishJob, PdTypeOK
  <2>5. preq' \in [PdServers -> PdRequest]
    BY <1>11, Requests, RequestWritten DEF PublishJob
  <2>. QED
    BY <1>11, <2>3, <2>4, <2>5 DEF PublishJob, PdTypeOK, Exists
<1>12. ASSUME NEW s \in PdServers, PdRestart(s) PROVE PdTypeOK'
  <2>1. orphaned' \subseteq Definitions
    BY <1>0, <1>12, RequestKinds DEF PdRestart, PdTypeOK
  <2>2. preq' \in [PdServers -> PdRequest]
    BY <1>12, Requests, RequestWritten DEF PdRestart
  <2>. QED
    BY <1>12, <2>1, <2>2 DEF PdRestart, PdTypeOK, Exists
<1>13. ASSUME NEW j \in JobRow, UserActions(j) PROVE PdTypeOK'
  <2>1. pjobs' \subseteq JobRow
    BY <1>13 DEF UserActions, UserCreatesJob, UserDeletesJob, UserMovesJob, PdTypeOK, JobRow
  <2>2. crossed' \subseteq Definitions /\ orphaned' \subseteq Definitions
    BY <1>13 DEF UserActions, UserCreatesJob, UserDeletesJob, UserMovesJob, Orphans, PdTypeOK
  <2>3. UNCHANGED <<pdef, versions, preq, committed, rolled, skipped>>
    BY <1>13 DEF UserActions, UserCreatesJob, UserDeletesJob, UserMovesJob
  <2>. QED
    BY <2>1, <2>2, <2>3 DEF PdTypeOK, Exists
<1>14. CASE UNCHANGED pdVars
  BY <1>14 DEF pdVars, PdTypeOK, Exists
<1>. QED
  BY <1>1, <1>2, <1>4, <1>5, <1>6, <1>7, <1>8, <1>9, <1>10, <1>11, <1>12, <1>13, <1>14
     DEF PdNext, DefinitionActions, PdServerActions

LEMMA NextReads == PdTypeOK /\ ReadsExist /\ [PdNext]_pdVars => ReadsExist'
<1>. SUFFICES ASSUME PdTypeOK, ReadsExist, [PdNext]_pdVars PROVE ReadsExist'
  OBVIOUS
<1>0. \A s \in PdServers : preq[s] \in PdRequest
  BY DEF PdTypeOK
<1>1. ASSUME NEW d \in Definitions, DefinitionActions(d) PROVE ReadsExist'
  <2>1. preq' = preq /\ \A e \in Definitions : Exists(e) => Exists(e)'
    BY <1>1 DEF DefinitionActions, CreateDefinition, DeleteDefinition, DisableDefinition, Rows,
       PdTypeOK, Exists, DefRow
  <2>. QED
    BY <1>0, <2>1, RequestKinds DEF ReadsExist, VersionRow
<1>2. ASSUME NEW s \in PdServers, PdServerActions(s) PROVE ReadsExist'
  <2>1. \A e \in Definitions : Exists(e) => Exists(e)'
    <3>1. UpdateWrite(s) \/ RollbackWrite(s) => \A e \in Definitions : Exists(e) => Exists(e)'
      <4>1. UpdateWrite(s) \/ RollbackWrite(s) =>
               \A e \in Definitions : pdef'[e].state = pdef[e].state
        BY DEF UpdateWrite, RollbackWrite, PdTypeOK, DefRow
      <4>. QED
        BY <4>1 DEF Exists
    <3>2. ASSUME NEW d \in Definitions, PublishStatus(s, d)
          PROVE  \A e \in Definitions : Exists(e) => Exists(e)'
      BY <3>2 DEF PublishStatus, PdTypeOK, Exists, DefRow
    <3>3. pdef' = pdef => \A e \in Definitions : Exists(e) => Exists(e)'
      BY DEF Exists
    <3>. QED
      BY <1>2, <3>1, <3>2, <3>3 DEF PdServerActions, UpdateRead, RollbackRead, PublishLookup,
         PublishJob, PdRestart
  <2>2. \A v \in PdServers \ {s} : preq'[v] = preq[v]
    BY <1>2 DEF PdServerActions, UpdateRead, UpdateWrite, RollbackRead, RollbackWrite, PublishStatus,
       PublishLookup, PublishJob, PdRestart, PdTypeOK
  <2>3. preq'[s].pc \in {"update", "rollback"} => Exists(preq'[s].read.of)
    <3>1. ASSUME NEW d \in Definitions, NEW c \in Contents, UpdateRead(s, d, c)
          PROVE  Exists(preq'[s].read.of)
      BY <3>1, CurrentRow DEF UpdateRead, PdTypeOK, LiveDef, Exists
    <3>2. ASSUME NEW v \in versions, RollbackRead(s, v) PROVE Exists(preq'[s].read.of)
      BY <3>2 DEF RollbackRead, PdTypeOK
    <3>3. UpdateWrite(s) \/ RollbackWrite(s) \/ PublishJob(s) \/ PdRestart(s) => preq'[s] = PdIdle
      BY DEF UpdateWrite, RollbackWrite, PublishJob, PdRestart, PdTypeOK
    <3>4. PublishLookup(s) => preq'[s].pc = "job"
      BY DEF PublishLookup, PdTypeOK
    <3>5. ASSUME NEW d \in Definitions, PublishStatus(s, d) PROVE preq'[s].pc = "publish"
      BY <3>5 DEF PublishStatus, PdTypeOK
    <3>. QED
      BY <1>2, <3>1, <3>2, <3>3, <3>4, <3>5, Requests DEF PdServerActions
  <2>4. ASSUME NEW v \in PdServers, preq'[v].pc \in {"update", "rollback"}
        PROVE  preq'[v].read.of \in Definitions /\ Exists(preq'[v].read.of)
    <3>1. preq'[v].read.of \in Definitions
      BY <2>4, RequestKinds, NextPd DEF PdTypeOK, VersionRow
    <3>. QED
      BY <2>2, <2>3, <2>4, <3>1 DEF ReadsExist
  <2>. QED
    BY <2>1, <2>4 DEF ReadsExist, Exists
<1>3. ASSUME NEW j \in JobRow, UserActions(j) PROVE ReadsExist'
  BY <1>3 DEF UserActions, UserCreatesJob, UserDeletesJob, UserMovesJob, ReadsExist, Exists
<1>4. CASE UNCHANGED pdVars
  BY <1>4 DEF pdVars, ReadsExist, Exists
<1>. QED
  BY <1>1, <1>2, <1>3, <1>4 DEF PdNext

LEMMA ReadsAlways == PdSpec => [](PdTypeOK /\ ReadsExist)
<1>. QED
  BY InitPd, NextPd, NextReads, PTL DEF PdSpec

(* Definitions, versions, jobs and requests keep their types, and a stored *)
(* version belongs to a definition that exists.                            *)
THEOREM PdTypes == PdSpec => []PdTypeOK
<1>. QED
  BY ReadsAlways, PTL

-----------------------------------------------------------------------------
(* Version numbers.                                                        *)

(* Until a rollback, numbers only grow: what a definition is now has the   *)
(* largest one.                                                            *)
Numbered ==
    /\ \A d \in Definitions : Exists(d) => Current(d) \in committed
    /\ versions \subseteq committed
    /\ \A s \in PdServers : preq[s].pc \in {"update", "rollback"} => preq[s].read \in committed
    /\ \A v \in committed : Exists(v.of)
    /\ \A v \in committed : v.of \notin rolled => v.version <= pdef[v.of].version
    /\ \A v, w \in committed :
          v.of = w.of /\ v.version = w.version /\ v.of \notin rolled => v = w

(* Steps that write no content.                                            *)
SameContents ==
    /\ \A d \in Definitions :
          /\ pdef'[d].version = pdef[d].version
          /\ pdef'[d].content = pdef[d].content
          /\ Exists(d)' <=> Exists(d)
    /\ UNCHANGED <<versions, committed, rolled, skipped>>

LEMMA SameContentsNumbered ==
    ASSUME PdTypeOK, Numbered, SameContents,
           \A s \in PdServers : preq'[s].pc \in {"update", "rollback"} => preq'[s].read \in committed
    PROVE  Numbered'
<1>1. \A v \in committed : v.of \in Definitions
  BY DEF PdTypeOK, VersionRow
<1>2. ASSUME NEW d \in Definitions PROVE Current(d)' = Current(d)
  BY DEF SameContents, Current
<1>3. /\ \A d \in Definitions : Exists(d)' => Exists(d)
      /\ \A v \in committed : Exists(v.of)' /\ pdef'[v.of].version = pdef[v.of].version
      /\ versions' = versions /\ committed' = committed /\ rolled' = rolled
  BY <1>1 DEF Numbered, SameContents
<1>. QED
  BY <1>2, <1>3 DEF Numbered

LEMMA QuietSteps ==
    ASSUME PdTypeOK, [PdNext]_pdVars
    PROVE  \/ SameContents
           \/ \E d \in Definitions, c \in Contents : CreateDefinition(d, c)
           \/ \E s \in PdServers : UpdateWrite(s) \/ RollbackWrite(s)
<1>1. ASSUME NEW d \in Definitions, DeleteDefinition(d) \/ DisableDefinition(d) PROVE SameContents
  BY <1>1 DEF DeleteDefinition, DisableDefinition, LiveDef, Rows, PdTypeOK, DefRow, SameContents, Exists
<1>2. ASSUME NEW s \in PdServers, NEW d \in Definitions, PublishStatus(s, d) PROVE SameContents
  BY <1>2 DEF PublishStatus, PdTypeOK, DefRow, SameContents, Exists
<1>3. ASSUME NEW s \in PdServers, PublishLookup(s) \/ PublishJob(s) \/ PdRestart(s) PROVE SameContents
  BY <1>3 DEF PublishLookup, PublishJob, PdRestart, SameContents, Exists
<1>4. ASSUME NEW s \in PdServers, NEW d, NEW c, UpdateRead(s, d, c) PROVE SameContents
  BY <1>4 DEF UpdateRead, SameContents, Exists
<1>5. ASSUME NEW s \in PdServers, NEW v, RollbackRead(s, v) PROVE SameContents
  BY <1>5 DEF RollbackRead, SameContents, Exists
<1>6. ASSUME NEW j \in JobRow, UserActions(j) PROVE SameContents
  BY <1>6 DEF UserActions, UserCreatesJob, UserDeletesJob, UserMovesJob, SameContents, Exists
<1>7. CASE UNCHANGED pdVars
  BY <1>7 DEF pdVars, SameContents, Exists
<1>. QED
  BY <1>1, <1>2, <1>3, <1>4, <1>5, <1>6, <1>7 DEF PdNext, DefinitionActions, PdServerActions

LEMMA NextNumbered ==
    PdTypeOK /\ PdTypeOK' /\ ReadsExist /\ Numbered /\ [PdNext]_pdVars => Numbered'
<1>. SUFFICES ASSUME PdTypeOK, PdTypeOK', ReadsExist, Numbered, [PdNext]_pdVars PROVE Numbered'
  OBVIOUS
<1>0. \A v \in committed : v.of \in Definitions /\ v.version \in Nat
  BY DEF PdTypeOK, VersionRow, Versions
<1>1. ASSUME NEW d \in Definitions, NEW c \in Contents, CreateDefinition(d, c) PROVE Numbered'
  <2> DEFINE n == [of |-> d, version |-> 1, content |-> c]
  <2>1. /\ committed' = committed \cup {n} /\ UNCHANGED <<versions, preq, rolled>>
        /\ ~Exists(d) /\ Exists(d)' /\ Current(d)' = n
        /\ \A e \in Definitions \ {d} : pdef'[e] = pdef[e]
        /\ pdef'[d].version = 1
    BY <1>1 DEF CreateDefinition, Rows, PdTypeOK, Exists, Current
  <2>2. n.of = d /\ n.version = 1
    OBVIOUS
  <2>3. \A v \in committed : v.of # d
    BY <2>1 DEF Numbered
  <2>4. \A e \in Definitions \ {d} : Current(e)' = Current(e) /\ (Exists(e)' <=> Exists(e))
    BY <2>1 DEF Current, Exists
  <2> HIDE DEF n
  <2>. QED
    BY <1>0, <2>1, <2>2, <2>3, <2>4 DEF Numbered
<1>2. ASSUME NEW s \in PdServers, UpdateWrite(s) PROVE Numbered'
  <2>1. PICK d \in Definitions : d = preq[s].read.of
    BY <1>2, RequestKinds DEF UpdateWrite, PdTypeOK, VersionRow
  <2> DEFINE n == [of |-> d, version |-> pdef[d].version + 1, content |-> preq[s].content]
  <2>2. /\ committed' = committed \cup {n} /\ rolled' = rolled
        /\ versions' = versions \cup {preq[s].read}
        /\ preq' = [preq EXCEPT ![s] = PdIdle]
        /\ preq[s].pc = "update"
    BY <1>2, <2>1 DEF UpdateWrite, Snapshot, NextVersion
  <2>3. /\ Current(d)' = n /\ pdef'[d].version = pdef[d].version + 1
        /\ Exists(d)' <=> Exists(d)
        /\ \A e \in Definitions \ {d} : pdef'[e] = pdef[e]
    <3>1. pdef[d] \in DefRow /\ pdef' = [pdef EXCEPT ![d] =
              [pdef[d] EXCEPT !.version = pdef[d].version + 1, !.content = preq[s].content]]
      BY <1>2, <2>1 DEF UpdateWrite, NextVersion, PdTypeOK
    <3>2. /\ pdef'[d].version = pdef[d].version + 1 /\ pdef'[d].content = preq[s].content
          /\ pdef'[d].state = pdef[d].state
          /\ \A e \in Definitions \ {d} : pdef'[e] = pdef[e]
      BY <3>1 DEF PdTypeOK, DefRow
    <3>3. Current(d)' = n
      BY <3>2 DEF Current
    <3>. QED
      BY <3>2, <3>3 DEF Exists
  <2>4. n.of = d /\ n.version = pdef[d].version + 1 /\ pdef[d].version \in Nat
    BY DEF PdTypeOK, DefRow, Versions
  <2>5. Exists(d) /\ preq[s].read \in committed
    BY <2>1, <2>2 DEF ReadsExist, Numbered
  <2>6. \A v \in PdServers : preq'[v].pc \in {"update", "rollback"} => preq'[v] = preq[v]
    BY <2>2, Requests DEF PdTypeOK
  <2>7. \A e \in Definitions \ {d} : Current(e)' = Current(e) /\ (Exists(e)' <=> Exists(e))
    BY <2>3 DEF Current, Exists
  <2> HIDE DEF n
  <2>8. \A v \in committed : v.of = d /\ d \notin rolled => v.version < n.version
    BY <1>0, <2>4 DEF Numbered
  <2>. QED
    BY <1>0, <2>2, <2>3, <2>4, <2>5, <2>6, <2>7, <2>8 DEF Numbered
<1>3. ASSUME NEW s \in PdServers, RollbackWrite(s) PROVE Numbered'
  <2>1. PICK v \in committed : v = preq[s].read
    BY <1>3 DEF RollbackWrite, Numbered
  <2>2. /\ committed' = committed /\ rolled' = rolled \cup {v.of} /\ versions' = versions
        /\ preq' = [preq EXCEPT ![s] = PdIdle]
    BY <1>3, <2>1 DEF RollbackWrite
  <2>3. v \in VersionRow /\ v.of \in Definitions
    BY DEF PdTypeOK, VersionRow
  <2>4. /\ Current(v.of)' = v
        /\ Exists(v.of)' <=> Exists(v.of)
        /\ \A e \in Definitions \ {v.of} : pdef'[e] = pdef[e]
    <3>1. pdef[v.of] \in DefRow /\ pdef' = [pdef EXCEPT ![v.of] =
              [pdef[v.of] EXCEPT !.version = v.version, !.content = v.content]]
      BY <1>3, <2>1, <2>3 DEF RollbackWrite, PdTypeOK
    <3>2. /\ pdef'[v.of].version = v.version /\ pdef'[v.of].content = v.content
          /\ pdef'[v.of].state = pdef[v.of].state
          /\ \A e \in Definitions \ {v.of} : pdef'[e] = pdef[e]
      BY <2>3, <3>1 DEF PdTypeOK, DefRow
    <3>3. Current(v.of)' = v
      BY <2>3, <3>2 DEF Current, VersionRow
    <3>. QED
      BY <3>2, <3>3 DEF Exists
  <2>5. \A e \in Definitions \ {v.of} : Current(e)' = Current(e) /\ (Exists(e)' <=> Exists(e))
    BY <2>4 DEF Current, Exists
  <2>6. \A u \in PdServers : preq'[u].pc \in {"update", "rollback"} => preq'[u] = preq[u]
    BY <2>2, Requests DEF PdTypeOK
  <2>. QED
    BY <1>0, <2>1, <2>2, <2>4, <2>5, <2>6 DEF Numbered
<1>4. CASE SameContents
  <2>1. ASSUME NEW s \in PdServers, preq'[s].pc \in {"update", "rollback"}
        PROVE  preq'[s].read \in committed
    <3>1. CASE preq'[s] = preq[s]
      BY <2>1, <3>1 DEF Numbered
    <3>2. ASSUME NEW d \in Definitions, NEW c \in Contents, UpdateRead(s, d, c) PROVE preq'[s].read \in committed
      BY <3>2 DEF UpdateRead, PdTypeOK, Numbered, LiveDef, Exists
    <3>3. ASSUME NEW v \in versions, RollbackRead(s, v) PROVE preq'[s].read \in committed
      BY <3>3 DEF RollbackRead, PdTypeOK, Numbered
    <3>4. ASSUME preq'[s] # preq[s]
          PROVE  \/ \E d \in Definitions, c \in Contents : UpdateRead(s, d, c)
                 \/ \E v \in versions : RollbackRead(s, v)
      <4>1. \A u \in PdServers, d \in Definitions : PublishStatus(u, d) => preq'[u].pc = "publish" /\ \A v \in PdServers \ {u} : preq'[v] = preq[v]
        BY DEF PublishStatus, PdTypeOK
      <4>2. \A u \in PdServers : PublishLookup(u) => preq'[u].pc = "job" /\ \A v \in PdServers \ {u} : preq'[v] = preq[v]
        BY DEF PublishLookup, PdTypeOK
      <4>3. \A u \in PdServers : UpdateWrite(u) \/ RollbackWrite(u) \/ PublishJob(u) \/ PdRestart(u) =>
                preq'[u].pc = "idle" /\ \A v \in PdServers \ {u} : preq'[v] = preq[v]
        BY Requests DEF UpdateWrite, RollbackWrite, PublishJob, PdRestart, PdTypeOK
      <4>4. \A u \in PdServers, d \in Definitions, c \in Contents : UpdateRead(u, d, c) => \A v \in PdServers \ {u} : preq'[v] = preq[v]
        BY DEF UpdateRead, PdTypeOK
      <4>5. \A u \in PdServers, v \in versions : RollbackRead(u, v) => \A w \in PdServers \ {u} : preq'[w] = preq[w]
        BY DEF RollbackRead, PdTypeOK
      <4>6. \A d \in Definitions : DefinitionActions(d) => preq' = preq
        BY DEF DefinitionActions, CreateDefinition, DeleteDefinition, DisableDefinition, Rows
      <4>7. \A j \in JobRow : UserActions(j) => preq' = preq
        BY DEF UserActions, UserCreatesJob, UserDeletesJob, UserMovesJob
      <4>8. UNCHANGED pdVars => preq' = preq
        BY DEF pdVars
      <4>. QED
        BY <2>1, <3>4, <4>1, <4>2, <4>3, <4>4, <4>5, <4>6, <4>7, <4>8 DEF PdNext, PdServerActions
    <3>. QED
      BY <3>1, <3>2, <3>3, <3>4
  <2>. QED
    BY <1>4, <2>1, SameContentsNumbered
<1>. QED
  BY <1>1, <1>2, <1>3, <1>4, QuietSteps

LEMMA NumberedAlways == PdSpec => []Numbered
<1>1. PdInit => Numbered
  BY DEF PdInit, Numbered, Exists, PdIdle
<1>. QED
  BY <1>1, NextNumbered, ReadsAlways, PTL DEF PdSpec

(* A version number names one content, whatever updates overlap; only a    *)
(* rollback gives a number out again.                                      *)
THEOREM NumbersNameContents == PdSpec => []VersionNamesContent
<1>1. Numbered => VersionNamesContent
  BY DEF Numbered, VersionNamesContent
<1>. QED
  BY <1>1, NumberedAlways, PTL

-----------------------------------------------------------------------------
(* History.                                                                *)

LEMMA NextHistory ==
    PdTypeOK /\ ReadsExist /\ Numbered /\ HistoryKept /\ [PdNext]_pdVars => HistoryKept'
<1>. SUFFICES ASSUME PdTypeOK, ReadsExist, Numbered, HistoryKept, [PdNext]_pdVars PROVE HistoryKept'
  OBVIOUS
<1>0. \A v \in committed : v.of \in Definitions
  BY DEF PdTypeOK, VersionRow
<1>1. ASSUME NEW d \in Definitions, NEW c \in Contents, CreateDefinition(d, c) PROVE HistoryKept'
  <2> DEFINE n == [of |-> d, version |-> 1, content |-> c]
  <2>1. /\ committed' = committed \cup {n} /\ UNCHANGED <<versions, rolled, skipped>>
        /\ ~Exists(d) /\ Current(d)' = n
        /\ \A e \in Definitions \ {d} : pdef'[e] = pdef[e]
    BY <1>1 DEF CreateDefinition, Rows, PdTypeOK, Exists, Current
  <2>2. n.of = d
    OBVIOUS
  <2>3. \A v \in committed : v.of # d
    BY <2>1 DEF Numbered
  <2>4. \A e \in Definitions \ {d} : Current(e)' = Current(e)
    BY <2>1 DEF Current
  <2> HIDE DEF n
  <2>. QED
    BY <1>0, <2>1, <2>2, <2>3, <2>4 DEF HistoryKept
<1>2. ASSUME NEW s \in PdServers, UpdateWrite(s) PROVE HistoryKept'
  <2>1. PICK d \in Definitions : d = preq[s].read.of
    BY <1>2, RequestKinds DEF UpdateWrite, PdTypeOK, VersionRow
  <2> DEFINE n == [of |-> d, version |-> pdef[d].version + 1, content |-> preq[s].content]
  <2>2. /\ committed' = committed \cup {n} /\ rolled' = rolled
        /\ versions' = versions \cup {preq[s].read}
        /\ skipped' = IF Current(d) = preq[s].read THEN skipped ELSE skipped \cup {d}
    BY <1>2, <2>1 DEF UpdateWrite, Snapshot, NextVersion
  <2>3. /\ pdef'[d].version = n.version /\ pdef'[d].content = n.content
        /\ \A e \in Definitions \ {d} : pdef'[e] = pdef[e]
    BY <1>2, <2>1 DEF UpdateWrite, NextVersion, PdTypeOK, DefRow
  <2>4. Current(d)' = n /\ n.of = d
    BY <2>3 DEF Current
  <2>5. \A e \in Definitions \ {d} : Current(e)' = Current(e)
    BY <2>3 DEF Current
  <2> HIDE DEF n
  <2>. QED
    BY <1>0, <2>2, <2>4, <2>5 DEF HistoryKept
<1>3. ASSUME NEW s \in PdServers, RollbackWrite(s) PROVE HistoryKept'
  <2>1. PICK v \in committed : v = preq[s].read
    BY <1>3 DEF RollbackWrite, Numbered
  <2>2. /\ committed' = committed /\ rolled' = rolled \cup {v.of}
        /\ UNCHANGED <<versions, skipped>>
        /\ \A e \in Definitions \ {v.of} : pdef'[e] = pdef[e]
    BY <1>3, <2>1 DEF RollbackWrite, PdTypeOK
  <2>3. \A e \in Definitions \ {v.of} : Current(e)' = Current(e)
    BY <2>2 DEF Current
  <2>. QED
    BY <1>0, <2>2, <2>3 DEF HistoryKept
<1>4. CASE SameContents
  <2>1. \A d \in Definitions : Current(d)' = Current(d)
    BY <1>4 DEF SameContents, Current
  <2>. QED
    BY <1>0, <1>4, <2>1 DEF SameContents, HistoryKept
<1>. QED
  BY <1>1, <1>2, <1>3, <1>4, QuietSteps

(* What a definition has ever been is its row or one of its versions,      *)
(* until it is rolled back or updated twice at the same time.              *)
THEOREM NothingForgotten == PdSpec => []HistoryKept
<1>1. PdInit => HistoryKept
  BY DEF PdInit, HistoryKept
<1>. QED
  BY <1>1, NextHistory, ReadsAlways, NumberedAlways, PTL DEF PdSpec

-----------------------------------------------------------------------------
(* The history is a log.                                                   *)

(* A step that changes what one definition is.                             *)
OthersStay(d) ==
    \A e \in Definitions \ {d} : Current(e)' = Current(e) /\ (Exists(e)' <=> Exists(e))

LEMMA HeadMoves ==
    ASSUME PdTypeOK, NEW d \in Definitions, OthersStay(d), Exists(d)', NEW n, Current(d)' = n
    PROVE  /\ Exists(d) => Current(d) \in Heads /\ Heads' = (Heads \ {Current(d)}) \cup {n}
           /\ ~Exists(d) => Heads' = Heads \cup {n}
<1>1. Heads' = {Current(e)' : e \in {f \in Definitions : Exists(f)'}}
  BY DEF Heads
<1>2. \A e \in Definitions : Current(e).of = e
  BY DEF Current
<1> DEFINE rest == {Current(e) : e \in {f \in Definitions \ {d} : Exists(f)}}
<1>3. Heads' = rest \cup {n}
  BY <1>1 DEF OthersStay
<1>4. Exists(d) => Heads = rest \cup {Current(d)} /\ Current(d) \notin rest
  BY <1>2 DEF Heads
<1>5. ~Exists(d) => Heads = rest
  BY DEF Heads
<1>. HIDE DEF rest
<1>. QED
  BY <1>3, <1>4, <1>5 DEF Heads

LEMMA LogNumbers ==
    ASSUME PdTypeOK, Numbered, NEW d \in Definitions
    PROVE  /\ versions \cup Heads \subseteq committed
           /\ ~Exists(d) => \A x \in versions \cup Heads : x.of # d
           /\ History!Newest(Current(d))
<1>1. versions \cup Heads \subseteq committed
  BY DEF Numbered, Heads
<1>2. Current(d).of = d /\ Current(d).version = pdef[d].version
  BY DEF Current
<1>. QED
  BY <1>1, <1>2 DEF Numbered, History!Newest

LEMMA CreateLogs ==
    ASSUME PdTypeOK, Numbered, NEW d \in Definitions, NEW c \in Contents, CreateDefinition(d, c)
    PROVE  History!Next
<1> DEFINE n == [of |-> d, version |-> 1, content |-> c]
<1>1. /\ UNCHANGED <<versions, rolled, skipped>>
      /\ ~Exists(d) /\ Exists(d)' /\ Current(d)' = n
      /\ \A e \in Definitions \ {d} : pdef'[e] = pdef[e]
  BY DEF CreateDefinition, Rows, PdTypeOK, Exists, Current
<1>2. OthersStay(d)
  BY <1>1 DEF OthersStay, Current, Exists
<1>. HIDE DEF n
<1>3. Heads' = Heads \cup {n}
  BY <1>1, <1>2, HeadMoves
<1>4. \A x \in versions \cup Heads : x.of # d
  BY <1>1, LogNumbers
<1>5. History!First(d, c)
  BY <1>1, <1>3, <1>4 DEF History!First, n
<1>. QED
  BY <1>5 DEF History!Next

LEMMA UpdateLogs ==
    ASSUME PdTypeOK, PdTypeOK', ReadsExist, Numbered, NEW s \in PdServers, UpdateWrite(s)
    PROVE  History!Next
<1>0. preq[s].pc = "update" /\ preq[s].read \in VersionRow /\ preq[s].content \in Contents
  BY RequestKinds DEF UpdateWrite, PdTypeOK
<1>1. PICK d \in Definitions : d = preq[s].read.of
  BY <1>0 DEF VersionRow
<1>2. PICK r : r = preq[s].read
  OBVIOUS
<1>3. PICK h : h = Current(d)
  OBVIOUS
<1>4. PICK n : n = History!After(h, preq[s].content)
  OBVIOUS
<1>5. /\ versions' = versions \cup {r} /\ rolled' = rolled
      /\ skipped' = IF h = r THEN skipped ELSE skipped \cup {d}
  BY <1>1, <1>2, <1>3 DEF UpdateWrite, Snapshot
<1>6. /\ pdef'[d].version = pdef[d].version + 1 /\ pdef'[d].content = preq[s].content
      /\ pdef'[d].state = pdef[d].state
      /\ \A e \in Definitions \ {d} : pdef'[e] = pdef[e]
  <2>1. pdef[d] \in DefRow /\ pdef' = [pdef EXCEPT ![d] =
            [pdef[d] EXCEPT !.version = pdef[d].version + 1, !.content = preq[s].content]]
    BY <1>1 DEF UpdateWrite, NextVersion, PdTypeOK
  <2>. QED
    BY <2>1 DEF PdTypeOK, DefRow
<1>7. h.of = d /\ h.version = pdef[d].version /\ n.version = h.version + 1 /\ n.of = d
  BY <1>3, <1>4 DEF Current, History!After
<1>8. Current(d)' = n
  BY <1>3, <1>4, <1>6 DEF Current, History!After
<1>9. OthersStay(d) /\ Exists(d) /\ Exists(d)'
  BY <1>0, <1>1, <1>6 DEF OthersStay, Current, Exists, ReadsExist
<1>10. h \in Heads /\ Heads' = (Heads \ {h}) \cup {n}
  BY <1>3, <1>8, <1>9, HeadMoves
<1>11. History!Newest(h) /\ History!Moves(h, n)
  BY <1>3, <1>10, LogNumbers DEF History!Moves
<1>12. CASE h = r
  <2>1. versions' \cup Heads' = (versions \cup Heads) \cup {n}
    BY <1>5, <1>10, <1>12
  <2>2. History!Append(h, preq[s].content)
    BY <1>4, <1>5, <1>11, <1>12, <2>1 DEF History!Append
  <2>. QED
    BY <1>0, <1>10, <2>2 DEF History!Next
<1>13. CASE h # r
  <2>1. r.of = d /\ (d \notin rolled => r.version <= h.version)
    BY <1>0, <1>1, <1>2, <1>7 DEF Numbered
  <2>2. \A x \in (versions' \cup Heads') \ ((versions \cup Heads) \cup {n}) : x = r
    BY <1>5, <1>10
  <2>3. n \in versions' \cup Heads' /\ (versions \cup Heads) \ {h} \subseteq versions' \cup Heads'
    BY <1>5, <1>10
  <2>4. History!AppendOvertaken(h, preq[s].content)
    BY <1>4, <1>5, <1>7, <1>11, <1>13, <2>1, <2>2, <2>3 DEF History!AppendOvertaken
  <2>. QED
    BY <1>0, <1>10, <2>4 DEF History!Next
<1>. QED
  BY <1>12, <1>13

(* A version row stays, so a rollback is to an entry of the log.           *)
ReadsStored == \A s \in PdServers : preq[s].pc = "rollback" => preq[s].read \in versions

LEMMA RollbackLogs ==
    ASSUME PdTypeOK, ReadsExist, ReadsStored, NEW s \in PdServers, RollbackWrite(s)
    PROVE  History!Next
<1>1. PICK v \in versions : v = preq[s].read
  BY DEF RollbackWrite, ReadsStored
<1>2. v \in VersionRow /\ v.of \in Definitions
  BY DEF PdTypeOK, VersionRow
<1>3. UNCHANGED <<versions, skipped>> /\ rolled' = rolled \cup {v.of}
  BY <1>1 DEF RollbackWrite
<1>4. /\ pdef'[v.of].version = v.version /\ pdef'[v.of].content = v.content
      /\ pdef'[v.of].state = pdef[v.of].state
      /\ \A e \in Definitions \ {v.of} : pdef'[e] = pdef[e]
  <2>1. pdef[v.of] \in DefRow /\ pdef' = [pdef EXCEPT ![v.of] =
            [pdef[v.of] EXCEPT !.version = v.version, !.content = v.content]]
    BY <1>1, <1>2 DEF RollbackWrite, PdTypeOK
  <2>. QED
    BY <1>2, <2>1 DEF PdTypeOK, DefRow
<1>5. Current(v.of)' = v
  BY <1>2, <1>4 DEF Current, VersionRow
<1>6. OthersStay(v.of) /\ Exists(v.of) /\ Exists(v.of)'
  BY <1>4 DEF OthersStay, Current, Exists, PdTypeOK
<1>7. PICK h : h = Current(v.of)
  OBVIOUS
<1>8. h \in Heads /\ Heads' = (Heads \ {h}) \cup {v} /\ h.of = v.of
  BY <1>2, <1>5, <1>6, <1>7, HeadMoves DEF Current
<1>9. History!Revert(h, v)
  BY <1>3, <1>8 DEF History!Revert, History!Moves
<1>. QED
  BY <1>8, <1>9 DEF History!Next

LEMMA NextStored == PdTypeOK /\ ReadsStored /\ [PdNext]_pdVars => ReadsStored'
<1>. SUFFICES ASSUME PdTypeOK, ReadsStored, [PdNext]_pdVars PROVE ReadsStored'
  OBVIOUS
<1>1. ASSUME NEW s \in PdServers, PdServerActions(s) PROVE ReadsStored'
  <2>1. versions \subseteq versions'
    BY <1>1 DEF PdServerActions, UpdateRead, UpdateWrite, RollbackRead, RollbackWrite, PublishStatus,
       PublishLookup, PublishJob, PdRestart
  <2>2. \A v \in PdServers \ {s} : preq'[v] = preq[v]
    BY <1>1 DEF PdServerActions, UpdateRead, UpdateWrite, RollbackRead, RollbackWrite, PublishStatus,
       PublishLookup, PublishJob, PdRestart, PdTypeOK
  <2>3. preq'[s].pc = "rollback" => preq'[s].read \in versions
    <3>1. ASSUME NEW v \in versions, RollbackRead(s, v) PROVE preq'[s].read \in versions
      BY <3>1 DEF RollbackRead, PdTypeOK
    <3>2. UpdateWrite(s) \/ RollbackWrite(s) \/ PublishJob(s) \/ PdRestart(s) => preq'[s].pc = "idle"
      BY Requests DEF UpdateWrite, RollbackWrite, PublishJob, PdRestart, PdTypeOK
    <3>3. PublishLookup(s) => preq'[s].pc = "job"
      BY DEF PublishLookup, PdTypeOK
    <3>4. ASSUME NEW d \in Definitions, PublishStatus(s, d) PROVE preq'[s].pc = "publish"
      BY <3>4 DEF PublishStatus, PdTypeOK
    <3>5. ASSUME NEW d \in Definitions, NEW c \in Contents, UpdateRead(s, d, c) PROVE preq'[s].pc = "update"
      BY <3>5 DEF UpdateRead, PdTypeOK
    <3>. QED
      BY <1>1, <3>1, <3>2, <3>3, <3>4, <3>5 DEF PdServerActions
  <2>. QED
    BY <2>1, <2>2, <2>3 DEF ReadsStored
<1>2. ASSUME NEW d \in Definitions, DefinitionActions(d) PROVE ReadsStored'
  BY <1>2 DEF DefinitionActions, CreateDefinition, DeleteDefinition, DisableDefinition, Rows, ReadsStored
<1>3. ASSUME NEW j \in JobRow, UserActions(j) PROVE ReadsStored'
  BY <1>3 DEF UserActions, UserCreatesJob, UserDeletesJob, UserMovesJob, ReadsStored
<1>4. CASE UNCHANGED pdVars
  BY <1>4 DEF pdVars, ReadsStored
<1>. QED
  BY <1>1, <1>2, <1>3, <1>4 DEF PdNext

(* Every step of the servers is a step of the log or changes nothing of it.*)
LEMMA StepLogs ==
    PdTypeOK /\ PdTypeOK' /\ ReadsExist /\ ReadsStored /\ Numbered /\ [PdNext]_pdVars
        => [History!Next]_History!vars
<1>. SUFFICES ASSUME PdTypeOK, PdTypeOK', ReadsExist, ReadsStored, Numbered, [PdNext]_pdVars
              PROVE  History!Next \/ UNCHANGED History!vars
  OBVIOUS
<1>1. ASSUME SameContents PROVE UNCHANGED History!vars
  <2>1. \A d \in Definitions : Current(d)' = Current(d) /\ (Exists(d)' <=> Exists(d))
    BY <1>1 DEF SameContents, Current
  <2>2. Heads' = {Current(d)' : d \in {e \in Definitions : Exists(e)'}}
    BY DEF Heads
  <2>3. Heads' = Heads
    BY <2>1, <2>2 DEF Heads
  <2>. QED
    BY <1>1, <2>3 DEF SameContents, History!vars
<1>. QED
  BY <1>1, QuietSteps, CreateLogs, UpdateLogs, RollbackLogs

(* The definitions and their version rows are a log: whatever requests of  *)
(* several servers interleave, an update gets the number after the one it  *)
(* replaces and drops at most that entry, and only if others overtook it.  *)
THEOREM DefinitionsKeepALog == PdSpec => KeepsALog
<1>1. PdInit => History!Init /\ ReadsStored
  BY DEF PdInit, History!Init, Heads, Exists, ReadsStored, PdIdle
<1>. QED
  BY <1>1, StepLogs, NextStored, ReadsAlways, NumberedAlways, PTL DEF PdSpec, KeepsALog, History!Spec

-----------------------------------------------------------------------------
(* Jobs of published definitions.                                          *)

(* A publish that has found a job still has it, unless the job was deleted *)
(* in between.                                                             *)
FoundRemains ==
    \A s \in PdServers : preq[s].pc = "job" /\ preq[s].job # 0 =>
        preq[s].of \in orphaned \/ JobsOf(preq[s].of) # {}

(* Steps that leave jobs, their publishes and the published states alone.  *)
SamePublishes ==
    /\ UNCHANGED <<pjobs, orphaned>>
    /\ \A d \in Definitions : pdef'[d].status = "published" => pdef[d].status = "published"
    /\ \A s \in PdServers :
          preq'[s] = preq[s] \/ (preq[s].pc \notin {"publish", "job"} /\ preq'[s].pc \notin {"publish", "job"})

LEMMA SamePublishesKept ==
    ASSUME PdTypeOK, FoundRemains, PublishedHasJob, SamePublishes
    PROVE  FoundRemains' /\ PublishedHasJob'
<1>1. \A d : JobsOf(d)' = JobsOf(d)
  BY DEF SamePublishes, JobsOf
<1>2. \A d : Publishing(d)' = Publishing(d)
  BY DEF SamePublishes, Publishing
<1>. QED
  BY <1>1, <1>2 DEF SamePublishes, FoundRemains, PublishedHasJob

LEMMA NextPublished ==
    PdTypeOK /\ FoundRemains /\ PublishedHasJob /\ [PdNext]_pdVars => FoundRemains' /\ PublishedHasJob'
<1>. SUFFICES ASSUME PdTypeOK, FoundRemains, PublishedHasJob, [PdNext]_pdVars
              PROVE  FoundRemains' /\ PublishedHasJob'
  OBVIOUS
<1>0. \A s \in PdServers : preq[s].pc \in {"publish", "job"} => preq[s].of \in Definitions
  BY RequestKinds DEF PdTypeOK
<1>1. ASSUME NEW d \in Definitions, DefinitionActions(d) PROVE SamePublishes
  <2>1. UNCHANGED <<pjobs, orphaned, preq>>
    BY <1>1 DEF DefinitionActions, CreateDefinition, DeleteDefinition, DisableDefinition, Rows
  <2>2. \A e \in Definitions : pdef'[e].status = "published" => pdef[e].status = "published"
    BY <1>1 DEF DefinitionActions, CreateDefinition, DeleteDefinition, DisableDefinition, PdTypeOK, DefRow
  <2>. QED
    BY <2>1, <2>2 DEF SamePublishes
<1>2. ASSUME NEW s \in PdServers,
             \/ \E d \in Definitions, c \in Contents : UpdateRead(s, d, c)
             \/ \E v \in versions : RollbackRead(s, v)
      PROVE  SamePublishes
  BY <1>2 DEF UpdateRead, RollbackRead, AtIdle, PdTypeOK, SamePublishes
<1>3. ASSUME NEW s \in PdServers, UpdateWrite(s) PROVE SamePublishes
  <2>1. \A e \in Definitions : pdef'[e].status = pdef[e].status
    BY <1>3, RequestKinds DEF UpdateWrite, PdTypeOK, DefRow, VersionRow
  <2>. QED
    BY <1>3, <2>1, Requests DEF UpdateWrite, PdTypeOK, SamePublishes
<1>4. ASSUME NEW s \in PdServers, RollbackWrite(s) PROVE SamePublishes
  <2>1. \A e \in Definitions : pdef'[e].status = pdef[e].status
    BY <1>4, RequestKinds DEF RollbackWrite, PdTypeOK, DefRow, VersionRow
  <2>. QED
    BY <1>4, <2>1, Requests DEF RollbackWrite, PdTypeOK, SamePublishes
<1>5. ASSUME NEW s \in PdServers, NEW d \in Definitions, PublishStatus(s, d)
      PROVE  FoundRemains' /\ PublishedHasJob'
  <2>1. /\ preq'[s].pc = "publish" /\ preq'[s].of = d
        /\ \A v \in PdServers \ {s} : preq'[v] = preq[v]
        /\ UNCHANGED <<pjobs, orphaned>>
        /\ \A e \in Definitions \ {d} : pdef'[e] = pdef[e]
    BY <1>5 DEF PublishStatus, PdTypeOK
  <2>2. s \in Publishing(d)' /\ \A e \in Definitions \ {d} : Publishing(e) \subseteq Publishing(e)'
    BY <1>5, <2>1 DEF Publishing, PublishStatus, AtIdle
  <2>3. \A e : JobsOf(e)' = JobsOf(e)
    BY <2>1 DEF JobsOf
  <2>. QED
    BY <2>1, <2>2, <2>3 DEF FoundRemains, PublishedHasJob
<1>6. ASSUME NEW s \in PdServers, PublishLookup(s) PROVE FoundRemains' /\ PublishedHasJob'
  <2> DEFINE d == preq[s].of
  <2>1. PICK j \in IF Found(d) = {} THEN {0} ELSE Found(d) :
            preq' = [preq EXCEPT ![s] = [pc |-> "job", of |-> d, job |-> j]]
    BY <1>6 DEF PublishLookup
  <2>2. /\ preq'[s].pc = "job" /\ preq'[s].of = d /\ preq'[s].job = j
        /\ \A v \in PdServers \ {s} : preq'[v] = preq[v]
        /\ UNCHANGED <<pjobs, orphaned, pdef>>
    BY <1>6, <2>1 DEF PublishLookup, PdTypeOK
  <2>3. j # 0 => JobsOf(d) # {}
    BY <2>1 DEF Found
  <2>4. \A e : Publishing(e)' = Publishing(e) /\ JobsOf(e)' = JobsOf(e)
    BY <1>6, <2>2 DEF PublishLookup, Publishing, JobsOf
  <2>. QED
    BY <2>2, <2>3, <2>4 DEF FoundRemains, PublishedHasJob
<1>7. ASSUME NEW s \in PdServers, PublishJob(s) PROVE FoundRemains' /\ PublishedHasJob'
  <2>1. PICK d \in Definitions : d = preq[s].of
    BY <1>0, <1>7 DEF PublishJob
  <2>2. /\ preq'[s].pc = "idle" /\ \A v \in PdServers \ {s} : preq'[v] = preq[v]
        /\ pdef' = pdef /\ pjobs \subseteq pjobs'
        /\ orphaned' = IF JobsOf(d)' # {} THEN orphaned \ {d} ELSE orphaned
    BY <1>7, <2>1, Requests DEF PublishJob, PdTypeOK, JobsOf
  <2>3. d \in orphaned \/ JobsOf(d)' # {}
    <3>1. CASE preq[s].job = 0
      <4>1. PICK j \in PdJobs : pjobs' = pjobs \cup {[id |-> j, of |-> d]}
        BY <1>7, <2>1, <3>1 DEF PublishJob, Makes
      <4>2. [id |-> j, of |-> d] \in JobsOf(d)'
        BY <4>1 DEF JobsOf
      <4>. QED
        BY <4>2
    <3>2. CASE preq[s].job # 0
      BY <1>7, <2>1, <2>2, <3>2 DEF PublishJob, FoundRemains, JobsOf
    <3>. QED
      BY <3>1, <3>2
  <2>4. \A e : JobsOf(e) \subseteq JobsOf(e)'
    BY <2>2 DEF JobsOf
  <2>5. \A e \in Definitions \ {d} : Publishing(e)' = Publishing(e)
    BY <1>7, <2>1, <2>2 DEF Publishing, PublishJob
  <2>. QED
    BY <1>0, <2>2, <2>3, <2>4, <2>5 DEF FoundRemains, PublishedHasJob
<1>8. ASSUME NEW i \in JobRow, UserCreatesJob(i) PROVE FoundRemains' /\ PublishedHasJob'
  <2>1. pjobs \subseteq pjobs' /\ UNCHANGED <<pdef, preq, orphaned>>
    BY <1>8 DEF UserCreatesJob
  <2>2. \A e : JobsOf(e) \subseteq JobsOf(e)' /\ Publishing(e)' = Publishing(e)
    BY <2>1 DEF JobsOf, Publishing
  <2>. QED
    BY <2>1, <2>2 DEF FoundRemains, PublishedHasJob
<1>9. ASSUME NEW i \in JobRow, pjobs \ {i} \subseteq pjobs', UNCHANGED <<pdef, preq>>,
             orphaned' = orphaned \cup Orphans(i)
      PROVE  FoundRemains' /\ PublishedHasJob'
  <2>1. \A e : Publishing(e)' = Publishing(e) /\ JobsOf(e) \ {i} \subseteq JobsOf(e)'
    BY <1>9 DEF JobsOf, Publishing
  <2>2. \A e \in Definitions : JobsOf(e) # {} => e \in orphaned' \/ JobsOf(e)' # {}
    BY <1>9, <2>1 DEF Orphans
  <2>. QED
    BY <1>0, <1>9, <2>1, <2>2 DEF FoundRemains, PublishedHasJob
<1>9a. ASSUME NEW i \in JobRow, UserDeletesJob(i) \/ \E of \in Definitions \cup {"nothing"} : UserMovesJob(i, of)
       PROVE  FoundRemains' /\ PublishedHasJob'
  BY <1>9, <1>9a DEF UserDeletesJob, UserMovesJob
<1>10. ASSUME NEW s \in PdServers, PdRestart(s) PROVE FoundRemains' /\ PublishedHasJob'
  <2>1. /\ preq'[s].pc = "idle" /\ \A v \in PdServers \ {s} : preq'[v] = preq[v]
        /\ UNCHANGED <<pdef, pjobs>> /\ orphaned \subseteq orphaned'
    BY <1>10, Requests DEF PdRestart, PdTypeOK
  <2>2. \A e : JobsOf(e)' = JobsOf(e)
    BY <2>1 DEF JobsOf
  <2>3. preq[s].pc \in {"publish", "job"} => preq[s].of \in orphaned' \/ JobsOf(preq[s].of) # {}
    BY <1>10 DEF PdRestart
  <2>4. \A e \in Definitions : (preq[s].pc \notin {"publish", "job"} \/ preq[s].of # e) =>
            Publishing(e) \subseteq Publishing(e)'
    BY <2>1 DEF Publishing
  <2>. QED
    BY <2>1, <2>2, <2>3, <2>4 DEF FoundRemains, PublishedHasJob
<1>11. CASE UNCHANGED pdVars
  BY <1>11 DEF pdVars, FoundRemains, PublishedHasJob, JobsOf, Publishing
<1>. QED
  BY <1>1, <1>2, <1>3, <1>4, <1>5, <1>6, <1>7, <1>8, <1>9a, <1>10, <1>11, SamePublishesKept
     DEF PdNext, PdServerActions, UserActions

(* A published definition has a job, however its publishes, other people's *)
(* jobs and restarts interleave, unless the job was deleted or moved by a  *)
(* user, or the server ended before it made one.                           *)
THEOREM PublishingLeavesAJob == PdSpec => []PublishedHasJob
<1>1. PdInit => FoundRemains /\ PublishedHasJob
  BY DEF PdInit, FoundRemains, PublishedHasJob, PdIdle
<1>. QED
  BY <1>1, NextPublished, ReadsAlways, PTL DEF PdSpec

-----------------------------------------------------------------------------
(* One job per definition.                                                 *)

PublishesOf(s, d) == preq[s].pc \in {"publish", "job"} /\ preq[s].of = d

(* As long as no two publishes of a definition meet, nor one and a job of  *)
(* a user, the one that found no job is the only one that can make one.    *)
Sole ==
    /\ \A d \in Definitions \ crossed : \A i, j \in JobsOf(d) : i = j
    /\ \A s \in PdServers : preq[s].pc = "job" /\ preq[s].job = 0 =>
          preq[s].of \in crossed \/ JobsOf(preq[s].of) = {}
    /\ \A s, t \in PdServers, d \in Definitions :
          s # t /\ PublishesOf(s, d) /\ PublishesOf(t, d) => d \in crossed

(* Steps that make no job, and no publish but may end one.                 *)
NoNewPublish ==
    /\ pjobs' \subseteq pjobs /\ crossed' = crossed
    /\ \A s \in PdServers : preq'[s] = preq[s] \/ preq'[s].pc \notin {"publish", "job"}

LEMMA NoNewPublishSole ==
    ASSUME PdTypeOK, Sole, NoNewPublish
    PROVE  Sole'
<1>1. \A d : JobsOf(d)' \subseteq JobsOf(d)
  BY DEF NoNewPublish, JobsOf
<1>2. \A s \in PdServers : \A d : PublishesOf(s, d)' => PublishesOf(s, d)
  BY DEF NoNewPublish, PublishesOf
<1>. QED
  BY <1>1, <1>2 DEF NoNewPublish, Sole

LEMMA NextSole == PdTypeOK /\ Sole /\ [PdNext]_pdVars => Sole'
<1>. SUFFICES ASSUME PdTypeOK, Sole, [PdNext]_pdVars PROVE Sole'
  OBVIOUS
<1>0. \A s \in PdServers : preq[s].pc \in {"publish", "job"} => preq[s].of \in Definitions
  BY RequestKinds DEF PdTypeOK
<1>1. ASSUME NEW d \in Definitions, DefinitionActions(d) PROVE NoNewPublish
  BY <1>1 DEF DefinitionActions, CreateDefinition, DeleteDefinition, DisableDefinition, Rows, NoNewPublish
<1>2. ASSUME NEW s \in PdServers,
             \/ \E d \in Definitions, c \in Contents : UpdateRead(s, d, c)
             \/ \E v \in versions : RollbackRead(s, v)
             \/ UpdateWrite(s) \/ RollbackWrite(s) \/ PdRestart(s)
      PROVE  NoNewPublish
  BY <1>2, Requests DEF UpdateRead, RollbackRead, UpdateWrite, RollbackWrite, PdRestart, PdTypeOK, NoNewPublish
<1>3. ASSUME NEW s \in PdServers, NEW d \in Definitions, PublishStatus(s, d) PROVE Sole'
  <2>1. /\ preq'[s].pc = "publish" /\ preq'[s].of = d
        /\ \A v \in PdServers \ {s} : preq'[v] = preq[v]
        /\ pjobs' = pjobs /\ crossed \subseteq crossed'
        /\ crossed' = IF Publishing(d) # {} THEN crossed \cup {d} ELSE crossed
        /\ crossed' \subseteq crossed \cup {d}
    BY <1>3 DEF PublishStatus, PdTypeOK
  <2>2. \A e : JobsOf(e)' = JobsOf(e)
    BY <2>1 DEF JobsOf
  <2>3. \A v \in PdServers \ {s} : PublishesOf(v, d) => d \in crossed'
    BY <2>1 DEF PublishesOf, Publishing
  <2>4. \A v \in PdServers \ {s} : \A e : PublishesOf(v, e)' <=> PublishesOf(v, e)
    BY <2>1 DEF PublishesOf
  <2>5. \A e : PublishesOf(s, e)' => e = d
    BY <2>1 DEF PublishesOf
  <2>. QED
    BY <2>1, <2>2, <2>3, <2>4, <2>5 DEF Sole
<1>4. ASSUME NEW s \in PdServers, PublishLookup(s) PROVE Sole'
  <2> DEFINE d == preq[s].of
  <2>1. PICK j \in IF Found(d) = {} THEN {0} ELSE Found(d) :
            preq' = [preq EXCEPT ![s] = [pc |-> "job", of |-> d, job |-> j]]
    BY <1>4 DEF PublishLookup
  <2>2. /\ preq'[s].pc = "job" /\ preq'[s].of = d /\ preq'[s].job = j
        /\ \A v \in PdServers \ {s} : preq'[v] = preq[v]
        /\ UNCHANGED <<pjobs, crossed>>
    BY <1>4, <2>1 DEF PublishLookup, PdTypeOK
  <2>3. \A i \in pjobs : i.id # 0
    BY PdAssumption DEF PdTypeOK, JobRow
  <2>4. j = 0 => JobsOf(d) = {}
    BY <2>1, <2>3 DEF Found, JobsOf
  <2>5. \A e : JobsOf(e)' = JobsOf(e)
    BY <2>2 DEF JobsOf
  <2>6. \A v \in PdServers : \A e : PublishesOf(v, e)' <=> PublishesOf(v, e)
    BY <1>4, <2>2 DEF PublishLookup, PublishesOf
  <2>. QED
    BY <2>2, <2>4, <2>5, <2>6 DEF Sole
<1>5. ASSUME NEW s \in PdServers, PublishJob(s) PROVE Sole'
  <2>1. PICK d \in Definitions : d = preq[s].of
    BY <1>5, RequestKinds DEF PublishJob, PdTypeOK
  <2>2. /\ preq'[s].pc = "idle" /\ \A v \in PdServers \ {s} : preq'[v] = preq[v]
        /\ crossed' = crossed
    BY <1>5, <2>1, Requests DEF PublishJob, PdTypeOK
  <2>3. CASE preq[s].job # 0
    BY <1>5, <2>2, <2>3, NoNewPublishSole DEF PublishJob, Makes, NoNewPublish
  <2>4. CASE preq[s].job = 0
    <3>1. PICK j \in PdJobs : pjobs' = pjobs \cup {[id |-> j, of |-> d]}
      BY <1>5, <2>1, <2>4 DEF PublishJob, Makes
    <3>2. JobsOf(d)' = JobsOf(d) \cup {[id |-> j, of |-> d]} /\ \A e : e # d => JobsOf(e)' = JobsOf(e)
      BY <3>1 DEF JobsOf
    <3>3. d \in crossed \/ JobsOf(d) = {}
      BY <1>5, <2>1, <2>4 DEF PublishJob, Sole
    <3>4. \A v \in PdServers \ {s} : PublishesOf(v, d) => d \in crossed
      BY <1>5, <2>1 DEF PublishJob, PublishesOf, Sole
    <3>5. \A v \in PdServers \ {s} : \A e : PublishesOf(v, e)' <=> PublishesOf(v, e)
      BY <2>2 DEF PublishesOf
    <3>6. \A e : ~PublishesOf(s, e)'
      BY <2>2 DEF PublishesOf
    <3>7. \A e \in Definitions \ crossed' : \A i, k \in JobsOf(e)' : i = k
      BY <2>2, <3>2, <3>3 DEF Sole
    <3>8. \A v \in PdServers : preq'[v].pc = "job" /\ preq'[v].job = 0 =>
              preq'[v].of \in crossed' \/ JobsOf(preq[v].of)' = {}
      BY <2>2, <3>2, <3>4 DEF Sole, PublishesOf
    <3>. QED
      BY <2>2, <3>5, <3>6, <3>7, <3>8 DEF Sole
  <2>. QED
    BY <2>3, <2>4
<1>6. ASSUME NEW i \in JobRow, UserCreatesJob(i) PROVE Sole'
  <2>1. pjobs' = pjobs \cup {i} /\ crossed' = crossed \cup ({i.of} \cap Definitions) /\ preq' = preq
    BY <1>6 DEF UserCreatesJob
  <2>2. \A e : e # i.of => JobsOf(e)' = JobsOf(e)
    BY <2>1 DEF JobsOf
  <2>3. \A v, e : PublishesOf(v, e)' <=> PublishesOf(v, e)
    BY <2>1 DEF PublishesOf
  <2>. QED
    BY <2>1, <2>2, <2>3, <1>0 DEF Sole
<1>7. ASSUME NEW i \in JobRow, UserDeletesJob(i) PROVE NoNewPublish
  BY <1>7 DEF UserDeletesJob, NoNewPublish
<1>7a. ASSUME NEW i \in JobRow, NEW of \in Definitions \cup {"nothing"}, UserMovesJob(i, of) PROVE Sole'
  <2>1. /\ pjobs' = (pjobs \ {i}) \cup {[i EXCEPT !.of = of]} /\ preq' = preq
        /\ crossed' = crossed \cup ({of} \cap Definitions)
    BY <1>7a DEF UserMovesJob
  <2>2. [i EXCEPT !.of = of].of = of
    BY DEF JobRow
  <2>3. \A e : e # of => JobsOf(e)' \subseteq JobsOf(e)
    BY <2>1, <2>2 DEF JobsOf
  <2>4. \A v, e : PublishesOf(v, e)' <=> PublishesOf(v, e)
    BY <2>1 DEF PublishesOf
  <2>. QED
    BY <2>1, <2>3, <2>4, <1>0 DEF Sole
<1>8. CASE UNCHANGED pdVars
  BY <1>8, NoNewPublishSole DEF pdVars, NoNewPublish
<1>. QED
  BY <1>1, <1>2, <1>3, <1>4, <1>5, <1>6, <1>7, <1>7a, <1>8, NoNewPublishSole DEF PdNext, PdServerActions, UserActions

(* Publishing makes one job for a definition, however often it is          *)
(* published, edited and rolled back, unless two publishes of it overlap or *)
(* a user gives it a job.                                                  *)
THEOREM PublishingIsIdempotent == PdSpec => []OneJobPerDefinition
<1>1. PdInit => Sole
  BY DEF PdInit, Sole, JobsOf, PublishesOf, PdIdle
<1>2. Sole => OneJobPerDefinition
  <2>. SUFFICES ASSUME Sole, NEW d \in Definitions \ crossed PROVE Cardinality(JobsOf(d)) <= 1
    BY DEF OneJobPerDefinition
  <2>1. CASE JobsOf(d) = {}
    BY <2>1, FS_EmptySet
  <2>2. ASSUME NEW i \in JobsOf(d) PROVE Cardinality(JobsOf(d)) <= 1
    <3>1. JobsOf(d) = {i}
      BY DEF Sole
    <3>2. Cardinality({i}) = 1
      BY FS_Singleton, Zenon
    <3>. QED
      BY <3>1, <3>2
  <2>. QED
    BY <2>1, <2>2
<1>. QED
  BY <1>1, <1>2, NextSole, ReadsAlways, PTL DEF PdSpec
=============================================================================
