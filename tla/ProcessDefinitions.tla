------------------------- MODULE ProcessDefinitions -------------------------
(***************************************************************************)
(* Process definitions, their version history, and the job that publishing *)
(* one creates or updates (app/api/process_management.py).  The handlers   *)
(* are async without an await: in one server nothing comes between their   *)
(* statements, two servers on one database interleave them (READ           *)
(* COMMITTED).  A handler is a step up to its last read and a step that    *)
(* writes and commits.                                                     *)
(***************************************************************************)
EXTENDS Naturals, FiniteSets

CONSTANTS
    PdServers,   \* servers; each handles one request at a time
    Definitions, \* ids of process_definitions
    Contents,    \* nodes, edges and variables of a definition
    PdJobs,      \* primary keys of jobs (positive)
    MaxVersion   \* bound on the version number that is reached

ASSUME PdAssumption ==
    /\ PdJobs \subseteq Nat \ {0}
    /\ "nothing" \notin Definitions
    /\ MaxVersion \in Nat \ {0}

VARIABLES
    pdef,      \* the table process_definitions
    versions,  \* rows of process_definition_versions
    pjobs,     \* rows of jobs
    preq,      \* local state of the request each server handles
    committed, \* history: every <<definition, version, content>> there has been
    rolled,    \* history: definitions that have been rolled back
    skipped,   \* history: definitions whose row changed while one updated it
    crossed,   \* history: definitions whose publishes overlapped, or that a user gave a job
    orphaned   \* history: definitions whose job was deleted, taken away or never made

pdVars == <<pdef, versions, pjobs, preq, committed, rolled, skipped, crossed, orphaned>>

-----------------------------------------------------------------------------
(* Rows.                                                                   *)

Versions == 1 .. MaxVersion

DefRow == [state : {"fresh", "live", "deleted"}, status : {"draft", "published", "disabled"},
           version : Versions, content : Contents]
VersionRow == [of : Definitions, version : Versions, content : Contents]
JobRow == [id : PdJobs, of : Definitions \cup {"nothing"}]

(* read is what an update or a rollback has read, content what the update  *)
(* writes; job is the job a publish has found (0: none).                   *)
PdIdle == [pc |-> "idle"]
PdRequest == {PdIdle}
    \cup [pc : {"update"}, read : VersionRow, content : Contents]
    \cup [pc : {"rollback"}, read : VersionRow]
    \cup [pc : {"publish"}, of : Definitions]
    \cup [pc : {"job"}, of : Definitions, job : PdJobs \cup {0}]

Exists(d)    == pdef[d].state # "fresh"
LiveDef(d)   == pdef[d].state = "live"
Current(d)   == [of |-> d, version |-> pdef[d].version, content |-> pdef[d].content]
JobsOf(d)    == {j \in pjobs : j.of = d}
AtIdle(s)    == preq[s].pc = "idle"
Publishing(d) == {s \in PdServers : preq[s].pc \in {"publish", "job"} /\ preq[s].of = d}

PdInit ==
    /\ \E c \in Contents : pdef = [d \in Definitions |->
          [state |-> "fresh", status |-> "draft", version |-> 1, content |-> c]]
    /\ versions = {} /\ pjobs = {} /\ committed = {}
    /\ rolled = {} /\ skipped = {} /\ crossed = {} /\ orphaned = {}
    /\ preq = [s \in PdServers |-> PdIdle]

-----------------------------------------------------------------------------
(* Create, delete, disable.                                                *)

Rows == <<versions, pjobs, preq, rolled, skipped, crossed, orphaned>>

CreateDefinition(d, c) ==
    /\ pdef[d].state = "fresh"
    /\ pdef' = [pdef EXCEPT ![d] = [state |-> "live", status |-> "draft",
                                    version |-> 1, content |-> c]]
    /\ committed' = committed \cup {[of |-> d, version |-> 1, content |-> c]}
    /\ UNCHANGED Rows

DeleteDefinition(d) ==
    /\ LiveDef(d)
    /\ pdef' = [pdef EXCEPT ![d].state = "deleted"]
    /\ UNCHANGED <<Rows, committed>>

DisableDefinition(d) ==
    /\ LiveDef(d)
    /\ pdef' = [pdef EXCEPT ![d].status = "disabled"]
    /\ UNCHANGED <<Rows, committed>>

-----------------------------------------------------------------------------
(* Update and rollback.                                                    *)

UpdateRead(s, d, c) ==
    /\ AtIdle(s) /\ LiveDef(d)
    /\ preq' = [preq EXCEPT ![s] = [pc |-> "update", read |-> Current(d), content |-> c]]
    /\ UNCHANGED <<pdef, versions, pjobs, committed, rolled, skipped, crossed, orphaned>>

(* Mutant: the content of the body is stored with the old version number.  *)
SnapshotOfBody(s) == [preq[s].read EXCEPT !.content = preq[s].content]

Snapshot(s) == preq[s].read

(* Mutant: the version that was read, plus one.                            *)
ReadVersion(s) == preq[s].read.version + 1

(* Mutant: the version counts down.                                        *)
CountedDown(s) == pdef[preq[s].read.of].version - 1

NextVersion(s) == pdef[preq[s].read.of].version + 1

(* Keep what was read as a version row; then version = version + 1 counts  *)
(* from the row as it is now, and the row is written even when it has been *)
(* deleted meanwhile.                                                      *)
UpdateWrite(s) ==
    LET d == preq[s].read.of IN
    /\ preq[s].pc = "update"
    /\ pdef[d].version < MaxVersion
    /\ versions' = versions \cup {Snapshot(s)}
    /\ pdef' = [pdef EXCEPT ![d].version = NextVersion(s), ![d].content = preq[s].content]
    /\ committed' = committed \cup
          {[of |-> d, version |-> NextVersion(s), content |-> preq[s].content]}
    /\ skipped' = IF Current(d) = preq[s].read THEN skipped ELSE skipped \cup {d}
    /\ preq' = [preq EXCEPT ![s] = PdIdle]
    /\ UNCHANGED <<pjobs, rolled, crossed, orphaned>>

(* Any row of that version; the definition may have been deleted.          *)
RollbackRead(s, v) ==
    /\ AtIdle(s) /\ v \in versions
    /\ preq' = [preq EXCEPT ![s] = [pc |-> "rollback", read |-> v]]
    /\ UNCHANGED <<pdef, versions, pjobs, committed, rolled, skipped, crossed, orphaned>>

(* The content that is replaced is not kept, and its number is used again. *)
RollbackWrite(s) ==
    LET v == preq[s].read IN
    /\ preq[s].pc = "rollback"
    /\ pdef' = [pdef EXCEPT ![v.of].version = v.version, ![v.of].content = v.content]
    /\ committed' = committed \cup {v}
    /\ rolled' = rolled \cup {v.of}
    /\ preq' = [preq EXCEPT ![s] = PdIdle]
    /\ UNCHANGED <<versions, pjobs, skipped, crossed, orphaned>>

-----------------------------------------------------------------------------
(* Publish.                                                                *)

(* The status is committed first.                                          *)
PublishStatus(s, d) ==
    /\ AtIdle(s) /\ LiveDef(d)
    /\ pdef' = [pdef EXCEPT ![d].status = "published"]
    /\ preq' = [preq EXCEPT ![s] = [pc |-> "publish", of |-> d]]
    /\ crossed' = IF Publishing(d) # {} THEN crossed \cup {d} ELSE crossed
    /\ UNCHANGED <<versions, pjobs, committed, rolled, skipped, orphaned>>

(* Mutant: publishing creates a job without looking for one.               *)
NoneFound(d) == {}

(* get_job_by_process_definition_id.                                       *)
Found(d) == {j.id : j \in JobsOf(d)}

(* Look for a job of the definition.                                       *)
PublishLookup(s) ==
    LET d == preq[s].of IN
    /\ preq[s].pc = "publish"
    /\ \E j \in IF Found(d) = {} THEN {0} ELSE Found(d) :
         preq' = [preq EXCEPT ![s] = [pc |-> "job", of |-> d, job |-> j]]
    /\ UNCHANGED <<pdef, versions, pjobs, committed, rolled, skipped, crossed, orphaned>>

(* A key no row has and no publish holds; sequences never give one again.  *)
FreshJobs == PdJobs \ ({j.id : j \in pjobs} \cup
                       {preq[s].job : s \in {v \in PdServers : preq[v].pc = "job"}})
NextJob(j) == j \in FreshJobs /\ \A k \in FreshJobs : j <= k

(* Mutant: no job for a definition that was deleted in the meantime.       *)
MakesIfLive(s) == preq[s].job = 0 /\ LiveDef(preq[s].of)

Makes(s) == preq[s].job = 0

(* Create a job, or set the name and the type (which follows from the      *)
(* nodes) of the one that was found; if that is gone, nothing is done.     *)
PublishJob(s) ==
    /\ preq[s].pc = "job"
    /\ IF Makes(s)
       THEN \E j \in PdJobs :
              /\ NextJob(j)
              /\ pjobs' = pjobs \cup {[id |-> j, of |-> preq[s].of]}
       ELSE UNCHANGED pjobs
    /\ orphaned' = IF \E j \in pjobs' : j.of = preq[s].of THEN orphaned \ {preq[s].of} ELSE orphaned
    /\ preq' = [preq EXCEPT ![s] = PdIdle]
    /\ UNCHANGED <<pdef, versions, committed, rolled, skipped, crossed>>

(* POST, DELETE and PUT of /jobs (see JobScheduler for what runs them).    *)
UserCreatesJob(j) ==
    /\ NextJob(j.id)
    /\ pjobs' = pjobs \cup {j}
    /\ crossed' = crossed \cup ({j.of} \cap Definitions)
    /\ UNCHANGED <<pdef, versions, preq, committed, rolled, skipped, orphaned>>

(* The definitions that have no job once j is not theirs.                  *)
Orphans(j) == {d \in Definitions : JobsOf(d) = {j}}

UserDeletesJob(j) ==
    /\ j \in pjobs
    /\ pjobs' = pjobs \ {j}
    /\ orphaned' = orphaned \cup Orphans(j)
    /\ UNCHANGED <<pdef, versions, preq, committed, rolled, skipped, crossed>>

(* The body of PUT names any definition, or none.                          *)
UserMovesJob(j, of) ==
    /\ j \in pjobs /\ j.of # of
    /\ pjobs' = (pjobs \ {j}) \cup {[j EXCEPT !.of = of]}
    /\ crossed' = crossed \cup ({of} \cap Definitions)
    /\ orphaned' = orphaned \cup Orphans(j)
    /\ UNCHANGED <<pdef, versions, preq, committed, rolled, skipped>>

(* A server ends between two commits of a request.                         *)
PdRestart(s) ==
    /\ ~AtIdle(s)
    /\ orphaned' = IF preq[s].pc \in {"publish", "job"} /\ JobsOf(preq[s].of) = {}
                   THEN orphaned \cup {preq[s].of} ELSE orphaned
    /\ preq' = [preq EXCEPT ![s] = PdIdle]
    /\ UNCHANGED <<pdef, versions, pjobs, committed, rolled, skipped, crossed>>

-----------------------------------------------------------------------------
DefinitionActions(d) ==
    \/ \E c \in Contents : CreateDefinition(d, c)
    \/ DeleteDefinition(d)
    \/ DisableDefinition(d)

PdServerActions(s) ==
    \/ \E d \in Definitions, c \in Contents : UpdateRead(s, d, c)
    \/ UpdateWrite(s)
    \/ \E v \in versions : RollbackRead(s, v)
    \/ RollbackWrite(s)
    \/ \E d \in Definitions : PublishStatus(s, d)
    \/ PublishLookup(s)
    \/ PublishJob(s)
    \/ PdRestart(s)

UserActions(j) ==
    \/ UserCreatesJob(j)
    \/ UserDeletesJob(j)
    \/ \E of \in Definitions \cup {"nothing"} : UserMovesJob(j, of)

PdNext ==
    \/ \E d \in Definitions : DefinitionActions(d)
    \/ \E s \in PdServers : PdServerActions(s)
    \/ \E j \in JobRow : UserActions(j)

PdSpec == PdInit /\ [][PdNext]_pdVars

-----------------------------------------------------------------------------
(* Every table and every local state has its type; a version row belongs   *)
(* to a definition that exists (a job need not: the column is no foreign   *)
(* key).                                                                   *)
PdTypeOK ==
    /\ pdef \in [Definitions -> DefRow]
    /\ versions \subseteq VersionRow
    /\ pjobs \subseteq JobRow
    /\ preq \in [PdServers -> PdRequest]
    /\ committed \subseteq VersionRow
    /\ rolled \subseteq Definitions /\ skipped \subseteq Definitions
    /\ crossed \subseteq Definitions /\ orphaned \subseteq Definitions
    /\ \A v \in versions : Exists(v.of)

(* Everything a definition has been is still to be found, as its row or as *)
(* a version, unless it has been rolled back or two updates overlapped.    *)
HistoryKept ==
    \A v \in committed : v.of \notin rolled \cup skipped => v = Current(v.of) \/ v \in versions

(* A version number names one content, overlapping updates included; only  *)
(* a rollback gives a number out again.                                    *)
VersionNamesContent ==
    \A v, w \in committed \cup versions :
        v.of = w.of /\ v.version = w.version /\ v.of \notin rolled => v = w

(* get_job_by_process_definition_id, "for idempotent publishing": however  *)
(* often a definition is published, edited and rolled back, publishing has *)
(* made one job for it, unless two publishes overlapped or a user gave it  *)
(* a job by POST or PUT /jobs.                                             *)
OneJobPerDefinition ==
    \A d \in Definitions \ crossed :
        Cardinality(JobsOf(d)) <= 1

(* A published definition has a job, once no publish of it is under way,   *)
(* unless the job was deleted or moved by a user, or the server ended      *)
(* before it made one.                                                     *)
PublishedHasJob ==
    \A d \in Definitions \ orphaned :
        pdef[d].status = "published" /\ Publishing(d) = {} => JobsOf(d) # {}

-----------------------------------------------------------------------------
(* VersionLog as it is implemented: the log is the version rows and the    *)
(* rows of the definitions.                                                *)
Heads == {Current(d) : d \in {e \in Definitions : Exists(e)}}

History == INSTANCE VersionLog WITH log <- versions \cup Heads, heads <- Heads,
                                    overtaken <- skipped, reverted <- rolled

(* Whatever servers interleave, the two tables are the log of VersionLog:  *)
(* every update gets the number after the one it replaces and loses at     *)
(* most that one, and only if it was overtaken.                            *)
KeepsALog == History!Spec
=============================================================================
