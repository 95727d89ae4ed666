-------------------------------- MODULE Cmdb --------------------------------
(***************************************************************************)
(* The CMDB: assets, the lookup tables they refer to (device types,        *)
(* vendors, locations, departments, statuses and system types, which have  *)
(* the same handlers; one of them is modelled), the import of assets from  *)
(* CSV and the discovery of devices.  The database is READ COMMITTED; a    *)
(* row or unique key that an open transaction holds makes another one      *)
(* wait.  One import or discovery is under way at a time; what another one *)
(* would commit meanwhile, the requests for single rows do.                *)
(***************************************************************************)
EXTENDS Naturals, Sequences, FiniteSets

CONSTANTS
    Tags,       \* values of asset_tag (unique)
    Ips,        \* values of ip_address
    NoIp,       \* ip_address NULL
    Names,      \* names in the lookup table (unique)
    Files,      \* CSV files: sequences of lines
    Devices,    \* what a discovery finds: [ip, tag, type]
    AssetIds,   \* keys of cmdb_assets (positive)
    MaxLookup   \* bound on the keys of the lookup table

(* What can be wrong with a line alone: a required field is empty, or a    *)
(* value does not fit its column.                                          *)
Lines == [tag : Tags, ip : Ips, type : Names, bad : {"nothing", "field", "value"}]

ASSUME CmAssumption ==
    /\ Files \subseteq Seq(Lines)
    /\ Devices \subseteq [ip : Ips \cup {NoIp}, tag : Tags, type : Names]
    /\ NoIp \notin Ips
    /\ AssetIds \subseteq Nat \ {0} /\ MaxLookup \in Nat \ {0}

VARIABLES
    assets,    \* rows of cmdb_assets
    lookups,   \* rows of the lookup table
    usedKeys,  \* the sequence of the lookup table
    imp        \* the import or discovery that is under way

cmVars == <<assets, lookups, usedKeys, imp>>

-----------------------------------------------------------------------------
(* Rows and transactions.                                                  *)

Keys      == 1 .. MaxLookup
LookupRow == [id : Keys, name : Names]
AssetRow  == [id : AssetIds, tag : Tags, ip : Ips \cup {NoIp}, type : Keys \cup {0}]

(* A row as the open transaction sees it; id 0 is one it inserts.          *)
Row == [id : AssetIds \cup {0}, tag : Tags, ip : Ips \cup {NoIp}, type : Keys \cup {0}]

(* at is the line; map the names and ids read or created so far; newNames  *)
(* and written what the open transaction has flushed; found the row, or    *)
(* none, that a query has loaded; broken: a flush has failed with another  *)
(* error than an integrity error, and every use of the session fails until *)
(* its end.  crossed (history): tags of lines whose asset was changed      *)
(* between its query and its update.                                       *)
CmIdle == [pc |-> "idle"]
Importing == [pc : {"read", "write"}, file : Files, at : Nat, map : SUBSET LookupRow,
              newNames : SUBSET LookupRow, written : SUBSET Row, found : SUBSET Row,
              failed : Nat, broken : BOOLEAN, crossed : SUBSET Tags]
Discovering == [pc : {"discover"}, device : Devices, found : SUBSET AssetRow, type : Keys \cup {0}]

CmInit ==
    /\ assets = {} /\ usedKeys = 1
    /\ lookups \in {{[id |-> 1, name |-> n]} : n \in Names}
    /\ imp = CmIdle

Line == imp.file[imp.at]
Open == imp.pc \in {"read", "write"}

(* Keys that the open transaction holds: tags it has inserted, assets it   *)
(* has updated, names it has inserted, lookup rows it refers to.           *)
Free(g)     == ~(Open /\ \E w \in imp.written : w.id = 0 /\ w.tag = g)
Unlocked(a) == ~(Open /\ \E w \in imp.written : w.id = a)
FreeName(n) == ~(Open /\ \E l \in imp.newNames : l.name = n)
Unused(k)   == ~(Open /\ \E w \in imp.written : w.type = k)

FreshIds == {a \in AssetIds : \A x \in assets : x.id # a}
NextId(a) == a \in FreshIds /\ \A b \in FreshIds : a <= b

(* At most one of the rows S, as first() gives.                            *)
First(S) == IF S = {} THEN {{}} ELSE {{x} : x \in S}

(* An UPDATE writes the attributes that differ from those loaded with r.   *)
Written(x, r, g, i, k) ==
    [x EXCEPT !.tag = IF g = r.tag THEN @ ELSE g,
              !.ip = IF i = r.ip THEN @ ELSE i,
              !.type = IF k = r.type THEN @ ELSE k]

-----------------------------------------------------------------------------
(* The lookup table.                                                       *)

CreateLookup(n) ==
    /\ usedKeys < MaxLookup /\ usedKeys' = usedKeys + 1
    /\ \A l \in lookups : l.name # n
    /\ FreeName(n)
    /\ lookups' = lookups \cup {[id |-> usedKeys + 1, name |-> n]}
    /\ UNCHANGED <<assets, imp>>

UpdateLookup(l, n) ==
    /\ l \in lookups
    /\ \A m \in lookups : m.name # n
    /\ FreeName(n) /\ Unused(l.id)
    /\ lookups' = (lookups \ {l}) \cup {[l EXCEPT !.name = n]}
    /\ UNCHANGED <<assets, usedKeys, imp>>

(* Mutant: the assets keep the id.                                         *)
StillReferring(l) == assets

(* The ORM sets the column of the assets that refer to the row to NULL.    *)
Unreferred(l) == {[x EXCEPT !.type = IF @ = l.id THEN 0 ELSE @] : x \in assets}

DeleteLookup(l) ==
    /\ l \in lookups
    /\ Unused(l.id)
    /\ \A x \in assets : x.type = l.id => Unlocked(x.id)
    /\ lookups' = lookups \ {l}
    /\ assets' = Unreferred(l)
    /\ UNCHANGED <<usedKeys, imp>>

-----------------------------------------------------------------------------
(* Assets.                                                                 *)

TypeIds == {l.id : l \in lookups} \cup {0}

CreateAsset(g, i, k) ==
    /\ k \in TypeIds /\ Free(g) /\ \A x \in assets : x.tag # g
    /\ \E a \in AssetIds : NextId(a) /\ assets' = assets \cup {[id |-> a, tag |-> g, ip |-> i, type |-> k]}
    /\ UNCHANGED <<lookups, usedKeys, imp>>

UpdateAsset(x, g, i, k) ==
    /\ x \in assets /\ k \in TypeIds /\ Free(g) /\ Unlocked(x.id)
    /\ \A y \in assets \ {x} : y.tag # g
    /\ assets' = (assets \ {x}) \cup {[id |-> x.id, tag |-> g, ip |-> i, type |-> k]}
    /\ UNCHANGED <<lookups, usedKeys, imp>>

(* One, or a list of ids that must all exist.                              *)
DeleteAssets(S) ==
    /\ S # {} /\ \A x \in S : Unlocked(x.id)
    /\ assets' = assets \ S
    /\ UNCHANGED <<lookups, usedKeys, imp>>

-----------------------------------------------------------------------------
(* Import from CSV: one transaction for the file, until a line violates an *)
(* integrity rule; then the session is rolled back and goes on in a new    *)
(* transaction, with the ids it has noted so far.                          *)

StartImport(f) ==
    /\ imp.pc = "idle" /\ f # <<>>
    /\ imp' = [pc |-> "read", file |-> f, at |-> 1, map |-> lookups, newNames |-> {},
                written |-> {}, found |-> {}, failed |-> 0, broken |-> FALSE, crossed |-> {}]
    /\ UNCHANGED <<assets, lookups, usedKeys>>

NextLine(d) == [d EXCEPT !.pc = "read", !.at = @ + 1, !.found = {}]
Failed(d)   == NextLine([d EXCEPT !.failed = @ + 1])

Undone(d)   == [d EXCEPT !.newNames = {}, !.written = {}]

(* Mutant: the line is not counted as failed.                              *)
RolledBackQuietly(d) == NextLine(Undone(d))

RolledBack(d) == Failed(Undone(d))

(* A line without a required field, or any line of a broken session.       *)
SkipLine ==
    /\ imp.pc = "read" /\ imp.at <= Len(imp.file)
    /\ Line.bad = "field" \/ imp.broken
    /\ imp' = Failed(imp)
    /\ UNCHANGED <<assets, lookups, usedKeys>>

Known == {l \in imp.map : l.name = Line.type}

(* The INSERT of a lookup row that the map does not have is refused.       *)
NameTaken == Known = {} /\ \E l \in lookups : l.name = Line.type

(* The assets as the open transaction sees them.                           *)
View == {x \in assets : \A w \in imp.written : w.id # x.id} \cup imp.written

(* The lookup row of the line, created if the map does not have it, and    *)
(* the query for the asset with its tag.                                   *)
ReadLine ==
    LET new == IF Known = {} THEN {[id |-> usedKeys + 1, name |-> Line.type]} ELSE {} IN
    /\ imp.pc = "read" /\ imp.at <= Len(imp.file)
    /\ Line.bad # "field" /\ ~imp.broken
    /\ IF NameTaken THEN imp' = RolledBack(imp) /\ usedKeys' = usedKeys
       ELSE /\ new # {} => usedKeys < MaxLookup
            /\ usedKeys' = usedKeys + Cardinality(new)
            /\ \E S \in First({x \in View : x.tag = Line.tag}) :
                 imp' = [imp EXCEPT !.pc = "write", !.found = S,
                                    !.map = @ \cup new, !.newNames = @ \cup new]
    /\ UNCHANGED <<assets, lookups>>

(* The row that was loaded, as it is when the line is flushed.             *)
RowNow == {x \in View : \E r \in imp.found : x.id = r.id /\ (r.id = 0 => x.tag = r.tag)}

(* Mutant: nothing refuses an id that is no longer there.                  *)
NoForeignKey == FALSE

(* The id of the type is written, and is gone: deleted since it was read,  *)
(* or created by a transaction of this import that was rolled back.        *)
IdGone == \E l \in Known : /\ l.id \notin {m.id : m \in lookups \cup imp.newNames}
                           /\ \A r \in imp.found : r.type # l.id

(* Found none, and now another transaction has stored the tag.             *)
TagTaken == imp.found = {} /\ \E x \in assets : x.tag = Line.tag

AssetGone == imp.found # {} /\ RowNow = {}

(* Flush the line.                                                         *)
WriteLine ==
    LET rows == IF imp.found = {}
                THEN {[id |-> 0, tag |-> Line.tag, ip |-> Line.ip, type |-> l.id] : l \in Known}
                ELSE {Written(x, r, Line.tag, Line.ip, l.id) : x \in RowNow, r \in imp.found, l \in Known}
    IN  /\ imp.pc = "write"
        /\ \/ /\ Line.bad = "value" \/ AssetGone
              /\ imp' = Failed(Undone([imp EXCEPT !.broken = TRUE]))
           \/ /\ Line.bad # "value" /\ ~AssetGone
              /\ IdGone \/ TagTaken
              /\ imp' = RolledBack(imp)
           \/ /\ Line.bad # "value" /\ ~AssetGone /\ ~IdGone /\ ~TagTaken
              /\ imp' = NextLine([imp EXCEPT
                     !.written = (@ \ RowNow) \cup rows,
                     !.crossed = IF imp.found = RowNow THEN @ ELSE @ \cup {Line.tag}])
        /\ UNCHANGED <<assets, lookups, usedKeys>>

(* The table with the rows W written; inserted ones get the keys ids.      *)
Stored(W, ids) ==
    {x \in assets : \A w \in W : w.id # x.id}
        \cup {w \in W : w.id # 0}
        \cup {[w EXCEPT !.id = ids[w]] : w \in DOMAIN ids}

(* Commit, and answer with the numbers of lines; a broken session raises.  *)
EndImport ==
    LET W == imp.written
        N == {w \in W : w.id = 0}
    IN  /\ imp.pc = "read" /\ imp.at > Len(imp.file)
        /\ \E ids \in [N -> FreshIds] :
             /\ \A w, v \in N : w # v => ids[w] # ids[v]
             /\ assets' = Stored(W, ids)
        /\ lookups' = lookups \cup imp.newNames
        /\ imp' = CmIdle
        /\ UNCHANGED usedKeys

-----------------------------------------------------------------------------
(* Discovery.  All devices are stored in one transaction; one is modelled. *)

(* The assets of a device: with its address (a device without one matches  *)
(* any asset without one), or else with its tag.                           *)
Match(d) ==
    LET byIp == {x \in assets : x.ip = d.ip}
    IN  IF byIp # {} THEN byIp ELSE {x \in assets : x.tag = d.tag}

(* Read the id of the type, if there is one, and the asset.                *)
Discover(d) ==
    /\ imp.pc = "idle"
    /\ \E S \in First(Match(d)), k \in Keys \cup {0} :
         /\ IF k = 0 THEN \A l \in lookups : l.name # d.type
            ELSE [id |-> k, name |-> d.type] \in lookups
         /\ imp' = [pc |-> "discover", device |-> d, found |-> S, type |-> k]
    /\ UNCHANGED <<assets, lookups, usedKeys>>

(* INSERT, or UPDATE of the first that was found.  A tag that is taken, an *)
(* id or an asset that is gone fails the whole discovery.                  *)
StoreDiscovery ==
    LET d     == imp.device
        found == {x \in assets : \E r \in imp.found : x.id = r.id}
        taken == /\ \E x \in assets \ found : x.tag = d.tag
                 /\ \A r \in imp.found : r.tag # d.tag
        gone  == \/ imp.found # {} /\ found = {}
                 \/ /\ imp.type \notin TypeIds
                    /\ \A r \in imp.found : r.type # imp.type
    IN  /\ imp.pc = "discover"
        /\ \/ /\ imp.found = {} /\ ~taken /\ ~gone
              /\ \E a \in AssetIds : NextId(a) /\
                    assets' = assets \cup {[id |-> a, tag |-> d.tag, ip |-> d.ip, type |-> imp.type]}
           \/ /\ imp.found # {} /\ ~taken /\ ~gone
              /\ assets' = (assets \ found) \cup
                    {Written(x, r, d.tag, d.ip, IF imp.type = 0 THEN r.type ELSE imp.type) :
                        x \in found, r \in imp.found}
           \/ /\ taken \/ gone
              /\ UNCHANGED assets
        /\ imp' = CmIdle
        /\ UNCHANGED <<lookups, usedKeys>>

(* The process ends: what is not committed is gone.                        *)
CmRestart ==
    /\ imp.pc # "idle"
    /\ imp' = CmIdle
    /\ UNCHANGED <<assets, lookups, usedKeys>>

-----------------------------------------------------------------------------
LookupActions ==
    \/ \E n \in Names : CreateLookup(n)
    \/ \E l \in lookups, n \in Names : UpdateLookup(l, n)
    \/ \E l \in lookups : DeleteLookup(l)

AssetActions ==
    \/ \E g \in Tags, i \in Ips \cup {NoIp}, k \in TypeIds :
          CreateAsset(g, i, k) \/ \E x \in assets : UpdateAsset(x, g, i, k)
    \/ \E S \in SUBSET assets : DeleteAssets(S)

ImportActions ==
    \/ \E f \in Files : StartImport(f)
    \/ SkipLine
    \/ ReadLine
    \/ WriteLine
    \/ EndImport
    \/ \E d \in Devices : Discover(d)
    \/ StoreDiscovery
    \/ CmRestart

CmNext == LookupActions \/ AssetActions \/ ImportActions

CmSpec == CmInit /\ [][CmNext]_cmVars

-----------------------------------------------------------------------------
(* Types, unique keys, and the foreign key of the assets: no asset gets an *)
(* id that an import noted in a transaction it then rolled back.           *)
CmTypeOK ==
    /\ assets \subseteq AssetRow
    /\ lookups \subseteq LookupRow
    /\ usedKeys \in Keys
    /\ imp \in {CmIdle} \cup Importing \cup Discovering
    /\ \A x, y \in assets : x # y => x.id # y.id /\ x.tag # y.tag
    /\ \A l, m \in lookups : l # m => l.id # m.id /\ l.name # m.name
    /\ \A x \in assets : x.type # 0 => x.type \in {l.id : l \in lookups}

(* The answer of an import says that no line failed: then for every line   *)
(* there is an asset with its tag, and with the address and the type (by   *)
(* the name the import knew) of the last line for it, whatever was         *)
(* created, renamed or deleted while the import ran, unless another user   *)
(* changed that very asset between its query and its update.               *)
NoFailureAllStored ==
    [][EndImport /\ imp.failed = 0 =>
          \A k \in 1 .. Len(imp.file) : imp.file[k].tag \notin imp.crossed =>
              \E m \in k .. Len(imp.file), x \in assets' :
                 /\ imp.file[k].tag = x.tag /\ imp.file[m].tag = x.tag
                 /\ imp.file[m].ip = x.ip
                 /\ [id |-> x.type, name |-> imp.file[m].type] \in imp.map]_cmVars
=============================================================================
