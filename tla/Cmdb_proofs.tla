---------------------------- MODULE Cmdb_proofs ----------------------------
(***************************************************************************)
(* Proofs about Cmdb: the types and references of its tables, and that an  *)
(* import that reports no failure has stored every line.                   *)
(***************************************************************************)
EXTENDS Cmdb, FiniteSetTheorems, TLAPS

(* An import under way: its place in the file, and what it has noted.      *)
Reading ==
    Open =>
        /\ imp.at \in 1 .. Len(imp.file) + 1
        /\ imp.pc = "write" => imp.at <= Len(imp.file)
        /\ imp.newNames \subseteq imp.map
        /\ \A l, m \in imp.map : l # m => l.id # m.id /\ l.name # m.name

(* A line between its query and its flush: what the query has loaded is    *)
(* the asset with the line's tag, as the transaction sees it.              *)
SameRow(x, r) == x.id = r.id /\ (r.id = 0 => x.tag = r.tag)

Pending ==
    imp.pc = "write" =>
        /\ Known # {}
        /\ \A r, q \in imp.found : r = q
        /\ \A r \in imp.found : r.tag = Line.tag
        /\ imp.found = {} => \A w \in imp.written : w.tag # Line.tag
        /\ \A r \in imp.found, w \in imp.written : SameRow(w, r) => w = r

(* Keys of the lookup table come from a sequence that is never set back.   *)
KeysUsed ==
    /\ \A l \in lookups : l.id <= usedKeys
    /\ Open => \A l \in imp.map : l.id <= usedKeys

(* The names the open transaction has inserted are not in the table.       *)
NamesApart ==
    Open => \A l \in lookups, m \in imp.newNames : l.id # m.id /\ l.name # m.name

(* What the open transaction has written can be committed: the type exists *)
(* or is inserted with it, a new tag is free, an asset to update is there  *)
(* and has that tag, and no two rows are for the same asset or tag.        *)
Fits(w) ==
    /\ w.type \in {l.id : l \in lookups \cup imp.newNames} \cup {0}
    /\ w.id = 0 => \A x \in assets : x.tag # w.tag
    /\ w.id # 0 => \E x \in assets : x.id = w.id /\ x.tag = w.tag

WrittenFits ==
    Open => /\ \A w \in imp.written : Fits(w)
            /\ \A v, w \in imp.written : v # w => v.id # w.id \/ (v.id = 0 /\ v.tag # w.tag)

(* w is what line m of the file of the import d asks for.                  *)
From(d, w, m) ==
    /\ w.tag = d.file[m].tag /\ w.ip = d.file[m].ip
    /\ [id |-> w.type, name |-> d.file[m].type] \in d.map

(* Every line read so far has a row, from it or from a later line for its  *)
(* tag, unless its asset was changed between query and update.             *)
HasRow(d, k) == \E m \in k .. d.at - 1, w \in d.written : d.file[k].tag = d.file[m].tag /\ From(d, w, m)
AllRead(d) == \A k \in 1 .. d.at - 1 : d.file[k].tag \notin d.crossed => HasRow(d, k)

(* As long as no line failed.                                              *)
AllWritten == Open /\ imp.failed = 0 => ~imp.broken /\ AllRead(imp)

(* A discovery has loaded one asset at most.                               *)
OneFound == imp.pc = "discover" => \A r, q \in imp.found : r = q

CmInv == CmTypeOK /\ OneFound /\ Reading /\ Pending /\ KeysUsed /\ NamesApart /\ WrittenFits /\ AllWritten

-----------------------------------------------------------------------------
(* Types.                                                                  *)

LEMMA ImpKinds ==
    ASSUME CmTypeOK
    PROVE  /\ imp.pc \in {"idle", "read", "write", "discover"}
           /\ imp.pc = "idle" => imp = CmIdle
           /\ Open => imp \in Importing
           /\ imp.pc = "discover" => imp \in Discovering
BY DEF CmTypeOK, CmIdle, Importing, Discovering, Open

LEMMA Element == ASSUME NEW S, NEW s \in Seq(S), NEW i \in 1 .. Len(s) PROVE s[i] \in S
OBVIOUS

LEMMA TheLine ==
    ASSUME CmTypeOK, Open, imp.at \in 1 .. Len(imp.file)
    PROVE  Line \in Lines
<1>1. imp.file \in Files
  BY ImpKinds DEF Importing
<1>2. imp.file \in Seq(Lines)
  BY <1>1, CmAssumption
<1>. QED
  BY <1>2, Element DEF Line

LEMMA InitCm == CmInit => CmInv
<1> SUFFICES ASSUME CmInit PROVE CmInv
  OBVIOUS
<1>1. PICK n \in Names : lookups = {[id |-> 1, name |-> n]}
  BY DEF CmInit
<1>2. 1 \in Keys
  BY CmAssumption DEF Keys
<1>3. CmTypeOK
  BY <1>1, <1>2 DEF CmInit, CmTypeOK, LookupRow, AssetRow, CmIdle
<1>4. ~Open
  BY DEF CmInit, CmIdle, Open
<1>. QED
  BY <1>1, <1>3, <1>4 DEF CmInit, CmInv, CmIdle, OneFound, Open, Reading, Pending, KeysUsed, NamesApart, WrittenFits, AllWritten

(* Nothing of an import is left.                                           *)
LEMMA ClosedKeeps ==
    ASSUME CmTypeOK', OneFound', ~Open', \A l \in lookups' : l.id <= usedKeys'
    PROVE  CmInv'
BY DEF CmInv, Open, Reading, Pending, KeysUsed, NamesApart, WrittenFits, AllWritten

-----------------------------------------------------------------------------
(* Requests for single rows.                                               *)

LEMMA OutsideKeeps ==
    ASSUME CmInv, CmTypeOK', imp' = imp,
           usedKeys <= usedKeys', \A l \in lookups' : l.id <= usedKeys',
           Open => \A l \in lookups', m \in imp.newNames : l.id # m.id /\ l.name # m.name,
           Open => \A w \in imp.written :
              /\ w.type \in {l.id : l \in lookups' \cup imp.newNames} \cup {0}
              /\ w.id = 0 => \A x \in assets' : x.tag # w.tag
              /\ w.id # 0 => \A x \in assets : x.id = w.id =>
                                \E y \in assets' : y.id = x.id /\ y.tag = x.tag
    PROVE  CmInv'
<1>1. Open' = Open
  BY DEF Open
<1>2. Reading' /\ Pending'
  BY <1>1 DEF CmInv, Reading, Pending, Known, Line, SameRow
<1>0. OneFound'
  BY DEF CmInv, OneFound
<1>3. KeysUsed'
  <2>1. ASSUME Open, NEW l \in imp.map PROVE l.id <= usedKeys'
    <3>1. l.id \in Nat /\ usedKeys \in Nat /\ usedKeys' \in Nat
      BY <2>1, ImpKinds DEF CmInv, CmTypeOK, Importing, LookupRow, Keys
    <3>2. l.id <= usedKeys
      BY <2>1 DEF CmInv, KeysUsed
    <3>. QED
      BY <3>1, <3>2
  <2>. QED
    BY <2>1, <1>1 DEF KeysUsed
<1>4. NamesApart'
  BY <1>1 DEF NamesApart
<1>5. WrittenFits'
  BY <1>1 DEF CmInv, WrittenFits, Fits
<1>6. AllWritten'
  <2>1. AllRead(imp)' = AllRead(imp)
    <3>1. AllRead(imp)' = AllRead(imp')
      BY DEF AllRead, HasRow, From
    <3>. QED
      BY <3>1
  <2>. QED
    BY <1>1, <2>1 DEF CmInv, AllWritten
<1>. QED
  BY <1>0, <1>2, <1>3, <1>4, <1>5, <1>6 DEF CmInv

LEMMA RowTypes ==
    ASSUME CmTypeOK
    PROVE  /\ \A x \in assets : x.id \in AssetIds /\ x.tag \in Tags /\ x.ip \in Ips \cup {NoIp}
                                /\ x.type \in Keys \cup {0} /\ x.id \in Nat \ {0}
           /\ \A l \in lookups : l.id \in Keys /\ l.name \in Names /\ l.id \in Nat \ {0}
           /\ usedKeys \in Nat
           /\ TypeIds \subseteq Keys \cup {0}
<1>1. Keys \subseteq Nat \ {0}
  BY CmAssumption DEF Keys
<1>2. \A x \in assets : x \in AssetRow
  BY DEF CmTypeOK
<1>3. \A l \in lookups : l \in LookupRow
  BY DEF CmTypeOK
<1>4. \A l \in lookups : l.id \in Keys /\ l.name \in Names
  BY <1>3 DEF LookupRow
<1>5. \A x \in assets : x.id \in AssetIds /\ x.tag \in Tags /\ x.ip \in Ips \cup {NoIp}
                        /\ x.type \in Keys \cup {0}
  BY <1>2 DEF AssetRow
<1>6. usedKeys \in Keys
  BY DEF CmTypeOK
<1>7. AssetIds \subseteq Nat \ {0}
  BY CmAssumption
<1>. QED
  BY <1>1, <1>4, <1>5, <1>6, <1>7 DEF TypeIds

LEMMA CreateLookupKeeps ==
    ASSUME CmInv, NEW n \in Names, CreateLookup(n)
    PROVE  CmInv'
<1> DEFINE new == [id |-> usedKeys + 1, name |-> n]
<1>0. CmTypeOK
  BY DEF CmInv
<1>1. lookups' = lookups \cup {new} /\ UNCHANGED <<assets, imp>> /\ usedKeys' = usedKeys + 1
  BY DEF CreateLookup
<1>2. new \in LookupRow /\ usedKeys' \in Keys
  BY <1>0, <1>1, RowTypes, CmAssumption DEF CreateLookup, LookupRow, Keys
<1>3. \A l \in lookups : l.id < new.id /\ l.name # new.name
  BY <1>0, RowTypes DEF CmInv, KeysUsed, CreateLookup
<1>4. CmTypeOK'
  BY <1>0, <1>1, <1>2, <1>3, RowTypes DEF CmTypeOK
<1>5. \A l \in lookups' : l.id <= usedKeys'
  BY <1>0, <1>1, <1>3, RowTypes
<1>6. ASSUME Open, NEW m \in imp.newNames PROVE new.id # m.id /\ new.name # m.name
  <2>1. m \in imp.map /\ m.id \in Nat
    BY <1>0, <1>6, ImpKinds DEF CmInv, Reading, Importing, LookupRow, Keys
  <2>2. m.id <= usedKeys
    BY <1>6, <2>1 DEF CmInv, KeysUsed
  <2>. QED
    BY <1>0, <1>6, <2>1, <2>2, RowTypes DEF CreateLookup, FreeName
<1>7. Open => \A l \in lookups', m \in imp.newNames : l.id # m.id /\ l.name # m.name
  BY <1>1, <1>6 DEF CmInv, NamesApart
<1>8. Open => \A w \in imp.written :
              /\ w.type \in {l.id : l \in lookups' \cup imp.newNames} \cup {0}
              /\ w.id = 0 => \A x \in assets' : x.tag # w.tag
              /\ w.id # 0 => \A x \in assets : x.id = w.id =>
                                \E y \in assets' : y.id = x.id /\ y.tag = x.tag
  BY <1>1 DEF CmInv, WrittenFits, Fits
<1>. QED
  BY <1>0, <1>1, <1>4, <1>5, <1>7, <1>8, OutsideKeeps, RowTypes

LEMMA UpdateLookupKeeps ==
    ASSUME CmInv, NEW o \in lookups, NEW n \in Names, UpdateLookup(o, n)
    PROVE  CmInv'
<1> DEFINE new == [o EXCEPT !.name = n]
<1>0. CmTypeOK
  BY DEF CmInv
<1>1. lookups' = (lookups \ {o}) \cup {new} /\ UNCHANGED <<assets, imp, usedKeys>>
  BY DEF UpdateLookup
<1>2. new \in LookupRow /\ new.id = o.id /\ new.name = n
  BY <1>0 DEF CmTypeOK, LookupRow
<1>3. \A m \in lookups \ {o} : m.id # new.id /\ m.name # new.name
  BY <1>0, <1>2 DEF CmTypeOK, UpdateLookup
<1>4. {l.id : l \in lookups'} = {l.id : l \in lookups}
  BY <1>1, <1>2
<1>5. CmTypeOK'
  BY <1>0, <1>1, <1>2, <1>3, <1>4 DEF CmTypeOK
<1>6. \A l \in lookups' : l.id <= usedKeys'
  BY <1>1, <1>2 DEF CmInv, KeysUsed
<1>7. Open => \A l \in lookups', m \in imp.newNames : l.id # m.id /\ l.name # m.name
  BY <1>1, <1>2 DEF CmInv, NamesApart, UpdateLookup, FreeName
<1>8. \A l \in lookups : \E m \in lookups' : m.id = l.id
  BY <1>1, <1>2
<1>9. Open => \A w \in imp.written :
              /\ w.type \in {l.id : l \in lookups' \cup imp.newNames} \cup {0}
              /\ w.id = 0 => \A x \in assets' : x.tag # w.tag
              /\ w.id # 0 => \A x \in assets : x.id = w.id =>
                                \E y \in assets' : y.id = x.id /\ y.tag = x.tag
  BY <1>1, <1>8 DEF CmInv, WrittenFits, Fits
<1>. QED
  BY <1>0, <1>1, <1>5, <1>6, <1>7, <1>9, OutsideKeeps, RowTypes

LEMMA DeleteLookupKeeps ==
    ASSUME CmInv, NEW o \in lookups, DeleteLookup(o)
    PROVE  CmInv'
<1>0. CmTypeOK
  BY DEF CmInv
<1>1. lookups' = lookups \ {o} /\ UNCHANGED <<imp, usedKeys>> /\ assets' = Unreferred(o)
  BY DEF DeleteLookup
<1> DEFINE Cut(x) == [x EXCEPT !.type = IF @ = o.id THEN 0 ELSE @]
<1>2. \A x \in assets : /\ Cut(x) \in AssetRow
                        /\ Cut(x).id = x.id /\ Cut(x).tag = x.tag /\ Cut(x).ip = x.ip
                        /\ Cut(x).type = IF x.type = o.id THEN 0 ELSE x.type
  BY <1>0 DEF CmTypeOK, AssetRow
<1>3. assets' = {Cut(x) : x \in assets}
  BY <1>1 DEF Unreferred
<1>. HIDE DEF Cut
<1>4. \A x, y \in assets' : x # y => x.id # y.id /\ x.tag # y.tag
  BY <1>0, <1>2, <1>3 DEF CmTypeOK
<1>5. \A y \in assets' : y.type # 0 => y.type \in {l.id : l \in lookups'}
  BY <1>0, <1>1, <1>2, <1>3 DEF CmTypeOK
<1>6. CmTypeOK'
  BY <1>0, <1>1, <1>2, <1>3, <1>4, <1>5 DEF CmTypeOK
<1>7. \A l \in lookups' : l.id <= usedKeys'
  BY <1>1 DEF CmInv, KeysUsed
<1>8. Open => \A l \in lookups', m \in imp.newNames : l.id # m.id /\ l.name # m.name
  BY <1>1 DEF CmInv, NamesApart
<1>9. Open => \A w \in imp.written :
              /\ w.type \in {l.id : l \in lookups' \cup imp.newNames} \cup {0}
              /\ w.id = 0 => \A x \in assets' : x.tag # w.tag
              /\ w.id # 0 => \A x \in assets : x.id = w.id =>
                                \E y \in assets' : y.id = x.id /\ y.tag = x.tag
  BY <1>1, <1>2, <1>3 DEF CmInv, WrittenFits, Fits, DeleteLookup, Unused
<1>. QED
  BY <1>0, <1>1, <1>6, <1>7, <1>8, <1>9, OutsideKeeps, RowTypes

(* Asset rows change, the lookup table does not.                           *)
LEMMA AssetsKeep ==
    ASSUME CmInv, UNCHANGED <<lookups, usedKeys, imp>>,
           assets' \subseteq AssetRow,
           \A x, y \in assets' : x # y => x.id # y.id /\ x.tag # y.tag,
           \A x \in assets' : x.type \in TypeIds,
           \A x \in assets' \ assets : Free(x.tag),
           \A x \in assets \ assets' : Unlocked(x.id)
    PROVE  CmInv'
<1>0. CmTypeOK
  BY DEF CmInv
<1>1. CmTypeOK'
  BY <1>0 DEF CmTypeOK, TypeIds
<1>2. Open => \A w \in imp.written :
              /\ w.type \in {l.id : l \in lookups' \cup imp.newNames} \cup {0}
              /\ w.id = 0 => \A x \in assets' : x.tag # w.tag
              /\ w.id # 0 => \A x \in assets : x.id = w.id =>
                                \E y \in assets' : y.id = x.id /\ y.tag = x.tag
  BY DEF CmInv, WrittenFits, Fits, Free, Unlocked
<1>. QED
  BY <1>0, <1>1, <1>2, OutsideKeeps, RowTypes DEF CmInv, KeysUsed, NamesApart

LEMMA CreateAssetKeeps ==
    ASSUME CmInv, NEW g \in Tags, NEW i \in Ips \cup {NoIp}, NEW k \in TypeIds, CreateAsset(g, i, k)
    PROVE  CmInv'
<1>0. CmTypeOK
  BY DEF CmInv
<1>1. PICK a \in AssetIds : NextId(a) /\ assets' = assets \cup {[id |-> a, tag |-> g, ip |-> i, type |-> k]}
  BY DEF CreateAsset
<1>2. [id |-> a, tag |-> g, ip |-> i, type |-> k] \in AssetRow
  BY <1>0, RowTypes DEF AssetRow
<1>3. \A x \in assets : x.id # a /\ x.tag # g /\ x.type \in TypeIds
  BY <1>0, <1>1 DEF NextId, FreshIds, CreateAsset, CmTypeOK, TypeIds
<1>4. \A x, y \in assets' : x # y => x.id # y.id /\ x.tag # y.tag
  BY <1>0, <1>1, <1>3 DEF CmTypeOK
<1>5. \A x \in assets' : x.type \in TypeIds
  BY <1>1, <1>3
<1>6. assets' \subseteq AssetRow
  BY <1>0, <1>1, <1>2 DEF CmTypeOK
<1>7. \A x \in assets' \ assets : Free(x.tag)
  BY <1>1 DEF CreateAsset
<1>8. \A x \in assets \ assets' : Unlocked(x.id)
  BY <1>1
<1>. QED
  BY <1>4, <1>5, <1>6, <1>7, <1>8, AssetsKeep DEF CreateAsset

LEMMA UpdateAssetKeeps ==
    ASSUME CmInv, NEW x \in assets, NEW g \in Tags, NEW i \in Ips \cup {NoIp}, NEW k \in TypeIds,
           UpdateAsset(x, g, i, k)
    PROVE  CmInv'
<1>0. CmTypeOK
  BY DEF CmInv
<1> DEFINE row == [id |-> x.id, tag |-> g, ip |-> i, type |-> k]
<1>1. assets' = (assets \ {x}) \cup {row}
  BY DEF UpdateAsset
<1>2. row \in AssetRow
  BY <1>0, RowTypes DEF AssetRow
<1>3. \A y \in assets \ {x} : y.id # row.id /\ y.tag # row.tag
  BY <1>0 DEF CmTypeOK, UpdateAsset
<1>4. \A y, z \in assets' : y # z => y.id # z.id /\ y.tag # z.tag
  BY <1>0, <1>1, <1>3 DEF CmTypeOK
<1>5. \A y \in assets' : y.type \in TypeIds
  BY <1>0, <1>1 DEF CmTypeOK, TypeIds
<1>6. assets' \subseteq AssetRow
  BY <1>0, <1>1, <1>2 DEF CmTypeOK
<1>7. \A y \in assets' \ assets : Free(y.tag)
  BY <1>1 DEF UpdateAsset
<1>8. \A y \in assets \ assets' : Unlocked(y.id)
  BY <1>1 DEF UpdateAsset
<1>. QED
  BY <1>4, <1>5, <1>6, <1>7, <1>8, AssetsKeep DEF UpdateAsset

LEMMA DeleteAssetsKeeps ==
    ASSUME CmInv, NEW S \in SUBSET assets, DeleteAssets(S)
    PROVE  CmInv'
<1>1. assets' = assets \ S /\ \A x \in assets \ assets' : Unlocked(x.id)
  BY DEF DeleteAssets
<1>2. \A x \in assets' : x.type \in TypeIds
  BY <1>1 DEF CmInv, CmTypeOK, TypeIds
<1>. QED
  BY <1>1, <1>2, AssetsKeep DEF DeleteAssets, CmInv, CmTypeOK

-----------------------------------------------------------------------------
(* Lines of an import.                                                     *)

LEMMA ImportFields ==
    ASSUME NEW d \in Importing
    PROVE  /\ d.pc \in {"read", "write"} /\ d.file \in Files /\ d.at \in Nat
           /\ d.map \in SUBSET LookupRow /\ d.newNames \in SUBSET LookupRow
           /\ d.written \in SUBSET Row /\ d.found \in SUBSET Row /\ d.failed \in Nat
           /\ d.broken \in BOOLEAN /\ d.crossed \in SUBSET Tags
BY DEF Importing

LEMMA NextLineFields ==
    ASSUME NEW d \in Importing
    PROVE  /\ NextLine(d) \in Importing
           /\ NextLine(d).pc = "read" /\ NextLine(d).file = d.file /\ NextLine(d).at = d.at + 1
           /\ NextLine(d).map = d.map /\ NextLine(d).newNames = d.newNames
           /\ NextLine(d).written = d.written /\ NextLine(d).found = {}
           /\ NextLine(d).failed = d.failed /\ NextLine(d).broken = d.broken
           /\ NextLine(d).crossed = d.crossed
<1>1. NextLine(d) = [d EXCEPT !.pc = "read", !.at = d.at + 1, !.found = {}]
  BY DEF NextLine
<1>2. d.at + 1 \in Nat
  BY ImportFields
<1>3. PICK n \in Nat : n = d.at + 1
  BY <1>2
<1>4. NextLine(d) = [d EXCEPT !.pc = "read", !.at = n, !.found = {}]
  BY <1>1, <1>3
<1>5. /\ NextLine(d) \in Importing
      /\ NextLine(d).pc = "read" /\ NextLine(d).file = d.file /\ NextLine(d).at = n
      /\ NextLine(d).map = d.map /\ NextLine(d).newNames = d.newNames
      /\ NextLine(d).written = d.written /\ NextLine(d).found = {}
      /\ NextLine(d).failed = d.failed /\ NextLine(d).broken = d.broken
      /\ NextLine(d).crossed = d.crossed
  BY <1>4 DEF Importing
<1>. QED
  BY <1>3, <1>5

LEMMA FailedFields ==
    ASSUME NEW d \in Importing
    PROVE  /\ Failed(d) \in Importing
           /\ Failed(d).pc = "read" /\ Failed(d).file = d.file /\ Failed(d).at = d.at + 1
           /\ Failed(d).map = d.map /\ Failed(d).newNames = d.newNames
           /\ Failed(d).written = d.written /\ Failed(d).failed = d.failed + 1
<1>1. /\ [d EXCEPT !.failed = @ + 1] \in Importing
      /\ [d EXCEPT !.failed = @ + 1].failed = d.failed + 1
      /\ [d EXCEPT !.failed = @ + 1].file = d.file /\ [d EXCEPT !.failed = @ + 1].at = d.at
      /\ [d EXCEPT !.failed = @ + 1].map = d.map
      /\ [d EXCEPT !.failed = @ + 1].newNames = d.newNames
      /\ [d EXCEPT !.failed = @ + 1].written = d.written
  BY DEF Importing
<1>. QED
  BY <1>1, NextLineFields DEF Failed

LEMMA UndoneFields ==
    ASSUME NEW d \in Importing
    PROVE  /\ Undone(d) \in Importing
           /\ Undone(d).file = d.file /\ Undone(d).at = d.at /\ Undone(d).map = d.map
           /\ Undone(d).newNames = {} /\ Undone(d).written = {}
BY DEF Importing, Undone

(* Types that depend on the import alone.                                  *)
LEMMA ImportTyped ==
    ASSUME CmTypeOK, UNCHANGED <<assets, lookups>>, usedKeys' \in Keys, imp' \in Importing
    PROVE  CmTypeOK' /\ Open'
BY ImportFields DEF CmTypeOK, Open

(* A line that fails, with its transaction undone or not.                  *)
LEMMA FailedKeeps ==
    ASSUME CmInv, Open, imp.at <= Len(imp.file), UNCHANGED <<assets, lookups>>,
           usedKeys' \in Keys, usedKeys <= usedKeys',
           NEW d \in Importing, d.file = imp.file, d.at = imp.at,
           \A l, m \in d.map : l # m => l.id # m.id /\ l.name # m.name,
           \A l \in d.map : l.id <= usedKeys',
           \/ d.newNames = imp.newNames /\ d.written = imp.written /\ d.map = imp.map
           \/ d.newNames = {} /\ d.written = {},
           imp' = Failed(d)
    PROVE  CmInv'
<1>0. CmTypeOK
  BY DEF CmInv
<1>1. imp \in Importing
  BY <1>0, ImpKinds
<1>2. /\ imp' \in Importing /\ imp'.pc = "read" /\ imp'.file = imp.file /\ imp'.at = imp.at + 1
      /\ imp'.map = d.map /\ imp'.newNames = d.newNames /\ imp'.written = d.written
      /\ imp'.failed = d.failed + 1
  BY FailedFields
<1>3. CmTypeOK' /\ Open'
  BY <1>0, <1>2, ImportTyped
<1>4. Reading' /\ Pending'
  <2>1. imp.at \in 1 .. Len(imp.file) /\ Len(imp.file) \in Nat
    BY <1>1, ImportFields, CmAssumption DEF CmInv, Reading
  <2>2. d.newNames \subseteq d.map
    BY DEF CmInv, Reading
  <2>. QED
    BY <1>2, <2>1, <2>2 DEF Reading, Pending
<1>5. KeysUsed'
  <2>1. \A l \in lookups : l.id <= usedKeys'
    <3>1. usedKeys' \in Nat
      BY <1>3, RowTypes, CmAssumption DEF Keys
    <3>. QED
      BY <1>0, <3>1, RowTypes DEF CmInv, KeysUsed
  <2>. QED
    BY <1>2, <2>1 DEF KeysUsed
<1>6. NamesApart'
  BY <1>2 DEF CmInv, NamesApart
<1>7. WrittenFits'
  BY <1>2 DEF CmInv, WrittenFits, Fits
<1>8. AllWritten'
  BY <1>2, ImportFields DEF AllWritten
<1>. QED
  BY <1>2, <1>3, <1>4, <1>5, <1>6, <1>7, <1>8 DEF CmInv, OneFound

LEMMA SkipLineKeeps == ASSUME CmInv, SkipLine PROVE CmInv'
<1>0. CmTypeOK /\ Open
  BY DEF CmInv, SkipLine, Open
<1>1. imp \in Importing
  BY <1>0, ImpKinds
<1>2. usedKeys' = usedKeys /\ usedKeys \in Keys /\ usedKeys \in Nat
  BY <1>0, RowTypes DEF SkipLine, CmTypeOK
<1>3. \A l, m \in imp.map : l # m => l.id # m.id /\ l.name # m.name
  BY <1>0 DEF CmInv, Reading
<1>4. \A l \in imp.map : l.id <= usedKeys'
  BY <1>0, <1>2 DEF CmInv, KeysUsed
<1>. QED
  BY <1>0, <1>1, <1>2, <1>3, <1>4, FailedKeeps DEF SkipLine

(* The lookup row a line creates, if it does.                              *)
Creates(new) ==
    /\ ~NameTaken
    /\ new = IF Known = {} THEN {[id |-> usedKeys + 1, name |-> Line.type]} ELSE {}
    /\ new # {} => usedKeys < MaxLookup
    /\ usedKeys' = usedKeys + Cardinality(new)

LEMMA NewName ==
    ASSUME CmInv, Open, imp.at \in 1 .. Len(imp.file), NEW new, Creates(new)
    PROVE  /\ new \subseteq LookupRow
           /\ usedKeys' \in Keys /\ usedKeys <= usedKeys'
           /\ \A l, m \in imp.map \cup new : l # m => l.id # m.id /\ l.name # m.name
           /\ \A l \in imp.map \cup new : l.id <= usedKeys'
           /\ \A l \in lookups, m \in new : l.id # m.id /\ l.name # m.name
           /\ \A l \in Known \cup new : l.name = Line.type /\ l \in imp.map \cup new /\ l \in LookupRow
           /\ Known \cup new # {}
<1>0. CmTypeOK
  BY DEF CmInv
<1>1. imp \in Importing /\ Line.type \in Names
  BY <1>0, ImpKinds, TheLine DEF Lines
<1>2. /\ \A l \in imp.map : l \in LookupRow /\ l.id \in Nat /\ l.id <= usedKeys
      /\ \A l \in lookups : l.id \in Nat /\ l.id <= usedKeys
      /\ usedKeys \in Nat /\ usedKeys \in Keys /\ MaxLookup \in Nat
  <2>1. \A l \in imp.map : l \in LookupRow /\ l.id <= usedKeys
    BY <1>0, <1>1, ImportFields DEF CmInv, KeysUsed
  <2>2. \A l \in LookupRow : l.id \in Nat
    BY DEF LookupRow, Keys
  <2>3. \A l \in lookups : l.id \in Nat /\ l.id <= usedKeys
    BY <1>0, RowTypes DEF CmInv, KeysUsed
  <2>. QED
    BY <1>0, <2>1, <2>2, <2>3, RowTypes, CmAssumption DEF CmTypeOK
<1>3. \A l, m \in imp.map : l # m => l.id # m.id /\ l.name # m.name
  BY <1>0 DEF CmInv, Reading
<1>4. \A l \in Known : l \in imp.map /\ l.name = Line.type
  BY DEF Known
<1>5. CASE new = {}
  <2>0. Cardinality(new) = 0
    BY <1>5, FS_EmptySet
  <2>1. usedKeys' = usedKeys
    BY <1>2, <2>0 DEF Creates
  <2>2. Known # {}
    <3> DEFINE row == [id |-> usedKeys + 1, name |-> Line.type]
    <3>0. new = IF Known = {} THEN {row} ELSE {}
      BY DEF Creates
    <3>. HIDE DEF row
    <3>1. Known = {} => row \in new
      BY <3>0
    <3>. QED
      BY <1>5, <3>1
  <2>4. imp.map \cup new = imp.map /\ Known \cup new = Known /\ new \subseteq LookupRow
    BY <1>5
  <2>5. usedKeys' \in Keys /\ usedKeys <= usedKeys'
    BY <1>2, <2>1
  <2>6. \A l \in imp.map \cup new : l.id <= usedKeys'
    BY <1>2, <2>1, <2>4
  <2>7. \A l \in Known \cup new : l.name = Line.type /\ l \in imp.map \cup new /\ l \in LookupRow
    BY <1>2, <1>4, <2>4
  <2>. QED
    BY <1>3, <1>5, <2>2, <2>4, <2>5, <2>6, <2>7
<1>6. CASE new # {}
  <2> DEFINE row == [id |-> usedKeys + 1, name |-> Line.type]
  <2>1. new = {row} /\ Known = {} /\ ~NameTaken
    BY <1>6 DEF Creates
  <2>2. row \in LookupRow /\ row.id = usedKeys + 1 /\ row.name = Line.type
    BY <1>1, <1>2, <1>6 DEF Creates, LookupRow, Keys
  <2>. HIDE DEF row
  <2>3. Cardinality(new) = 1
    BY <2>1, FS_Singleton
  <2>4. usedKeys' = usedKeys + 1
    BY <2>3 DEF Creates
  <2>5. usedKeys' \in Keys /\ usedKeys <= usedKeys'
    BY <1>2, <1>6, <2>4 DEF Creates, Keys
  <2>6. \A l \in imp.map : l.id # row.id /\ l.name # row.name
    BY <1>2, <2>1, <2>2 DEF Known
  <2>7. \A l \in lookups : l.id # row.id /\ l.name # row.name
    BY <1>2, <2>1, <2>2 DEF NameTaken
  <2>8. \A l, m \in imp.map \cup new : l # m => l.id # m.id /\ l.name # m.name
    BY <1>3, <2>1, <2>6
  <2>9. \A l \in imp.map \cup new : l.id <= usedKeys'
    <3>1. ASSUME NEW l \in imp.map PROVE l.id <= usedKeys'
      BY <1>2, <2>4
    <3>2. row.id <= usedKeys'
      BY <1>2, <2>2, <2>4
    <3>. QED
      BY <2>1, <3>1, <3>2
  <2>. QED
    BY <2>1, <2>2, <2>5, <2>7, <2>8, <2>9
<1>. QED
  BY <1>5, <1>6

(* What the open transaction sees: no two rows are for the same asset, and *)
(* each can be committed.                                                  *)
LEMMA ViewRows ==
    ASSUME CmInv, Open
    PROVE  /\ View \subseteq Row /\ imp.written \subseteq View
           /\ \A x, y \in View : SameRow(x, y) => x = y
           /\ \A x \in View : /\ x.type \in {l.id : l \in lookups \cup imp.newNames} \cup {0}
                              /\ x.id = 0 => x \in imp.written
                              /\ x.id # 0 => \E y \in assets : y.id = x.id /\ y.tag = x.tag
<1>0. CmTypeOK
  BY DEF CmInv
<1>1. imp.written \subseteq Row
  BY <1>0, ImpKinds, ImportFields
<1>2. assets \subseteq Row /\ \A x \in assets : x.id # 0
  BY <1>0, RowTypes DEF CmTypeOK, AssetRow, Row
<1>3. /\ \A w \in imp.written : Fits(w)
      /\ \A v, w \in imp.written : v # w => v.id # w.id \/ (v.id = 0 /\ v.tag # w.tag)
  BY DEF CmInv, WrittenFits
<1>4. \A x \in View : x \in imp.written \/ (x \in assets /\ \A w \in imp.written : w.id # x.id)
  BY DEF View
<1>5. ASSUME NEW x \in View, NEW y \in View, SameRow(x, y) PROVE x = y
  <2>1. x.id = y.id /\ (y.id = 0 => x.tag = y.tag)
    BY <1>5 DEF SameRow
  <2>2. CASE x \in imp.written /\ y \in imp.written
    BY <1>3, <2>1, <2>2
  <2>3. CASE x \notin imp.written /\ y \notin imp.written
    BY <1>0, <1>4, <2>1, <2>3 DEF CmTypeOK
  <2>. QED
    BY <1>4, <2>1, <2>2, <2>3
<1>6. ASSUME NEW x \in View
      PROVE  /\ x.type \in {l.id : l \in lookups \cup imp.newNames} \cup {0}
             /\ x.id = 0 => x \in imp.written
             /\ x.id # 0 => \E y \in assets : y.id = x.id /\ y.tag = x.tag
  <2>1. CASE x \in imp.written
    BY <1>3, <2>1 DEF Fits
  <2>2. CASE x \in assets
    BY <1>0, <1>2, <2>2 DEF CmTypeOK
  <2>. QED
    BY <1>4, <2>1, <2>2
<1>. QED
  BY <1>1, <1>2, <1>4, <1>5, <1>6 DEF View

LEMMA RolledBackKeeps ==
    ASSUME CmInv, Open, imp.at \in 1 .. Len(imp.file), UNCHANGED <<assets, lookups, usedKeys>>,
           NEW d \in Importing, d.file = imp.file, d.at = imp.at, d.map = imp.map,
           imp' = Failed(Undone(d))
    PROVE  CmInv'
<1>0. CmTypeOK
  BY DEF CmInv
<1>1. PICK e : e = Undone(d)
  OBVIOUS
<1>2. /\ e \in Importing /\ e.file = imp.file /\ e.at = imp.at /\ e.map = imp.map
      /\ e.newNames = {} /\ e.written = {} /\ imp' = Failed(e)
  BY <1>1, UndoneFields
<1>3. usedKeys' \in Keys /\ usedKeys \in Nat
  BY <1>0, RowTypes DEF CmTypeOK
<1>4. /\ \A l, m \in imp.map : l # m => l.id # m.id /\ l.name # m.name
      /\ \A l \in imp.map : l.id <= usedKeys'
  BY DEF CmInv, Reading, KeysUsed
<1>5. Len(imp.file) \in Nat
  BY <1>0, ImpKinds, ImportFields, CmAssumption
<1>. QED
  BY <1>2, <1>3, <1>4, <1>5, FailedKeeps

(* A line is read: new is the lookup row it creates, S what its query has  *)
(* loaded.                                                                 *)
LEMMA ReadKeeps ==
    ASSUME CmInv, Open, imp.at \in 1 .. Len(imp.file), ~imp.broken,
           NEW new, Creates(new), NEW S \in First({x \in View : x.tag = Line.tag}),
           UNCHANGED <<assets, lookups>>, imp' \in Importing,
           imp'.pc = "write", imp'.file = imp.file, imp'.at = imp.at, imp'.found = S,
           imp'.map = imp.map \cup new, imp'.newNames = imp.newNames \cup new,
           imp'.written = imp.written, imp'.failed = imp.failed, imp'.broken = imp.broken,
           imp'.crossed = imp.crossed
    PROVE  CmInv'
<1>0. CmTypeOK
  BY DEF CmInv
<1>1. /\ usedKeys' \in Keys /\ usedKeys <= usedKeys'
      /\ \A k, m \in imp.map \cup new : k # m => k.id # m.id /\ k.name # m.name
      /\ \A k \in imp.map \cup new : k.id <= usedKeys'
      /\ \A k \in lookups, m \in new : k.id # m.id /\ k.name # m.name
      /\ \A k \in Known \cup new : k.name = Line.type /\ k \in imp.map \cup new
      /\ Known \cup new # {}
  BY NewName
<1>2. CmTypeOK' /\ Open'
  BY <1>0, <1>1, ImportTyped
<1>3. Reading'
  <2>1. imp'.newNames \subseteq imp'.map
    BY DEF CmInv, Reading
  <2>2. Len(imp.file) \in Nat
    BY <1>0, ImpKinds, ImportFields, CmAssumption
  <2>. QED
    BY <1>1, <2>1, <2>2 DEF Reading
<1>4. Line' = Line
  BY DEF Line
<1>5. Pending'
  <2>1. Known' # {}
    BY <1>1, <1>4 DEF Known
  <2>2. \/ S = {} /\ \A x \in View : x.tag # Line.tag
        \/ \E x \in View : S = {x} /\ x.tag = Line.tag
    BY DEF First
  <2>3. imp.written \subseteq View /\ \A x, y \in View : SameRow(x, y) => x = y
    BY ViewRows
  <2>. QED
    BY <1>4, <2>1, <2>2, <2>3 DEF Pending, SameRow
<1>6. KeysUsed'
  <2>1. usedKeys' \in Nat
    BY <1>1, CmAssumption DEF Keys
  <2>2. \A m \in lookups : m.id <= usedKeys'
    BY <1>0, <1>1, <2>1, RowTypes DEF CmInv, KeysUsed
  <2>. QED
    BY <1>1, <2>2 DEF KeysUsed
<1>7. NamesApart'
  BY <1>1 DEF CmInv, NamesApart
<1>8. WrittenFits'
  <2>1. ASSUME NEW w \in imp.written PROVE Fits(w)'
    BY <2>1 DEF CmInv, WrittenFits, Fits
  <2>. QED
    BY <2>1 DEF CmInv, WrittenFits
<1>9. AllWritten'
  <2>1. ASSUME NEW w \in imp.written, NEW m, From(imp, w, m) PROVE From(imp', w, m)
    BY <2>1 DEF From
  <2>2. ASSUME AllRead(imp) PROVE AllRead(imp')
    BY <2>1, <2>2 DEF AllRead, HasRow
  <2>3. AllRead(imp)' = AllRead(imp')
    BY DEF AllRead, HasRow, From
  <2>. QED
    BY <2>2, <2>3 DEF CmInv, AllWritten
<1>. QED
  BY <1>2, <1>3, <1>5, <1>6, <1>7, <1>8, <1>9 DEF CmInv, OneFound

LEMMA ReadLineKeeps == ASSUME CmInv, ReadLine PROVE CmInv'
<1>0. /\ CmTypeOK /\ Open /\ ~imp.broken /\ UNCHANGED <<assets, lookups>>
      /\ imp.at \in 1 .. Len(imp.file)
  <2>1. CmTypeOK /\ Open /\ imp.at \in 1 .. Len(imp.file) + 1 /\ imp.at <= Len(imp.file)
    BY DEF CmInv, ReadLine, Open, Reading
  <2>2. Len(imp.file) \in Nat
    BY <2>1, ImpKinds, ImportFields, CmAssumption
  <2>3. ~imp.broken /\ UNCHANGED <<assets, lookups>>
    BY DEF ReadLine
  <2>. QED
    BY <2>1, <2>2, <2>3
<1>1. imp \in Importing
  BY <1>0, ImpKinds
<1>2. CASE NameTaken
  BY <1>0, <1>1, <1>2, RolledBackKeeps DEF ReadLine, RolledBack
<1>3. CASE ~NameTaken
  <2> DEFINE made == IF Known = {} THEN {[id |-> usedKeys + 1, name |-> Line.type]} ELSE {}
  <2>1. PICK new : new = made
    OBVIOUS
  <2>2. Creates(new)
    BY <1>3, <2>1 DEF ReadLine, Creates
  <2>3. PICK S \in First({x \in View : x.tag = Line.tag}) :
           imp' = [imp EXCEPT !.pc = "write", !.found = S,
                              !.map = imp.map \cup new, !.newNames = imp.newNames \cup new]
    BY <1>3, <2>1 DEF ReadLine
  <2>4. S \in SUBSET Row
    BY <1>0, ViewRows DEF First
  <2>5. new \subseteq LookupRow
    BY <1>0, <2>2, NewName
  <2>6. /\ imp' \in Importing /\ imp'.pc = "write" /\ imp'.file = imp.file /\ imp'.at = imp.at
        /\ imp'.found = S /\ imp'.map = imp.map \cup new /\ imp'.newNames = imp.newNames \cup new
        /\ imp'.written = imp.written /\ imp'.failed = imp.failed /\ imp'.broken = imp.broken
        /\ imp'.crossed = imp.crossed
    BY <1>1, <2>3, <2>4, <2>5 DEF Importing
  <2>. QED
    BY <1>0, <2>2, <2>6, ReadKeeps
<1>. QED
  BY <1>2, <1>3

(* A line is flushed: row is written, for the lookup row l.                *)
Flushed(l, row) ==
    /\ UNCHANGED <<assets, lookups, usedKeys>>
    /\ ~IdGone /\ ~TagTaken /\ ~AssetGone
    /\ Known = {l} /\ row \in Row
    /\ imp.found = {} => /\ row.id = 0 /\ row.tag = Line.tag /\ row.ip = Line.ip
                         /\ row.type = l.id
    /\ \A r \in imp.found, x \in RowNow :
          /\ row.id = x.id /\ row.tag = x.tag
          /\ row.ip = (IF Line.ip = r.ip THEN x.ip ELSE Line.ip)
          /\ row.type = (IF l.id = r.type THEN x.type ELSE l.id)
    /\ imp' \in Importing /\ imp'.pc = "read" /\ imp'.file = imp.file /\ imp'.at = imp.at + 1
    /\ imp'.map = imp.map /\ imp'.newNames = imp.newNames
    /\ imp'.written = (imp.written \ RowNow) \cup {row}
    /\ imp'.failed = imp.failed /\ imp'.broken = imp.broken
    /\ imp'.crossed = IF imp.found = RowNow THEN imp.crossed ELSE imp.crossed \cup {Line.tag}

(* What was found is found again.                                          *)
LEMMA FoundAgain ==
    ASSUME CmInv, imp.pc = "write", ~AssetGone
    PROVE  \/ imp.found = {} /\ RowNow = {} /\ \A w \in imp.written : w.tag # Line.tag
           \/ \E r, x : /\ imp.found = {r} /\ RowNow = {x} /\ x \in View
                        /\ r.tag = Line.tag /\ SameRow(x, r)
                        /\ x \in imp.written => x = r
<1>1. Open
  BY DEF Open
<1>2. Pending
  BY DEF CmInv
<1>3. CASE imp.found = {}
  BY <1>2, <1>3 DEF Pending, RowNow
<1>4. CASE imp.found # {}
  <2>1. PICK r : imp.found = {r}
    BY <1>2, <1>4 DEF Pending
  <2>2. RowNow # {}
    BY <1>4 DEF AssetGone
  <2>3. \A x \in RowNow : x \in View /\ SameRow(x, r)
    BY <2>1 DEF RowNow, SameRow
  <2>4. \A x, y \in RowNow : x = y
    <3>1. \A x, y \in RowNow : SameRow(x, y)
      BY <2>3 DEF SameRow
    <3>. QED
      BY <1>1, <2>3, <3>1, ViewRows
  <2>5. PICK x : RowNow = {x}
    BY <2>2, <2>4
  <2>. QED
    BY <1>2, <2>1, <2>3, <2>5 DEF Pending
<1>. QED
  BY <1>3, <1>4

LEMMA FlushedFits ==
    ASSUME CmInv, imp.pc = "write", NEW l, NEW row, Flushed(l, row)
    PROVE  /\ Fits(row)
           /\ \A v \in imp.written \ RowNow : v.id # row.id \/ (v.id = 0 /\ v.tag # row.tag)
<1>0. Open
  BY DEF Open
<1>1. ASSUME \A r \in imp.found : r.type # l.id
      PROVE  l.id \in {m.id : m \in lookups \cup imp.newNames}
  BY <1>1 DEF Flushed, IdGone
<1>2. CASE imp.found = {}
  <2>1. row.type \in {m.id : m \in lookups \cup imp.newNames}
    BY <1>1, <1>2 DEF Flushed
  <2>2. row.id = 0 /\ row.tag = Line.tag
    BY <1>2 DEF Flushed
  <2>3. \A x \in assets : x.tag # Line.tag
    BY <1>2 DEF Flushed, TagTaken
  <2>4. \A v \in imp.written : v.tag # Line.tag
    BY <1>2 DEF CmInv, Pending
  <2>. QED
    BY <2>1, <2>2, <2>3, <2>4 DEF Fits
<1>3. CASE imp.found # {}
  <2>1. PICK r, x : /\ imp.found = {r} /\ RowNow = {x} /\ x \in View
                    /\ r.tag = Line.tag /\ SameRow(x, r)
    BY <1>3, FoundAgain DEF Flushed
  <2>2. /\ row.id = x.id /\ row.tag = x.tag
        /\ row.type = (IF l.id = r.type THEN x.type ELSE l.id)
    BY <2>1 DEF Flushed
  <2>3. /\ x.type \in {m.id : m \in lookups \cup imp.newNames} \cup {0}
        /\ x.id = 0 => x \in imp.written
        /\ x.id # 0 => \E y \in assets : y.id = x.id /\ y.tag = x.tag
    BY <1>0, <2>1, ViewRows
  <2>4. row.type \in {m.id : m \in lookups \cup imp.newNames} \cup {0}
    BY <1>1, <2>1, <2>2, <2>3
  <2>5. row.id = 0 => \A y \in assets : y.tag # row.tag
    <3>1. \A w \in imp.written : w.id = 0 => \A y \in assets : y.tag # w.tag
      BY <1>0 DEF CmInv, WrittenFits, Fits
    <3>. QED
      BY <2>2, <2>3, <3>1
  <2>6. ASSUME NEW v \in imp.written \ RowNow PROVE v.id # row.id \/ (v.id = 0 /\ v.tag # row.tag)
    <3>1. v \in View /\ v # x
      BY <1>0, <2>1, ViewRows
    <3>2. ~SameRow(v, x)
      BY <1>0, <2>1, <3>1, ViewRows
    <3>. QED
      BY <2>2, <3>2 DEF SameRow
  <2>. QED
    BY <2>2, <2>3, <2>4, <2>5, <2>6 DEF Fits
<1>. QED
  BY <1>2, <1>3

(* The lines read so far have their rows, this one included.               *)
LEMMA FlushedRows ==
    ASSUME CmInv, imp.pc = "write", imp.at \in Nat, NEW l, NEW row, Flushed(l, row), AllRead(imp)
    PROVE  AllRead(imp')
<1>1. PICK W : W = imp'.written
  OBVIOUS
<1>2. /\ imp'.file = imp.file /\ imp'.at = imp.at + 1 /\ imp'.map = imp.map
      /\ imp'.written = W /\ W = (imp.written \ RowNow) \cup {row}
      /\ Known = {l} /\ l.name = Line.type /\ l \in imp.map
      /\ imp.crossed \subseteq imp'.crossed
  BY <1>1 DEF Flushed, Known
<1>3. imp.found # RowNow => Line.tag \in imp'.crossed
  BY DEF Flushed
<1>4. \/ imp.found = {} /\ RowNow = {}
      \/ \E r, x : imp.found = {r} /\ RowNow = {x} /\ r.tag = Line.tag /\ (x \in imp.written => x = r)
  BY FoundAgain DEF Flushed
<1>5. ASSUME imp.found = RowNow PROVE From(imp', row, imp.at)
  <2>1. row.tag = Line.tag /\ row.ip = Line.ip /\ row.type = l.id
    <3>1. CASE imp.found = {}
      BY <3>1 DEF Flushed
    <3>2. CASE imp.found # {}
      BY <1>4, <1>5, <3>2 DEF Flushed
    <3>. QED
      BY <3>1, <3>2
  <2>2. l = [id |-> l.id, name |-> l.name]
    <3>1. CmTypeOK /\ Open
      BY DEF CmInv, Open
    <3>2. l \in LookupRow
      BY <1>2, <3>1, ImpKinds, ImportFields
    <3>. QED
      BY <3>2 DEF LookupRow
  <2>. QED
    BY <1>2, <2>1, <2>2 DEF From, Line
<1>6. imp'.at - 1 = imp.at /\ imp'.file[imp.at] = Line
  BY <1>2 DEF Line
<1>7. \A w \in imp.written \cap RowNow : w.tag = Line.tag
  BY <1>4
<1>8. ASSUME NEW k \in 1 .. imp.at - 1, imp.file[k].tag \notin imp'.crossed PROVE HasRow(imp', k)
  <2>1. PICK m \in k .. imp.at - 1, w \in imp.written :
           imp.file[k].tag = imp.file[m].tag /\ From(imp, w, m)
    BY <1>2, <1>8 DEF AllRead, HasRow
  <2>2. CASE w \notin RowNow
    <3>1. From(imp', w, m)
      BY <1>2, <2>1 DEF From
    <3>2. w \in imp'.written /\ m \in k .. imp'.at - 1
      BY <1>2, <1>6, <2>1, <2>2
    <3>. QED
      BY <1>2, <2>1, <3>1, <3>2 DEF HasRow
  <2>3. CASE w \in RowNow
    <3>1. imp.file[k].tag = Line.tag
      BY <1>7, <2>1, <2>3 DEF From
    <3>2. imp.found = RowNow
      BY <1>3, <1>8, <3>1
    <3>3. From(imp', row, imp.at) /\ row \in imp'.written /\ imp.at \in k .. imp'.at - 1
      BY <1>2, <1>5, <1>6, <3>2
    <3>. QED
      BY <1>2, <1>6, <3>1, <3>3 DEF HasRow
  <2>. QED
    BY <2>2, <2>3
<1>9. ASSUME Line.tag \notin imp'.crossed PROVE HasRow(imp', imp.at)
  <2>1. From(imp', row, imp.at) /\ row \in imp'.written /\ imp.at \in imp.at .. imp'.at - 1
    BY <1>2, <1>3, <1>5, <1>6, <1>9
  <2>. QED
    BY <2>1 DEF HasRow
<1>10. \A k \in 1 .. imp'.at - 1 : k \in 1 .. imp.at - 1 \/ k = imp.at
  BY <1>6
<1>. QED
  BY <1>2, <1>6, <1>8, <1>9, <1>10 DEF AllRead

LEMMA FlushedKeeps ==
    ASSUME CmInv, imp.pc = "write", NEW l, NEW row, Flushed(l, row)
    PROVE  CmInv'
<1>1. PICK W : W = imp'.written
  OBVIOUS
<1>2. /\ UNCHANGED <<assets, lookups, usedKeys>>
      /\ W = (imp.written \ RowNow) \cup {row}
      /\ imp' \in Importing /\ imp'.pc = "read" /\ imp'.file = imp.file /\ imp'.at = imp.at + 1
      /\ imp'.map = imp.map /\ imp'.newNames = imp.newNames
      /\ imp'.written = W /\ imp'.failed = imp.failed /\ imp'.broken = imp.broken
  BY <1>1 DEF Flushed
<1>3. CmTypeOK /\ Open /\ imp.at \in 1 .. Len(imp.file) + 1 /\ imp.at <= Len(imp.file)
  BY DEF CmInv, Open, Reading
<1>4. Len(imp.file) \in Nat
  BY <1>3, ImpKinds, ImportFields, CmAssumption
<1>5. CmTypeOK' /\ Open'
  BY <1>2, <1>3, ImportTyped DEF CmTypeOK
<1>6. Reading' /\ Pending'
  BY <1>2, <1>3, <1>4 DEF CmInv, Reading, Pending
<1>7. KeysUsed' /\ NamesApart'
  BY <1>2, <1>3 DEF CmInv, KeysUsed, NamesApart
<1>8. WrittenFits'
  <2>1. ASSUME NEW w \in imp.written PROVE Fits(w)'
    BY <1>2, <1>3, <2>1 DEF CmInv, WrittenFits, Fits
  <2>2. Fits(row)'
    <3>1. Fits(row)
      BY FlushedFits
    <3>. QED
      BY <1>2, <3>1 DEF Fits
  <2>3. ASSUME NEW v \in W, NEW w \in W, v # w PROVE v.id # w.id \/ (v.id = 0 /\ v.tag # w.tag)
    <3>1. CASE v \in imp.written \ RowNow /\ w \in imp.written \ RowNow
      BY <1>3, <2>3, <3>1 DEF CmInv, WrittenFits
    <3>2. \A u \in imp.written \ RowNow : u.id # row.id \/ (u.id = 0 /\ u.tag # row.tag)
      BY FlushedFits
    <3>. QED
      BY <1>2, <2>3, <3>1, <3>2
  <2>. QED
    BY <1>2, <2>1, <2>2, <2>3 DEF WrittenFits
<1>9. AllWritten'
  <2>1. imp.failed = 0 => ~imp.broken /\ AllRead(imp)
    BY <1>3 DEF CmInv, AllWritten
  <2>2. imp.failed = 0 => AllRead(imp')
    BY <1>3, <2>1, FlushedRows
  <2>3. AllRead(imp)' = AllRead(imp')
    BY DEF AllRead, HasRow, From
  <2>. QED
    BY <1>2, <2>1, <2>2, <2>3 DEF AllWritten
<1>. QED
  BY <1>2, <1>5, <1>6, <1>7, <1>8, <1>9 DEF CmInv, OneFound

LEMMA WrittenFields ==
    ASSUME NEW x \in Row, NEW r \in Row, NEW g \in Tags, NEW i \in Ips \cup {NoIp},
           NEW k \in Keys \cup {0}
    PROVE  /\ Written(x, r, g, i, k) \in Row /\ Written(x, r, g, i, k).id = x.id
           /\ Written(x, r, g, i, k).tag = (IF g = r.tag THEN x.tag ELSE g)
           /\ Written(x, r, g, i, k).ip = (IF i = r.ip THEN x.ip ELSE i)
           /\ Written(x, r, g, i, k).type = (IF k = r.type THEN x.type ELSE k)
<1>1. PICK tag \in Tags : tag = (IF g = r.tag THEN x.tag ELSE g)
  BY DEF Row
<1>2. PICK ip \in Ips \cup {NoIp} : ip = (IF i = r.ip THEN x.ip ELSE i)
  BY DEF Row
<1>3. PICK type \in Keys \cup {0} : type = (IF k = r.type THEN x.type ELSE k)
  BY DEF Row
<1>4. Written(x, r, g, i, k) = [x EXCEPT !.tag = tag, !.ip = ip, !.type = type]
  BY <1>1, <1>2, <1>3 DEF Written
<1>5. /\ [x EXCEPT !.tag = tag, !.ip = ip, !.type = type] \in Row
      /\ [x EXCEPT !.tag = tag, !.ip = ip, !.type = type].id = x.id
      /\ [x EXCEPT !.tag = tag, !.ip = ip, !.type = type].tag = tag
      /\ [x EXCEPT !.tag = tag, !.ip = ip, !.type = type].ip = ip
      /\ [x EXCEPT !.tag = tag, !.ip = ip, !.type = type].type = type
  BY DEF Row
<1>. QED
  BY <1>1, <1>2, <1>3, <1>4, <1>5

LEMMA WriteLineKeeps == ASSUME CmInv, WriteLine PROVE CmInv'
<1>0. CmTypeOK /\ Open /\ imp.pc = "write" /\ UNCHANGED <<assets, lookups, usedKeys>>
  BY DEF CmInv, Open, WriteLine
<1>1. imp \in Importing
  BY <1>0, ImpKinds
<1>2. imp.at \in 1 .. Len(imp.file)
  <2>1. Len(imp.file) \in Nat
    BY <1>1, ImportFields, CmAssumption
  <2>. QED
    BY <1>0, <2>1 DEF CmInv, Reading
<1>3. Line \in Lines
  BY <1>0, <1>2, TheLine
<1>4. CASE imp' = RolledBack(imp)
  BY <1>0, <1>1, <1>2, <1>4, RolledBackKeeps DEF RolledBack
<1>5. CASE imp' = Failed(Undone([imp EXCEPT !.broken = TRUE]))
  <2>1. PICK b : b = [imp EXCEPT !.broken = TRUE]
    OBVIOUS
  <2>2. b \in Importing /\ b.file = imp.file /\ b.at = imp.at /\ b.map = imp.map
    BY <1>1, <2>1 DEF Importing
  <2>. QED
    BY <1>0, <1>2, <1>5, <2>1, <2>2, RolledBackKeeps
<1> DEFINE rows == IF imp.found = {}
                   THEN {[id |-> 0, tag |-> Line.tag, ip |-> Line.ip, type |-> l.id] : l \in Known}
                   ELSE {Written(x, r, Line.tag, Line.ip, l.id) : x \in RowNow, r \in imp.found, l \in Known}
           other == IF imp.found = RowNow THEN imp.crossed ELSE imp.crossed \cup {Line.tag}
<1>6. CASE /\ ~AssetGone /\ ~IdGone /\ ~TagTaken
           /\ imp' = NextLine([imp EXCEPT !.written = (imp.written \ RowNow) \cup rows, !.crossed = other])
  <2>1. PICK l : Known = {l}
    <3>1. Known # {}
      BY <1>0 DEF CmInv, Pending
    <3>2. \A l, m \in Known : l = m
      BY <1>0 DEF CmInv, Reading, Known
    <3>. QED
      BY <3>1, <3>2
  <2>2. l.id \in Keys
    <3>1. l \in LookupRow
      BY <1>1, <2>1, ImportFields DEF Known
    <3>. QED
      BY <3>1 DEF LookupRow
  <2>3. Line.tag \in Tags /\ Line.ip \in Ips \cup {NoIp}
    BY <1>3 DEF Lines
  <2>4. \/ imp.found = {} /\ RowNow = {}
        \/ \E r, x : imp.found = {r} /\ RowNow = {x} /\ x \in View /\ r.tag = Line.tag
    BY <1>0, <1>6, FoundAgain
  <2>5. PICK row : /\ rows = {row} /\ row \in Row
                   /\ imp.found = {} => /\ row.id = 0 /\ row.tag = Line.tag /\ row.ip = Line.ip
                                        /\ row.type = l.id
                   /\ \A r \in imp.found, x \in RowNow :
                         /\ row.id = x.id /\ row.tag = x.tag
                         /\ row.ip = (IF Line.ip = r.ip THEN x.ip ELSE Line.ip)
                         /\ row.type = (IF l.id = r.type THEN x.type ELSE l.id)
    <3>1. CASE imp.found = {}
      <4>1. PICK row : row = [id |-> 0, tag |-> Line.tag, ip |-> Line.ip, type |-> l.id]
        OBVIOUS
      <4>2. rows = {row}
        BY <2>1, <3>1, <4>1
      <4>3. row \in Row /\ row.id = 0 /\ row.tag = Line.tag /\ row.ip = Line.ip /\ row.type = l.id
        BY <2>2, <2>3, <4>1 DEF Row
      <4>. HIDE DEF rows
      <4>. QED
        BY <3>1, <4>2, <4>3
    <3>2. CASE imp.found # {}
      <4>1. PICK r, x : imp.found = {r} /\ RowNow = {x} /\ x \in View /\ r.tag = Line.tag
        BY <2>4, <3>2
      <4>2. PICK row : row = Written(x, r, Line.tag, Line.ip, l.id)
        OBVIOUS
      <4>3. rows = {row}
        BY <2>1, <3>2, <4>1, <4>2
      <4>4. x \in Row /\ r \in Row
        BY <1>0, <1>1, <4>1, ViewRows, ImportFields
      <4>5. /\ row \in Row /\ row.id = x.id /\ row.tag = x.tag
            /\ row.ip = (IF Line.ip = r.ip THEN x.ip ELSE Line.ip)
            /\ row.type = (IF l.id = r.type THEN x.type ELSE l.id)
        BY <2>2, <2>3, <4>1, <4>2, <4>4, WrittenFields
      <4>. HIDE DEF rows
      <4>. QED
        BY <3>2, <4>1, <4>3, <4>5
    <3>. QED
      BY <3>1, <3>2
  <2>6. PICK c : c = other
    OBVIOUS
  <2>7. PICK W : W = (imp.written \ RowNow) \cup {row}
    OBVIOUS
  <2>8. W \in SUBSET Row /\ c \in SUBSET Tags
    BY <1>1, <2>3, <2>5, <2>6, <2>7, ImportFields
  <2>9. PICK f : f = [imp EXCEPT !.written = W, !.crossed = c]
    OBVIOUS
  <2>10. imp' = NextLine(f)
    <3>. HIDE DEF rows, other
    <3>. QED
      BY <1>6, <2>5, <2>6, <2>7, <2>9
  <2>11. /\ f \in Importing /\ f.file = imp.file /\ f.at = imp.at /\ f.map = imp.map
         /\ f.newNames = imp.newNames /\ f.written = W
         /\ f.failed = imp.failed /\ f.broken = imp.broken /\ f.crossed = c
    BY <1>1, <2>8, <2>9 DEF Importing
  <2>12. /\ imp' \in Importing /\ imp'.pc = "read" /\ imp'.file = imp.file /\ imp'.at = imp.at + 1
         /\ imp'.map = imp.map /\ imp'.newNames = imp.newNames
         /\ imp'.written = W /\ imp'.failed = imp.failed /\ imp'.broken = imp.broken
         /\ imp'.crossed = c
    BY <2>10, <2>11, NextLineFields
  <2>. HIDE DEF rows
  <2>13. Flushed(l, row)
    BY <1>0, <1>6, <2>1, <2>5, <2>6, <2>7, <2>12 DEF Flushed
  <2>. QED
    BY <1>0, <2>13, FlushedKeeps
<1>. QED
  BY <1>4, <1>5, <1>6 DEF WriteLine

-----------------------------------------------------------------------------
(* The end of an import, and discoveries.                                  *)

LEMMA SameRecord ==
    \A y, z \in AssetRow : y.id = z.id /\ y.tag = z.tag /\ y.ip = z.ip /\ y.type = z.type => y = z
BY DEF AssetRow

(* What a commit stores: rows that were there, those written for them and  *)
(* new ones.                                                               *)
LEMMA StoredRows ==
    ASSUME CmTypeOK, NEW W \in SUBSET Row, NEW N, N = {w \in W : w.id = 0},
           NEW ids \in [N -> FreshIds]
    PROVE  /\ \A w \in W : w.id # 0 => w \in Stored(W, ids)
           /\ \A w \in N : \E y \in Stored(W, ids) :
                 y.id = ids[w] /\ y.tag = w.tag /\ y.ip = w.ip /\ y.type = w.type
           /\ \A y \in Stored(W, ids) : y \in AssetRow /\
                 \/ y \in assets /\ \A w \in W : w.id # y.id
                 \/ y \in W /\ y.id # 0
                 \/ \E w \in N : y.id = ids[w] /\ y.tag = w.tag /\ y.ip = w.ip /\ y.type = w.type
<1> DEFINE Inserted(w) == [w EXCEPT !.id = ids[w]]
<1>1. \A w \in W : w.id # 0 => w \in AssetRow
  BY DEF Row, AssetRow
<1>2. \A w \in N : ids[w] \in AssetIds
  BY DEF FreshIds
<1>3. \A w \in N :
         /\ Inserted(w) \in AssetRow /\ Inserted(w).id = ids[w] /\ Inserted(w).tag = w.tag
         /\ Inserted(w).ip = w.ip /\ Inserted(w).type = w.type
  BY <1>2 DEF AssetRow, Row
<1>4. DOMAIN ids = N
  OBVIOUS
<1>5. \A y : y \in Stored(W, ids) <=>
         \/ y \in assets /\ \A w \in W : w.id # y.id
         \/ y \in W /\ y.id # 0
         \/ \E w \in N : y = Inserted(w)
  <2> DEFINE Ins == {Inserted(w) : w \in N}
  <2>1. Stored(W, ids) = {x \in assets : \A w \in W : w.id # x.id} \cup {w \in W : w.id # 0} \cup Ins
    BY <1>4 DEF Stored
  <2>. HIDE DEF Inserted
  <2>2. \A y : y \in Ins <=> \E w \in N : y = Inserted(w)
    OBVIOUS
  <2>. HIDE DEF Ins
  <2>. QED
    BY <2>1, <2>2
<1>6. assets \subseteq AssetRow
  BY DEF CmTypeOK
<1>. HIDE DEF Inserted
<1>. QED
  BY <1>1, <1>3, <1>5, <1>6

LEMMA StoredTyped ==
    ASSUME CmInv, Open, NEW N, N = {w \in imp.written : w.id = 0},
           NEW ids \in [N -> FreshIds], \A w, v \in N : w # v => ids[w] # ids[v],
           NEW T, T = Stored(imp.written, ids)
    PROVE  /\ T \subseteq AssetRow
           /\ \A y, z \in T : y # z => y.id # z.id /\ y.tag # z.tag
           /\ \A y \in T : y.type # 0 => y.type \in {l.id : l \in lookups \cup imp.newNames}
<1>0. CmTypeOK
  BY DEF CmInv
<1>1. imp.written \in SUBSET Row
  BY <1>0, ImpKinds, ImportFields
<1>2. \A y \in T : y \in AssetRow /\
         \/ y \in assets /\ \A w \in imp.written : w.id # y.id
         \/ y \in imp.written /\ y.id # 0
         \/ \E w \in N : y.id = ids[w] /\ y.tag = w.tag /\ y.ip = w.ip /\ y.type = w.type
  BY <1>0, <1>1, StoredRows
<1>3. \A w \in imp.written : Fits(w)
  BY DEF CmInv, WrittenFits
<1>4. \A v, w \in imp.written : v # w => v.id # w.id \/ (v.id = 0 /\ v.tag # w.tag)
  BY DEF CmInv, WrittenFits
<1>5. \A x, y \in assets : x # y => x.id # y.id /\ x.tag # y.tag
  BY <1>0 DEF CmTypeOK
<1>6. \A w \in N : \A x \in assets : ids[w] # x.id /\ w.tag # x.tag
  BY <1>3 DEF Fits, FreshIds
<1>7. \A v, w \in N : v # w => ids[v] # ids[w] /\ v.tag # w.tag
  BY <1>4
<1>8. \A w \in imp.written : w.id # 0 => \E x \in assets : x.id = w.id /\ x.tag = w.tag
  BY <1>3 DEF Fits
<1>9. ASSUME NEW y \in T, NEW z \in T, y # z PROVE y.id # z.id /\ y.tag # z.tag
  <2> DEFINE Old(r) == r \in assets /\ \A w \in imp.written : w.id # r.id
             Upd(r) == r \in imp.written /\ r.id # 0
             Ins(r) == \E w \in N : r.id = ids[w] /\ r.tag = w.tag /\ r.ip = w.ip /\ r.type = w.type
  <2>1. y \in AssetRow /\ z \in AssetRow
    BY <1>2
  <2>2. \A r \in T : Old(r) \/ Upd(r) \/ Ins(r)
    BY <1>2
  <2>3. CASE Ins(y) /\ Ins(z)
    BY <1>7, <1>9, <2>1, <2>3, SameRecord
  <2>4. \A r : Old(r) \/ Upd(r) => \E x \in assets : x.id = r.id /\ x.tag = r.tag
    BY <1>8
  <2>5. CASE (Old(y) \/ Upd(y)) /\ (Old(z) \/ Upd(z))
    <3>1. y.id # z.id
      BY <1>4, <1>5, <1>9, <2>5
    <3>2. PICK x \in assets, u \in assets : x.id = y.id /\ x.tag = y.tag /\ u.id = z.id /\ u.tag = z.tag
      <4>. HIDE DEF Old, Upd
      <4>. QED
        BY <2>4, <2>5
    <3>. QED
      BY <1>5, <3>1, <3>2
  <2>6. CASE Ins(y) /\ (Old(z) \/ Upd(z))
    <3>1. PICK x \in assets : x.id = z.id /\ x.tag = z.tag
      BY <2>4, <2>6
    <3>. QED
      BY <1>6, <2>6, <3>1
  <2>7. CASE Ins(z) /\ (Old(y) \/ Upd(y))
    <3>1. PICK x \in assets : x.id = y.id /\ x.tag = y.tag
      BY <2>4, <2>7
    <3>. QED
      BY <1>6, <2>7, <3>1
  <2>. HIDE DEF Old, Upd, Ins
  <2>. QED
    BY <2>2, <2>3, <2>5, <2>6, <2>7
<1>10. ASSUME NEW y \in T, y.type # 0 PROVE y.type \in {l.id : l \in lookups \cup imp.newNames}
  <2>1. CASE y \in assets
    BY <1>0, <1>10, <2>1 DEF CmTypeOK
  <2>2. CASE \E w \in imp.written : y.type = w.type
    BY <1>3, <1>10, <2>2 DEF Fits
  <2>. QED
    BY <1>2, <2>1, <2>2
<1>. QED
  BY <1>2, <1>9, <1>10

LEMMA EndImportKeeps == ASSUME CmInv, EndImport PROVE CmInv'
<1>0. CmTypeOK /\ Open
  BY DEF CmInv, EndImport, Open
<1>1. imp.newNames \in SUBSET LookupRow
  BY <1>0, ImpKinds, ImportFields
<1> DEFINE N == {w \in imp.written : w.id = 0}
<1>2. PICK ids \in [N -> FreshIds] :
         /\ \A w, v \in N : w # v => ids[w] # ids[v]
         /\ assets' = Stored(imp.written, ids)
  BY DEF EndImport
<1>3. lookups' = lookups \cup imp.newNames /\ imp' = CmIdle /\ usedKeys' = usedKeys
  BY DEF EndImport
<1>. HIDE DEF N
<1>4. /\ assets' \subseteq AssetRow
      /\ \A y, z \in assets' : y # z => y.id # z.id /\ y.tag # z.tag
      /\ \A y \in assets' : y.type # 0 => y.type \in {l.id : l \in lookups \cup imp.newNames}
  BY <1>0, <1>2, StoredTyped DEF N
<1>5. \A l, m \in lookups' : l # m => l.id # m.id /\ l.name # m.name
  <2>1. \A l, m \in imp.newNames : l # m => l.id # m.id /\ l.name # m.name
    BY <1>0 DEF CmInv, Reading
  <2>. QED
    BY <1>0, <1>3, <2>1 DEF CmInv, NamesApart, CmTypeOK
<1>6. CmTypeOK'
  BY <1>0, <1>1, <1>3, <1>4, <1>5 DEF CmTypeOK
<1>7. \A l \in lookups' : l.id <= usedKeys'
  BY <1>0, <1>3 DEF CmInv, KeysUsed, Reading
<1>8. ~Open' /\ OneFound'
  BY <1>3 DEF Open, OneFound, CmIdle
<1>. QED
  BY <1>6, <1>7, <1>8, ClosedKeeps

LEMMA StartImportKeeps == ASSUME CmInv, NEW f \in Files, StartImport(f) PROVE CmInv'
<1>0. CmTypeOK
  BY DEF CmInv
<1>1. f \in Seq(Lines) /\ f # <<>>
  BY CmAssumption DEF StartImport
<1>2. Len(f) \in Nat
  BY <1>1
<1>3. /\ imp' \in Importing /\ imp'.pc = "read" /\ imp'.file = f /\ imp'.at = 1 /\ imp'.map = lookups
      /\ imp'.newNames = {} /\ imp'.written = {} /\ imp'.failed = 0 /\ imp'.broken = FALSE
  BY <1>0 DEF StartImport, Importing, CmTypeOK
<1>4. UNCHANGED <<assets, lookups, usedKeys>> /\ usedKeys \in Keys
  BY <1>0 DEF StartImport, CmTypeOK
<1>5. CmTypeOK' /\ Open'
  BY <1>0, <1>3, <1>4, ImportTyped
<1>6. Reading' /\ Pending'
  BY <1>0, <1>2, <1>3 DEF Reading, Pending, CmTypeOK
<1>7. KeysUsed' /\ NamesApart' /\ WrittenFits'
  BY <1>3, <1>4 DEF CmInv, KeysUsed, NamesApart, WrittenFits
<1>8. AllWritten'
  <2>1. AllRead(imp')
    BY <1>3 DEF AllRead
  <2>2. AllRead(imp)' = AllRead(imp')
    BY DEF AllRead, HasRow, From
  <2>. QED
    BY <1>3, <2>1, <2>2 DEF AllWritten
<1>. QED
  BY <1>3, <1>5, <1>6, <1>7, <1>8 DEF CmInv, OneFound

LEMMA DiscoverKeeps == ASSUME CmInv, NEW d \in Devices, Discover(d) PROVE CmInv'
<1>0. CmTypeOK
  BY DEF CmInv
<1>1. PICK S \in First(Match(d)), k \in Keys \cup {0} :
         imp' = [pc |-> "discover", device |-> d, found |-> S, type |-> k]
  BY DEF Discover
<1>2. S \in SUBSET AssetRow
  BY <1>0, <1>1 DEF Match, First, CmTypeOK
<1>3. imp' \in Discovering /\ ~Open'
  BY <1>1, <1>2 DEF Discovering, Open
<1>4. CmTypeOK'
  BY <1>0, <1>3 DEF CmTypeOK, Discover
<1>5. \A r, q \in S : r = q
  BY DEF First
<1>6. OneFound'
  BY <1>1, <1>5 DEF OneFound
<1>. QED
  BY <1>3, <1>4, <1>6, ClosedKeeps DEF CmInv, KeysUsed, Discover

LEMMA StoreDiscoveryKeeps == ASSUME CmInv, StoreDiscovery PROVE CmInv'
<1>0. CmTypeOK
  BY DEF CmInv
<1>1. imp \in Discovering /\ imp.device \in Devices /\ imp.found \in SUBSET AssetRow /\ imp.type \in Keys \cup {0}
  BY <1>0, ImpKinds DEF StoreDiscovery, Discovering
<1>2. imp.device.ip \in Ips \cup {NoIp} /\ imp.device.tag \in Tags
  BY <1>1, CmAssumption
<1>3. imp' = CmIdle /\ UNCHANGED <<lookups, usedKeys>> /\ ~Open' /\ OneFound'
  BY DEF StoreDiscovery, Open, OneFound, CmIdle
<1> DEFINE found == {x \in assets : \E r \in imp.found : x.id = r.id}
           Inserted(a) == [id |-> a, tag |-> imp.device.tag, ip |-> imp.device.ip, type |-> imp.type]
           kind(r) == IF imp.type = 0 THEN r.type ELSE imp.type
           New(x, r) == Written(x, r, imp.device.tag, imp.device.ip, kind(r))
           taken == /\ \E x \in assets \ found : x.tag = imp.device.tag
                    /\ \A r \in imp.found : r.tag # imp.device.tag
           gone == \/ imp.found # {} /\ found = {}
                   \/ imp.type \notin TypeIds /\ \A r \in imp.found : r.type # imp.type
<1>4. ASSUME imp.found = {}, ~taken, ~gone,
             NEW a \in AssetIds, NextId(a), assets' = assets \cup {Inserted(a)}
      PROVE  CmTypeOK'
  <2>1. /\ Inserted(a) \in AssetRow /\ Inserted(a).id = a /\ Inserted(a).tag = imp.device.tag
        /\ Inserted(a).type = imp.type
    BY <1>1, <1>2 DEF AssetRow
  <2>2. \A x \in assets : x.id # a /\ x.tag # imp.device.tag
    BY <1>0, <1>4 DEF NextId, FreshIds
  <2>3. imp.type \in TypeIds
    BY <1>4
  <2>. HIDE DEF Inserted, taken, gone
  <2>4. /\ assets' \subseteq AssetRow
        /\ \A x, y \in assets' : x # y => x.id # y.id /\ x.tag # y.tag
        /\ \A x \in assets' : x.type # 0 => x.type \in {l.id : l \in lookups}
    BY <1>0, <1>4, <2>1, <2>2, <2>3 DEF CmTypeOK, TypeIds
  <2>. QED
    BY <1>0, <1>3, <2>4 DEF CmTypeOK
<1>5. ASSUME imp.found # {}, ~taken, ~gone, NEW r, imp.found = {r},
             NEW x \in assets, found = {x}, x.id = r.id, assets' = (assets \ {x}) \cup {New(x, r)}
      PROVE  CmTypeOK'
  <2>1. x \in AssetRow /\ r \in AssetRow /\ x \in Row /\ r \in Row
    BY <1>0, <1>1, <1>5 DEF CmTypeOK, AssetRow, Row
  <2>2. kind(r) \in Keys \cup {0}
    BY <1>1, <2>1 DEF AssetRow
  <2>3. PICK n : n = New(x, r)
    OBVIOUS
  <2>4. PICK k : k = kind(r)
    OBVIOUS
  <2>10. n = Written(x, r, imp.device.tag, imp.device.ip, k) /\ k \in Keys \cup {0}
    BY <2>2, <2>3, <2>4
  <2>5. /\ n \in Row /\ n.id = x.id
        /\ n.tag = (IF imp.device.tag = r.tag THEN x.tag ELSE imp.device.tag)
        /\ n.type = (IF k = r.type THEN x.type ELSE k)
    <3>. HIDE DEF New, kind, found, taken, gone
    <3>. QED
      BY <1>2, <2>1, <2>10, WrittenFields
  <2>6. n \in AssetRow
    BY <2>1, <2>5 DEF Row, AssetRow
  <2>7. \A y \in assets \ {x} : y.id # n.id /\ y.tag # n.tag
    BY <1>0, <1>5, <2>5 DEF CmTypeOK
  <2>8. n.type # 0 => n.type \in {l.id : l \in lookups}
    BY <1>0, <1>5, <2>4, <2>5 DEF CmTypeOK, TypeIds
  <2>. HIDE DEF New, found, taken, gone, kind
  <2>9. /\ assets' \subseteq AssetRow
        /\ \A y, z \in assets' : y # z => y.id # z.id /\ y.tag # z.tag
        /\ \A y \in assets' : y.type # 0 => y.type \in {l.id : l \in lookups}
    BY <1>0, <1>5, <2>3, <2>6, <2>7, <2>8 DEF CmTypeOK
  <2>. QED
    BY <1>0, <1>3, <2>9 DEF CmTypeOK
<1>6. ASSUME UNCHANGED assets PROVE CmTypeOK'
  BY <1>0, <1>3, <1>6 DEF CmTypeOK
<1>7. CmTypeOK'
  <2>1. \/ /\ imp.found = {} /\ ~taken /\ ~gone
           /\ \E a \in AssetIds : NextId(a) /\ assets' = assets \cup {Inserted(a)}
        \/ /\ imp.found # {} /\ ~taken /\ ~gone
           /\ assets' = (assets \ found) \cup {New(x, r) : x \in found, r \in imp.found}
        \/ UNCHANGED assets
    BY DEF StoreDiscovery
  <2>2. CASE /\ imp.found # {} /\ ~taken /\ ~gone
             /\ assets' = (assets \ found) \cup {New(x, r) : x \in found, r \in imp.found}
    <3>0. \A r, q \in imp.found : r = q
      BY DEF CmInv, OneFound, StoreDiscovery
    <3>1. PICK r : imp.found = {r}
      BY <2>2, <3>0
    <3>2. PICK x \in found : TRUE
      BY <2>2
    <3>3. found = {x} /\ x \in assets /\ x.id = r.id
      BY <1>0, <3>1, <3>2 DEF CmTypeOK
    <3>. HIDE DEF New, found, taken, gone
    <3>4. assets' = (assets \ {x}) \cup {New(x, r)}
      BY <2>2, <3>1, <3>3
    <3>. QED
      BY <1>5, <2>2, <3>1, <3>3, <3>4
  <2>. HIDE DEF found, Inserted, New, taken, gone
  <2>. QED
    BY <1>4, <1>6, <2>1, <2>2
<1>. QED
  BY <1>3, <1>7, ClosedKeeps DEF CmInv, KeysUsed

LEMMA CmRestartKeeps == ASSUME CmInv, CmRestart PROVE CmInv'
<1>1. CmTypeOK' /\ ~Open' /\ OneFound'
  BY DEF CmInv, CmTypeOK, CmRestart, Open, OneFound, CmIdle
<1>. QED
  BY <1>1, ClosedKeeps DEF CmInv, KeysUsed, CmRestart

-----------------------------------------------------------------------------
(* The invariant.                                                          *)

LEMMA NextCm == ASSUME CmInv, [CmNext]_cmVars PROVE CmInv'
<1>1. CASE LookupActions
  BY <1>1, CreateLookupKeeps, UpdateLookupKeeps, DeleteLookupKeeps DEF LookupActions
<1>2. CASE AssetActions
  <2>1. ASSUME NEW S \in SUBSET assets, DeleteAssets(S) PROVE CmInv'
    BY <2>1, DeleteAssetsKeeps
  <2>2. ASSUME NEW g \in Tags, NEW i \in Ips \cup {NoIp}, NEW k \in TypeIds, CreateAsset(g, i, k)
        PROVE  CmInv'
    BY <2>2, CreateAssetKeeps
  <2>3. ASSUME NEW g \in Tags, NEW i \in Ips \cup {NoIp}, NEW k \in TypeIds,
               NEW x \in assets, UpdateAsset(x, g, i, k)
        PROVE  CmInv'
    BY <2>3, UpdateAssetKeeps
  <2>. QED
    BY <1>2, <2>1, <2>2, <2>3 DEF AssetActions
<1>3. CASE ImportActions
  <2>1. ASSUME NEW f \in Files, StartImport(f) PROVE CmInv'
    BY <2>1, StartImportKeeps
  <2>2. ASSUME NEW d \in Devices, Discover(d) PROVE CmInv'
    BY <2>2, DiscoverKeeps
  <2>. QED
    BY <1>3, <2>1, <2>2, SkipLineKeeps, ReadLineKeeps, WriteLineKeeps, EndImportKeeps,
       StoreDiscoveryKeeps, CmRestartKeeps DEF ImportActions
<1>4. CASE UNCHANGED cmVars
  <2>1. UNCHANGED <<assets, lookups, usedKeys, imp>>
    BY <1>4 DEF cmVars
  <2>2. CmTypeOK' /\ Reading' /\ Pending' /\ OneFound'
    BY <2>1 DEF CmInv, CmTypeOK, Reading, Pending, OneFound, Known, Line, Open
  <2>3. KeysUsed' /\ NamesApart' /\ WrittenFits'
    BY <2>1 DEF CmInv, KeysUsed, NamesApart, WrittenFits, Fits, Open
  <2>4. AllWritten'
    BY <2>1 DEF CmInv, AllWritten, AllRead, HasRow, From, Open
  <2>. QED
    BY <2>2, <2>3, <2>4 DEF CmInv
<1>. QED
  BY <1>1, <1>2, <1>3, <1>4 DEF CmNext

(* Every reachable state has the invariant.                                *)
LEMMA CmInvariant == CmSpec => []CmInv
<1>1. CmInv /\ [CmNext]_cmVars => CmInv'
  BY NextCm
<1>. QED
  BY <1>1, InitCm, PTL DEF CmSpec

(* The tables keep their types and their unique and foreign keys: whatever *)
(* an import has noted and lost again with a rollback, whatever the        *)
(* requests do to the lookup table meanwhile, and however a process ends,  *)
(* no asset refers to a type that is not there, and no two rows share an   *)
(* id, a tag or a name.                                                    *)
THEOREM CmTypes == CmSpec => []CmTypeOK
<1>1. CmInv => CmTypeOK
  BY DEF CmInv
<1>. QED
  BY <1>1, CmInvariant, PTL

-----------------------------------------------------------------------------
(* What the answer of an import promises.                                  *)

LEMMA EndStoresAll ==
    ASSUME CmInv, EndImport, imp.failed = 0
    PROVE  \A k \in 1 .. Len(imp.file) : imp.file[k].tag \notin imp.crossed =>
              \E m \in k .. Len(imp.file), x \in assets' :
                 /\ imp.file[k].tag = x.tag /\ imp.file[m].tag = x.tag
                 /\ imp.file[m].ip = x.ip
                 /\ [id |-> x.type, name |-> imp.file[m].type] \in imp.map
<1>0. CmTypeOK /\ Open /\ imp.at > Len(imp.file)
  BY DEF CmInv, EndImport, Open
<1>1. imp \in Importing /\ Len(imp.file) \in Nat
  BY <1>0, ImpKinds, ImportFields, CmAssumption
<1>2. imp.at = Len(imp.file) + 1
  BY <1>0, <1>1 DEF CmInv, Reading
<1>3. AllRead(imp)
  BY <1>0 DEF CmInv, AllWritten
<1>4. imp.written \in SUBSET Row
  BY <1>1, ImportFields
<1> DEFINE N == {w \in imp.written : w.id = 0}
<1>5. PICK ids \in [N -> FreshIds] : assets' = Stored(imp.written, ids)
  BY DEF EndImport
<1>6. ASSUME NEW w \in imp.written
      PROVE  \E y \in assets' : y.tag = w.tag /\ y.ip = w.ip /\ y.type = w.type
  <2>1. N = {v \in imp.written : v.id = 0}
    OBVIOUS
  <2>. HIDE DEF N
  <2>3. \E y \in Stored(imp.written, ids) : y.tag = w.tag /\ y.ip = w.ip /\ y.type = w.type
    BY <1>0, <1>4, <2>1, StoredRows, SMTT(40)
  <2>. QED
    BY <1>5, <2>3
<1>7. ASSUME NEW k \in 1 .. Len(imp.file), imp.file[k].tag \notin imp.crossed
      PROVE  \E m \in k .. Len(imp.file), x \in assets' :
              /\ imp.file[k].tag = x.tag /\ imp.file[m].tag = x.tag
              /\ imp.file[m].ip = x.ip
              /\ [id |-> x.type, name |-> imp.file[m].type] \in imp.map
  <2>1. k \in 1 .. imp.at - 1 /\ imp.at - 1 = Len(imp.file)
    BY <1>1, <1>2
  <2>2. PICK m \in k .. Len(imp.file), w \in imp.written :
           imp.file[k].tag = imp.file[m].tag /\ From(imp, w, m)
    BY <1>3, <1>7, <2>1 DEF AllRead, HasRow
  <2>3. PICK y \in assets' : y.tag = w.tag /\ y.ip = w.ip /\ y.type = w.type
    BY <1>6
  <2>4. /\ w.tag = imp.file[m].tag /\ w.ip = imp.file[m].ip
        /\ [id |-> w.type, name |-> imp.file[m].type] \in imp.map
    BY <2>2 DEF From
  <2>5. [id |-> y.type, name |-> imp.file[m].type] \in imp.map
    BY <2>3, <2>4
  <2>. QED
    BY <2>2, <2>3, <2>4, <2>5
<1>. QED
  BY <1>7

(* An import that answers with no failed line has stored every line of the *)
(* file, with the address and the type of the last line for its tag,       *)
(* whatever other users created, renamed or deleted while it ran.  Only    *)
(* lines whose very asset another user changed between its query and its   *)
(* update are exempt.                                                      *)
THEOREM NoFailureStored == CmSpec => NoFailureAllStored
<1>1. CmInv => (EndImport /\ imp.failed = 0 =>
         \A k \in 1 .. Len(imp.file) : imp.file[k].tag \notin imp.crossed =>
              \E m \in k .. Len(imp.file), x \in assets' :
                 /\ imp.file[k].tag = x.tag /\ imp.file[m].tag = x.tag
                 /\ imp.file[m].ip = x.ip
                 /\ [id |-> x.type, name |-> imp.file[m].type] \in imp.map)
  BY EndStoresAll
<1>. QED
  BY <1>1, CmInvariant, PTL DEF NoFailureAllStored
=============================================================================
