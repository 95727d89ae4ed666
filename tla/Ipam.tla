-------------------------------- MODULE Ipam --------------------------------
(***************************************************************************)
(* IPAM: the tables ipam_aggregates and ipam_prefixes, the handlers of     *)
(* /ipam and /import that write them.  A write is two steps, the checks    *)
(* and the statement with its commit: handlers run side by side in threads *)
(* and servers under READ COMMITTED.                                       *)
(***************************************************************************)
EXTENDS IpamNetworks, FiniteSets

CONSTANTS
    Nets,       \* the networks requests name, each written in one way
    Aggregates, \* primary keys of ipam_aggregates (positive)
    Prefixes,   \* primary keys of ipam_prefixes (positive)
    IpamUsers   \* requests that are handled at the same time

ASSUME IpamAssumption ==
    /\ Nets \subseteq Blocks
    /\ Aggregates \subseteq Nat \ {0}
    /\ Prefixes \subseteq Nat \ {0}

VARIABLES
    agg,       \* the table ipam_aggregates
    pref,      \* the table ipam_prefixes
    ireq,      \* local state of every request
    imported,  \* history: aggregates an import inserted unchecked
    raced,     \* history: aggregates stored after another was, since the check
    strayed    \* history: prefixes whose aggregate moved, or whose check was overtaken

ipamVars == <<agg, pref, ireq, imported, raced, strayed>>

-----------------------------------------------------------------------------
(* Rows and requests.                                                      *)

AggRow  == [state : {"fresh", "live", "gone"}, net : Nets \cup {NoNet}]
PrefRow == [state : {"fresh", "live", "gone"}, net : Nets \cup {NoNet},
            agg : Aggregates \cup {0}]

NoAgg  == [state |-> "fresh", net |-> NoNet]
NoPref == [state |-> "fresh", net |-> NoNet, agg |-> 0]

(* row 0 is an insert.  A prefix update writes net unless it is NoNet, and *)
(* agg when link is set; checked is the aggregate it was checked against.  *)
(* stale: a row the check relies on has been written since.                *)
IpamRequest == [pc : {"idle", "agg", "pref", "import"}, row : Nat,
                net : Nets \cup {NoNet}, agg : Aggregates \cup {0}, link : BOOLEAN,
                checked : Aggregates \cup {0}, stale : BOOLEAN]

IpamIdle == [pc |-> "idle", row |-> 0, net |-> NoNet, agg |-> 0, link |-> FALSE,
             checked |-> 0, stale |-> FALSE]

LiveAgg(a)  == agg[a].state = "live"
LivePref(p) == pref[p].state = "live"

IpamInit ==
    /\ agg = [a \in Aggregates |-> NoAgg]
    /\ pref = [p \in Prefixes |-> NoPref]
    /\ ireq = [u \in IpamUsers |-> IpamIdle]
    /\ imported = {} /\ raced = {} /\ strayed = {}

(* The key the sequence of a table gives next.                             *)
NextAgg(a)  == /\ agg[a].state = "fresh"
               /\ \A b \in Aggregates : b < a => agg[b].state # "fresh"
NextPref(p) == /\ pref[p].state = "fresh"
               /\ \A q \in Prefixes : q < p => pref[q].state # "fresh"

-----------------------------------------------------------------------------
(* Aggregates.                                                             *)

(* Mutant: only a network inside an aggregate is refused, not one around.  *)
InsideExisting(n, exclude) ==
    \E a \in Aggregates : LiveAgg(a) /\ a # exclude /\ SubnetOf(n, agg[a].net)

(* ipam_aggregate_overlaps_existing.                                       *)
OverlapsExisting(n, exclude) ==
    \E a \in Aggregates : LiveAgg(a) /\ a # exclude /\ Overlaps(n, agg[a].net)

CheckAggregate(u, a, n) ==
    /\ ireq[u].pc = "idle"
    /\ ~OverlapsExisting(n, a)
    /\ ireq' = [ireq EXCEPT ![u] = [IpamIdle EXCEPT !.pc = "agg", !.row = a, !.net = n]]
    /\ UNCHANGED <<agg, pref, imported, raced, strayed>>

CreateAggregate(u, n)    == CheckAggregate(u, 0, n)
UpdateAggregate(u, a, n) == LiveAgg(a) /\ CheckAggregate(u, a, n)

(* One row of a CSV file: a network that is there already keeps its row    *)
(* (only descriptions change), another one is inserted.                    *)
ImportAggregateRow(u, n) ==
    /\ \A a \in Aggregates : LiveAgg(a) => agg[a].net # n
    /\ CheckAggregate(u, 0, n)

Unique(n, a) == \A b \in Aggregates \ {a} : LiveAgg(b) => agg[b].net # n

Members(a) == {p \in Prefixes : LivePref(p) /\ pref[p].agg = a}

(* Checks that are under way when the network of a is written by u.        *)
Overtaken(u, a) ==
    [v \in IpamUsers |->
        IF v = u THEN IpamIdle
        ELSE IF \/ ireq[v].pc = "agg"
                \/ ireq[v].pc = "pref" /\ ireq[v].checked = a
        THEN [ireq[v] EXCEPT !.stale = TRUE] ELSE ireq[v]]

(* INSERT or UPDATE: prefix is UNIQUE, an UPDATE needs its row.            *)
StoreAggregate(u) ==
    /\ ireq[u].pc = "agg"
    /\ \/ \E a \in Aggregates :
            /\ IF ireq[u].row = 0 THEN NextAgg(a) ELSE a = ireq[u].row /\ LiveAgg(a)
            /\ Unique(ireq[u].net, a)
            /\ agg' = [agg EXCEPT ![a] = [state |-> "live", net |-> ireq[u].net]]
            /\ ireq' = Overtaken(u, a)
            /\ imported' = imported \ {a}
            /\ raced' = IF ireq[u].stale THEN raced \cup {a} ELSE raced \ {a}
            /\ strayed' = strayed \cup Members(a)
       \/ /\ \/ ~Unique(ireq[u].net, ireq[u].row)
             \/ ireq[u].row # 0 /\ ~LiveAgg(ireq[u].row)
          /\ ireq' = [ireq EXCEPT ![u] = IpamIdle]
          /\ UNCHANGED <<agg, imported, raced, strayed>>
    /\ UNCHANGED pref

(* Mutant: the members keep the key of the aggregate.                      *)
StillMembers(a) == pref

(* aggregate_id of the prefixes is ON DELETE SET NULL.                     *)
Released(a) == [p \in Prefixes |-> IF pref[p].agg = a THEN [pref[p] EXCEPT !.agg = 0] ELSE pref[p]]

DeleteAggregate(a) ==
    /\ LiveAgg(a)
    /\ agg' = [agg EXCEPT ![a] = [state |-> "gone", net |-> NoNet]]
    /\ pref' = Released(a)
    /\ UNCHANGED <<ireq, imported, raced, strayed>>

-----------------------------------------------------------------------------
(* Prefixes.                                                               *)

(* check_prefix_in_aggregate.                                              *)
InAggregate(n, a) == a # 0 => LiveAgg(a) /\ SubnetOf(n, agg[a].net)

CreatePrefix(u, n, a) ==
    /\ ireq[u].pc = "idle"
    /\ InAggregate(n, a)
    /\ ireq' = [ireq EXCEPT ![u] = [IpamIdle EXCEPT !.pc = "pref", !.row = 0, !.net = n,
                                                   !.agg = a, !.link = TRUE, !.checked = a]]
    /\ UNCHANGED <<agg, pref, imported, raced, strayed>>

(* Mutant: an update that only sets the aggregate is not checked.          *)
FitsWhenMoved(n, m, a) == n = NoNet \/ InAggregate(m, a)

(* The network that results, against the aggregate that results.           *)
Fits(n, m, a) == InAggregate(m, a)

(* n NoNet and a 0 are fields the body leaves out.                         *)
UpdatePrefix(u, p, n, a) ==
    LET net == IF n = NoNet THEN pref[p].net ELSE n
        to  == IF a = 0 THEN pref[p].agg ELSE a
    IN  /\ ireq[u].pc = "idle" /\ LivePref(p) /\ (n # NoNet \/ a # 0)
        /\ Fits(n, net, to)
        /\ ireq' = [ireq EXCEPT ![u] = [IpamIdle EXCEPT !.pc = "pref", !.row = p, !.net = n,
                                  !.agg = a, !.link = (a # 0), !.checked = to]]
        /\ UNCHANGED <<agg, pref, imported, raced, strayed>>

(* One row of a CSV file: an existing prefix gets the aggregate of the     *)
(* row, NULL included.                                                     *)
ImportPrefixRow(u, n, a) ==
    LET same == {p \in Prefixes : LivePref(p) /\ pref[p].net = n}
    IN  /\ ireq[u].pc = "idle"
        /\ InAggregate(n, a)
        /\ \E p \in IF same = {} THEN {0} ELSE same :
             ireq' = [ireq EXCEPT ![u] = [IpamIdle EXCEPT !.pc = "pref", !.row = p,
                        !.net = IF p = 0 THEN n ELSE NoNet, !.agg = a, !.link = TRUE,
                        !.checked = a]]
        /\ UNCHANGED <<agg, pref, imported, raced, strayed>>

(* The aggregate must still exist (foreign key), an UPDATE needs its row.  *)
StorePrefix(u) ==
    LET r == ireq[u] IN
    /\ r.pc = "pref"
    /\ \/ \E p \in Prefixes :
            /\ IF r.row = 0 THEN NextPref(p) ELSE p = r.row /\ LivePref(p)
            /\ r.link /\ r.agg # 0 => LiveAgg(r.agg)
            /\ pref' = [pref EXCEPT ![p] = [state |-> "live",
                          net |-> IF r.net = NoNet THEN @.net ELSE r.net,
                          agg |-> IF r.link THEN r.agg ELSE @.agg]]
            /\ ireq' = [v \in IpamUsers |->
                          IF v = u THEN IpamIdle
                          ELSE IF ireq[v].pc = "pref" /\ ireq[v].row = p
                          THEN [ireq[v] EXCEPT !.stale = TRUE] ELSE ireq[v]]
            /\ strayed' = IF r.stale THEN strayed \cup {p}
                          ELSE IF r.link \/ r.net # NoNet THEN strayed \ {p} ELSE strayed
       \/ /\ \/ r.row # 0 /\ ~LivePref(r.row)
             \/ r.link /\ r.agg # 0 /\ ~LiveAgg(r.agg)
          /\ ireq' = [ireq EXCEPT ![u] = IpamIdle]
          /\ UNCHANGED <<pref, strayed>>
    /\ UNCHANGED <<agg, imported, raced>>

DeletePrefix(p) ==
    /\ LivePref(p)
    /\ pref' = [pref EXCEPT ![p] = [state |-> "gone", net |-> NoNet, agg |-> 0]]
    /\ UNCHANGED <<agg, ireq, imported, raced, strayed>>
-----------------------------------------------------------------------------
(* Imports from NetBox and phpIPAM: a transaction for the aggregates and   *)
(* one for the prefixes.  What the other system sends is arbitrary; of its *)
(* prefixes, which do not see each other, one is modelled.                 *)

(* A row for each of the networks N that has none; nothing is checked.     *)
ImportAggregates(u, N, n) ==
    LET new == {m \in N : \A a \in Aggregates : LiveAgg(a) => agg[a].net # m}
    IN  /\ ireq[u].pc = "idle"
        /\ \E S \in SUBSET {a \in Aggregates : agg[a].state = "fresh"} :
             \E f \in [S -> new] :
               /\ \A m \in new : \E a \in S : f[a] = m
               /\ Cardinality(S) = Cardinality(new)
               /\ agg' = [a \in Aggregates |-> IF a \in S
                             THEN [state |-> "live", net |-> f[a]] ELSE agg[a]]
               /\ imported' = imported \cup S
        /\ ireq' = [ireq EXCEPT ![u] = [IpamIdle EXCEPT !.pc = "import", !.net = n]]
        /\ UNCHANGED <<pref, raced, strayed>>

(* Mutant: the first aggregate found, contained or not.                    *)
AnyAggregate(n) == {a \in Aggregates : LiveAgg(a) /\ Overlaps(n, agg[a].net)}

(* _resolve_aggregate_id_for_prefix: the smallest that contains n.         *)
Smallest(n) ==
    LET S == {a \in Aggregates : LiveAgg(a) /\ SubnetOf(n, agg[a].net)}
    IN  {a \in S : \A b \in S : agg[a].net.size <= agg[b].net.size}

(* The second transaction: resolve the aggregate, and insert the prefix or *)
(* update the first row with that network; one that exists keeps its       *)
(* aggregate when none contains it.                                        *)
ImportPrefix(u) ==
    LET n    == ireq[u].net
        same == {p \in Prefixes : LivePref(p) /\ pref[p].net = n}
    IN  /\ ireq[u].pc = "import"
        /\ \E p \in IF same = {} THEN {0} ELSE same, a \in IF Smallest(n) = {} THEN {0} ELSE Smallest(n) :
             ireq' = [ireq EXCEPT ![u] = [IpamIdle EXCEPT !.pc = "pref", !.row = p,
                        !.net = IF p = 0 THEN n ELSE NoNet, !.agg = a,
                        !.link = (a # 0 \/ p = 0), !.checked = a]]
        /\ UNCHANGED <<agg, pref, imported, raced, strayed>>

-----------------------------------------------------------------------------
IpamRequests ==
    \E u \in IpamUsers :
        \/ \E n \in Nets : CreateAggregate(u, n) \/ ImportAggregateRow(u, n)
        \/ \E a \in Aggregates, n \in Nets : UpdateAggregate(u, a, n)
        \/ \E n \in Nets, a \in Aggregates \cup {0} : CreatePrefix(u, n, a) \/ ImportPrefixRow(u, n, a)
        \/ \E p \in Prefixes, n \in Nets \cup {NoNet}, a \in Aggregates \cup {0} : UpdatePrefix(u, p, n, a)
        \/ \E N \in SUBSET Nets, n \in Nets : ImportAggregates(u, N, n)
        \/ StoreAggregate(u)
        \/ ImportPrefix(u)
        \/ StorePrefix(u)

IpamNext ==
    \/ IpamRequests
    \/ \E a \in Aggregates : DeleteAggregate(a)
    \/ \E p \in Prefixes : DeletePrefix(p)

IpamSpec == IpamInit /\ [][IpamNext]_ipamVars

-----------------------------------------------------------------------------
(* Types, and the foreign key of the prefixes.                             *)
IpamTypeOK ==
    /\ agg \in [Aggregates -> AggRow]
    /\ pref \in [Prefixes -> PrefRow]
    /\ ireq \in [IpamUsers -> IpamRequest]
    /\ imported \subseteq Aggregates /\ raced \subseteq Aggregates /\ strayed \subseteq Prefixes
    /\ \A p \in Prefixes : pref[p].agg # 0 => LiveAgg(pref[p].agg)

(* The docstring of IpamAggregate: aggregates do not overlap.              *)
AggregatesDisjoint ==
    \A a, b \in Aggregates : LiveAgg(a) /\ LiveAgg(b) /\ a # b => ~Overlaps(agg[a].net, agg[b].net)

(* Create, update and CSV import keep aggregates apart: two that overlap   *)
(* have one that NetBox or phpIPAM brought, or that was checked before the *)
(* other was committed.                                                    *)
CheckedAggregatesDisjoint ==
    \A a, b \in Aggregates : LiveAgg(a) /\ LiveAgg(b) /\ a # b /\ Overlaps(agg[a].net, agg[b].net)
        => {a, b} \cap (imported \cup raced) # {}

(* A prefix lies inside its aggregate, whichever of the two it was written *)
(* by, unless the aggregate has been changed or two writes overlapped.     *)
PrefixInside ==
    \A p \in Prefixes \ strayed :
        pref[p].agg # 0 => SubnetOf(pref[p].net, agg[pref[p].agg].net)

=============================================================================
