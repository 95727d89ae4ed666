---------------------------- MODULE Ipam_proofs ----------------------------
(***************************************************************************)
(* Proofs about Ipam and IpamRanges, for every width of an address and all *)
(* sets of networks, rows and requests.                                    *)
(***************************************************************************)
EXTENDS Ipam, IpamRanges, FiniteSetTheorems, TLAPS

-----------------------------------------------------------------------------
(* Rows and requests.                                                      *)

LEMMA IpamIdleTyped ==
    /\ IpamIdle \in IpamRequest /\ IpamIdle.pc = "idle" /\ IpamIdle.stale = FALSE
    /\ NoAgg \in AggRow /\ NoPref \in PrefRow
BY DEF IpamIdle, IpamRequest, NoAgg, NoPref, AggRow, PrefRow

LEMMA Ids == 0 \notin Aggregates /\ 0 \notin Prefixes /\ Aggregates \subseteq Nat /\ Prefixes \subseteq Nat
BY IpamAssumption

(* A request is written by its own steps; others only mark it as stale.    *)
LEMMA Written ==
    ASSUME IpamTypeOK, NEW u \in IpamUsers, NEW r \in IpamRequest, ireq' = [ireq EXCEPT ![u] = r]
    PROVE  /\ ireq' \in [IpamUsers -> IpamRequest] /\ ireq'[u] = r
           /\ \A v \in IpamUsers \ {u} : ireq'[v] = ireq[v]
BY DEF IpamTypeOK

LEMMA StaleTyped ==
    ASSUME NEW r \in IpamRequest
    PROVE  /\ [r EXCEPT !.stale = TRUE] \in IpamRequest
           /\ [r EXCEPT !.stale = TRUE].stale = TRUE
BY DEF IpamRequest

(* The local state of a write of an aggregate.                             *)
LEMMA AggregateLocal ==
    ASSUME NEW a \in Aggregates \cup {0}, NEW n \in Nets,
           NEW r, r = [IpamIdle EXCEPT !.pc = "agg", !.row = a, !.net = n]
    PROVE  /\ r \in IpamRequest /\ r.pc = "agg" /\ r.row = a /\ r.net = n /\ r.stale = FALSE
<1>1. a \in Nat
  BY Ids
<1>. QED
  BY <1>1 DEF IpamIdle, IpamRequest

LEMMA AggregateChecked ==
    ASSUME IpamTypeOK, NEW u \in IpamUsers, NEW a \in Aggregates \cup {0}, NEW n \in Nets,
           CheckAggregate(u, a, n)
    PROVE  /\ ireq' \in [IpamUsers -> IpamRequest]
           /\ ireq'[u].pc = "agg" /\ ireq'[u].row = a /\ ireq'[u].net = n
           /\ \A v \in IpamUsers \ {u} : ireq'[v] = ireq[v]
<1> DEFINE r == [IpamIdle EXCEPT !.pc = "agg", !.row = a, !.net = n]
<1>1. r \in IpamRequest
  BY AggregateLocal, Zenon
<1>3. r.pc = "agg" /\ r.row = a /\ r.net = n
  BY DEF IpamIdle
<1>2. ireq' = [ireq EXCEPT ![u] = r]
  BY DEF CheckAggregate
<1> HIDE DEF r
<1>. QED
  BY <1>1, <1>2, <1>3, Written

LEMMA ImportLocal ==
    ASSUME NEW n \in Nets
    PROVE  LET r == [IpamIdle EXCEPT !.pc = "import", !.net = n]
           IN  /\ r \in IpamRequest /\ r.pc = "import"
BY DEF IpamIdle, IpamRequest

-----------------------------------------------------------------------------
(* The steps that check, and what they have checked.                       *)

(* The network row p has once n is written to it.                          *)
Resulting(p, n) == IF n # NoNet THEN n ELSE IF p = 0 THEN NoNet ELSE pref[p].net

(* What holds of a write of a prefix when its checks are made.             *)
Sound(p, n, a, link, checked) ==
    /\ p # 0 => LivePref(p)
    /\ p = 0 => link
    /\ link /\ a # 0 => checked = a
    /\ ~link /\ n # NoNet => pref[p].agg = checked
    /\ checked # 0 => LiveAgg(checked) /\ SubnetOf(Resulting(p, n), agg[checked].net)

PrefixCheck(u) ==
    \E p \in Prefixes \cup {0}, n \in Nets \cup {NoNet}, a \in Aggregates \cup {0},
       link \in BOOLEAN, checked \in Aggregates \cup {0} :
        /\ Sound(p, n, a, link, checked)
        /\ ireq' = [ireq EXCEPT ![u] = [IpamIdle EXCEPT !.pc = "pref", !.row = p, !.net = n,
                                     !.agg = a, !.link = link, !.checked = checked]]
        /\ UNCHANGED <<agg, pref, imported, raced, strayed>>

LEMMA PrefixChecks ==
    ASSUME IpamTypeOK, NEW u \in IpamUsers,
           \/ \E n \in Nets, a \in Aggregates \cup {0} : CreatePrefix(u, n, a) \/ ImportPrefixRow(u, n, a)
           \/ \E p \in Prefixes, n \in Nets \cup {NoNet}, a \in Aggregates \cup {0} : UpdatePrefix(u, p, n, a)
           \/ ImportPrefix(u)
    PROVE  PrefixCheck(u)
<1>1. ASSUME NEW n \in Nets, NEW a \in Aggregates \cup {0}, CreatePrefix(u, n, a) PROVE PrefixCheck(u)
  <2>1. Sound(0, n, a, TRUE, a)
    BY <1>1 DEF CreatePrefix, InAggregate, Sound, Resulting
  <2>2. /\ ireq' = [ireq EXCEPT ![u] = [IpamIdle EXCEPT !.pc = "pref", !.row = 0, !.net = n,
                                     !.agg = a, !.link = TRUE, !.checked = a]]
        /\ UNCHANGED <<agg, pref, imported, raced, strayed>>
    BY <1>1 DEF CreatePrefix
  <2>. QED
    BY <2>1, <2>2 DEF PrefixCheck
<1>2. ASSUME NEW n \in Nets, NEW a \in Aggregates \cup {0}, ImportPrefixRow(u, n, a) PROVE PrefixCheck(u)
  <2>1. PICK p \in Prefixes \cup {0} :
          /\ p # 0 => LivePref(p) /\ pref[p].net = n
          /\ ireq' = [ireq EXCEPT ![u] = [IpamIdle EXCEPT !.pc = "pref", !.row = p,
                        !.net = IF p = 0 THEN n ELSE NoNet, !.agg = a, !.link = TRUE,
                        !.checked = a]]
    BY <1>2 DEF ImportPrefixRow
  <2>2. Sound(p, IF p = 0 THEN n ELSE NoNet, a, TRUE, a)
    BY <1>2, <2>1 DEF ImportPrefixRow, InAggregate, Sound, Resulting
  <2>3. UNCHANGED <<agg, pref, imported, raced, strayed>>
    BY <1>2 DEF ImportPrefixRow
  <2> DEFINE m == IF p = 0 THEN n ELSE NoNet
  <2>4. m \in Nets \cup {NoNet}
    OBVIOUS
  <2>5. /\ Sound(p, m, a, TRUE, a)
        /\ ireq' = [ireq EXCEPT ![u] = [IpamIdle EXCEPT !.pc = "pref", !.row = p, !.net = m,
                                     !.agg = a, !.link = TRUE, !.checked = a]]
    BY <2>1, <2>2
  <2> HIDE DEF m
  <2>. QED
    BY <2>3, <2>4, <2>5 DEF PrefixCheck
<1>3. ASSUME NEW p \in Prefixes, NEW n \in Nets \cup {NoNet}, NEW a \in Aggregates \cup {0},
             UpdatePrefix(u, p, n, a)
      PROVE  PrefixCheck(u)
  <2> DEFINE to == IF a = 0 THEN pref[p].agg ELSE a
  <2>1. to \in Aggregates \cup {0}
    BY DEF IpamTypeOK, PrefRow
  <2>2. p # 0
    BY Ids
  <2>3. Sound(p, n, a, a # 0, to)
    BY <1>3, <2>2 DEF UpdatePrefix, Fits, InAggregate, Sound, Resulting
  <2>4. /\ ireq' = [ireq EXCEPT ![u] = [IpamIdle EXCEPT !.pc = "pref", !.row = p, !.net = n,
                                     !.agg = a, !.link = (a # 0), !.checked = to]]
        /\ UNCHANGED <<agg, pref, imported, raced, strayed>>
    BY <1>3 DEF UpdatePrefix
  <2>5. (a # 0) \in BOOLEAN
    OBVIOUS
  <2> HIDE DEF to
  <2>. QED
    BY <2>1, <2>3, <2>4, <2>5 DEF PrefixCheck
<1>4. ASSUME ImportPrefix(u) PROVE PrefixCheck(u)
  <2> DEFINE n == ireq[u].net
             same == {p \in Prefixes : LivePref(p) /\ pref[p].net = n}
             request(p, a) == [IpamIdle EXCEPT !.pc = "pref", !.row = p,
                                 !.net = IF p = 0 THEN n ELSE NoNet, !.agg = a,
                                 !.link = (a # 0 \/ p = 0), !.checked = a]
  <2>2. PICK p \in Prefixes \cup {0}, a \in Aggregates \cup {0} :
          /\ p # 0 => LivePref(p) /\ pref[p].net = n
          /\ a # 0 => LiveAgg(a) /\ SubnetOf(n, agg[a].net)
          /\ ireq' = [ireq EXCEPT ![u] = request(p, a)]
    <3>1. PICK p \in IF same = {} THEN {0} ELSE same,
               a \in IF Smallest(n) = {} THEN {0} ELSE Smallest(n) :
            ireq' = [ireq EXCEPT ![u] = request(p, a)]
      BY <1>4 DEF ImportPrefix
    <3> HIDE DEF request, n
    <3>2. p \in Prefixes \cup {0} /\ (p # 0 => LivePref(p) /\ pref[p].net = n)
      BY <3>1
    <3>3. a \in Aggregates \cup {0} /\ (a # 0 => LiveAgg(a) /\ SubnetOf(n, agg[a].net))
      BY <3>1 DEF Smallest
    <3>. QED
      BY <3>1, <3>2, <3>3
  <2>3. UNCHANGED <<agg, pref, imported, raced, strayed>>
    BY <1>4 DEF ImportPrefix
  <2>1. n \in Nets \cup {NoNet}
    BY DEF IpamTypeOK, IpamRequest
  <2> HIDE DEF n
  <2> DEFINE m == IF p = 0 THEN n ELSE NoNet
             link == (a # 0 \/ p = 0)
  <2>4. m \in Nets \cup {NoNet} /\ link \in BOOLEAN
    BY <2>1
  <2>5. Sound(p, m, a, link, a)
    BY <2>2 DEF Sound, Resulting
  <2>6. ireq' = [ireq EXCEPT ![u] = [IpamIdle EXCEPT !.pc = "pref", !.row = p, !.net = m,
                                     !.agg = a, !.link = link, !.checked = a]]
    BY <2>2
  <2> HIDE DEF m, link
  <2>. QED
    BY <2>3, <2>4, <2>5, <2>6 DEF PrefixCheck
<1>. QED
  BY <1>1, <1>2, <1>3, <1>4

LEMMA PrefixChecked ==
    ASSUME IpamTypeOK, NEW u \in IpamUsers, PrefixCheck(u)
    PROVE  /\ ireq' \in [IpamUsers -> IpamRequest]
           /\ \A v \in IpamUsers \ {u} : ireq'[v] = ireq[v]
           /\ ireq'[u].pc = "pref" /\ ireq'[u].stale = FALSE
           /\ ireq'[u].row \in Prefixes \cup {0} /\ ireq'[u].link \in BOOLEAN
           /\ Sound(ireq'[u].row, ireq'[u].net, ireq'[u].agg, ireq'[u].link, ireq'[u].checked)
<1>1. PICK p \in Prefixes \cup {0}, n \in Nets \cup {NoNet}, a \in Aggregates \cup {0},
           link \in BOOLEAN, checked \in Aggregates \cup {0} :
        /\ Sound(p, n, a, link, checked)
        /\ ireq' = [ireq EXCEPT ![u] = [IpamIdle EXCEPT !.pc = "pref", !.row = p, !.net = n,
                                     !.agg = a, !.link = link, !.checked = checked]]
        /\ UNCHANGED <<agg, pref, imported, raced, strayed>>
  BY Zenon DEF PrefixCheck
<1>2. PICK r : r = [IpamIdle EXCEPT !.pc = "pref", !.row = p, !.net = n,
                                    !.agg = a, !.link = link, !.checked = checked]
  OBVIOUS
<1>3. /\ r \in IpamRequest /\ r.pc = "pref" /\ r.row = p /\ r.net = n /\ r.agg = a
      /\ r.link = link /\ r.checked = checked /\ r.stale = FALSE
  <2>1. p \in Nat
    BY Ids
  <2>. QED
    BY <1>2, <2>1 DEF IpamIdle, IpamRequest
<1>4. ireq' = [ireq EXCEPT ![u] = r]
  BY <1>1, <1>2
<1>5. /\ ireq' \in [IpamUsers -> IpamRequest] /\ ireq'[u] = r
      /\ \A v \in IpamUsers \ {u} : ireq'[v] = ireq[v]
  BY <1>3, <1>4, Written
<1>. QED
  BY <1>1, <1>3, <1>5

(* The aggregates of an import are new rows, unchecked.                    *)
LEMMA AggregatesImported ==
    ASSUME NEW u \in IpamUsers, NEW N \in SUBSET Nets, NEW n \in Nets, ImportAggregates(u, N, n)
    PROVE  \E S, f :
              /\ S \subseteq Aggregates
              /\ \A a \in S : f[a] \in N /\ agg[a].state = "fresh"
              /\ agg' = [a \in Aggregates |-> IF a \in S
                            THEN [state |-> "live", net |-> f[a]] ELSE agg[a]]
              /\ imported' = imported \cup S
<1> DEFINE new == {m \in N : \A a \in Aggregates : LiveAgg(a) => agg[a].net # m}
<1>1. PICK S \in SUBSET {a \in Aggregates : agg[a].state = "fresh"} : \E f \in [S -> new] :
              /\ agg' = [a \in Aggregates |-> IF a \in S
                            THEN [state |-> "live", net |-> f[a]] ELSE agg[a]]
              /\ imported' = imported \cup S
  BY DEF ImportAggregates
<1>2. PICK f \in [S -> new] :
              /\ agg' = [a \in Aggregates |-> IF a \in S
                            THEN [state |-> "live", net |-> f[a]] ELSE agg[a]]
              /\ imported' = imported \cup S
  BY <1>1
<1>3. \A a \in S : f[a] \in N /\ agg[a].state = "fresh"
  BY <1>1, <1>2
<1>4. S \subseteq Aggregates
  BY <1>1
<1> HIDE DEF new
<1>. QED
  BY <1>2, <1>3, <1>4

(* The kinds of steps there are.                                           *)
LEMMA IpamSteps ==
    ASSUME IpamTypeOK, [IpamNext]_ipamVars
    PROVE  \/ \E u \in IpamUsers, a \in Aggregates \cup {0}, n \in Nets : CheckAggregate(u, a, n)
           \/ \E u \in IpamUsers : StoreAggregate(u) \/ PrefixCheck(u) \/ StorePrefix(u)
           \/ \E u \in IpamUsers, N \in SUBSET Nets, n \in Nets : ImportAggregates(u, N, n)
           \/ \E a \in Aggregates : DeleteAggregate(a)
           \/ \E p \in Prefixes : DeletePrefix(p)
           \/ UNCHANGED ipamVars
<1>1. CASE IpamRequests
  <2>1. PICK u \in IpamUsers :
        \/ \E n \in Nets : CreateAggregate(u, n) \/ ImportAggregateRow(u, n)
        \/ \E a \in Aggregates, n \in Nets : UpdateAggregate(u, a, n)
        \/ \/ \E n \in Nets, a \in Aggregates \cup {0} : CreatePrefix(u, n, a) \/ ImportPrefixRow(u, n, a)
           \/ \E p \in Prefixes, n \in Nets \cup {NoNet}, a \in Aggregates \cup {0} : UpdatePrefix(u, p, n, a)
           \/ ImportPrefix(u)
        \/ \E N \in SUBSET Nets, n \in Nets : ImportAggregates(u, N, n)
        \/ StoreAggregate(u)
        \/ StorePrefix(u)
    BY <1>1 DEF IpamRequests
  <2>2. CASE \E n \in Nets : CreateAggregate(u, n) \/ ImportAggregateRow(u, n)
    BY <2>2 DEF CreateAggregate, ImportAggregateRow
  <2>3. CASE \E a \in Aggregates, n \in Nets : UpdateAggregate(u, a, n)
    BY <2>3 DEF UpdateAggregate
  <2>. QED
    BY <2>1, <2>2, <2>3, PrefixChecks
<1>. QED
  BY <1>1 DEF IpamNext

(* What a commit of an aggregate does: nothing but ending the request, or  *)
(* writing one row and marking the checks it overtakes.                    *)
LEMMA AggregateStored ==
    ASSUME IpamTypeOK, NEW u \in IpamUsers, StoreAggregate(u)
    PROVE  /\ ireq' \in [IpamUsers -> IpamRequest] /\ ireq'[u] = IpamIdle /\ pref' = pref
           /\ ireq[u].pc = "agg"
           /\ \/ /\ \A v \in IpamUsers \ {u} : ireq'[v] = ireq[v]
                 /\ UNCHANGED <<agg, imported, raced, strayed>>
              \/ \E a \in Aggregates :
                    /\ ireq[u].row = a \/ (ireq[u].row = 0 /\ agg[a].state = "fresh")
                    /\ agg' = [agg EXCEPT ![a] = [state |-> "live", net |-> ireq[u].net]]
                    /\ \A v \in IpamUsers \ {u} :
                          ireq'[v] = IF \/ ireq[v].pc = "agg"
                                        \/ ireq[v].pc = "pref" /\ ireq[v].checked = a
                                     THEN [ireq[v] EXCEPT !.stale = TRUE] ELSE ireq[v]
                    /\ imported' = imported \ {a}
                    /\ raced' = IF ireq[u].stale THEN raced \cup {a} ELSE raced \ {a}
                    /\ strayed' = strayed \cup Members(a)
                    /\ agg[a].state \in {"fresh", "live"}
                    /\ agg[a].state = "fresh" \/ LiveAgg(a)
<1>1. CASE ireq' = [ireq EXCEPT ![u] = IpamIdle] /\ UNCHANGED <<agg, imported, raced, strayed>>
  BY <1>1, IpamIdleTyped, Written DEF StoreAggregate
<1>2. ASSUME NEW a \in Aggregates,
             IF ireq[u].row = 0 THEN NextAgg(a) ELSE a = ireq[u].row /\ LiveAgg(a),
             agg' = [agg EXCEPT ![a] = [state |-> "live", net |-> ireq[u].net]],
             ireq' = Overtaken(u, a),
             imported' = imported \ {a},
             raced' = IF ireq[u].stale THEN raced \cup {a} ELSE raced \ {a},
             strayed' = strayed \cup Members(a)
      PROVE  /\ ireq' \in [IpamUsers -> IpamRequest] /\ ireq'[u] = IpamIdle
             /\ \A v \in IpamUsers \ {u} :
                          ireq'[v] = IF \/ ireq[v].pc = "agg"
                                        \/ ireq[v].pc = "pref" /\ ireq[v].checked = a
                                     THEN [ireq[v] EXCEPT !.stale = TRUE] ELSE ireq[v]
             /\ ireq[u].row = a \/ (ireq[u].row = 0 /\ agg[a].state = "fresh")
             /\ agg[a].state \in {"fresh", "live"}
             /\ agg[a].state = "fresh" \/ LiveAgg(a)
  <2>1. \A v \in IpamUsers : ireq[v] \in IpamRequest /\ [ireq[v] EXCEPT !.stale = TRUE] \in IpamRequest
    BY StaleTyped DEF IpamTypeOK
  <2>. QED
    BY <1>2, <2>1, IpamIdleTyped DEF Overtaken, NextAgg, LiveAgg
<1>. QED
  BY <1>1, <1>2 DEF StoreAggregate

(* What a commit of a prefix does.                                         *)
LEMMA PrefixStored ==
    ASSUME IpamTypeOK, NEW u \in IpamUsers, StorePrefix(u)
    PROVE  /\ ireq' \in [IpamUsers -> IpamRequest] /\ ireq'[u] = IpamIdle
           /\ UNCHANGED <<agg, imported, raced>>
           /\ ireq[u].pc = "pref"
           /\ \/ /\ \A v \in IpamUsers \ {u} : ireq'[v] = ireq[v]
                 /\ UNCHANGED <<pref, strayed>>
              \/ \E p \in Prefixes :
                    /\ \/ ireq[u].row = p /\ LivePref(p)
                       \/ ireq[u].row = 0 /\ pref[p].state = "fresh"
                    /\ ireq[u].link /\ ireq[u].agg # 0 => LiveAgg(ireq[u].agg)
                    /\ pref'[p].state = "live"
                    /\ pref'[p].net = IF ireq[u].net = NoNet THEN pref[p].net ELSE ireq[u].net
                    /\ pref'[p].agg = IF ireq[u].link THEN ireq[u].agg ELSE pref[p].agg
                    /\ pref' \in [Prefixes -> PrefRow]
                    /\ \A q \in Prefixes \ {p} : pref'[q] = pref[q]
                    /\ \A v \in IpamUsers \ {u} :
                          ireq'[v] = IF ireq[v].pc = "pref" /\ ireq[v].row = p
                                     THEN [ireq[v] EXCEPT !.stale = TRUE] ELSE ireq[v]
                    /\ strayed' = IF ireq[u].stale THEN strayed \cup {p}
                                  ELSE IF ireq[u].link \/ ireq[u].net # NoNet THEN strayed \ {p}
                                  ELSE strayed
<1>1. CASE ireq' = [ireq EXCEPT ![u] = IpamIdle] /\ UNCHANGED <<pref, strayed>>
  BY <1>1, IpamIdleTyped, Written DEF StorePrefix
<1>2. ASSUME NEW p \in Prefixes,
             IF ireq[u].row = 0 THEN NextPref(p) ELSE p = ireq[u].row /\ LivePref(p),
             pref' = [pref EXCEPT ![p] = [state |-> "live",
                          net |-> IF ireq[u].net = NoNet THEN @.net ELSE ireq[u].net,
                          agg |-> IF ireq[u].link THEN ireq[u].agg ELSE @.agg]],
             ireq' = [v \in IpamUsers |->
                          IF v = u THEN IpamIdle
                          ELSE IF ireq[v].pc = "pref" /\ ireq[v].row = p
                          THEN [ireq[v] EXCEPT !.stale = TRUE] ELSE ireq[v]]
      PROVE  /\ ireq' \in [IpamUsers -> IpamRequest] /\ ireq'[u] = IpamIdle
             /\ \/ ireq[u].row = p /\ LivePref(p)
                \/ ireq[u].row = 0 /\ pref[p].state = "fresh"
             /\ pref'[p].state = "live"
             /\ pref'[p].net = IF ireq[u].net = NoNet THEN pref[p].net ELSE ireq[u].net
             /\ pref'[p].agg = IF ireq[u].link THEN ireq[u].agg ELSE pref[p].agg
             /\ pref' \in [Prefixes -> PrefRow]
             /\ \A q \in Prefixes \ {p} : pref'[q] = pref[q]
             /\ \A v \in IpamUsers \ {u} :
                          ireq'[v] = IF ireq[v].pc = "pref" /\ ireq[v].row = p
                                     THEN [ireq[v] EXCEPT !.stale = TRUE] ELSE ireq[v]
  <2>1. \A v \in IpamUsers : ireq[v] \in IpamRequest /\ [ireq[v] EXCEPT !.stale = TRUE] \in IpamRequest
    BY StaleTyped DEF IpamTypeOK
  <2>2. ireq' \in [IpamUsers -> IpamRequest] /\ ireq'[u] = IpamIdle
    BY <1>2, <2>1, IpamIdleTyped
  <2>3. \A v \in IpamUsers \ {u} : ireq'[v] = IF ireq[v].pc = "pref" /\ ireq[v].row = p
                                     THEN [ireq[v] EXCEPT !.stale = TRUE] ELSE ireq[v]
    BY <1>2
  <2> DEFINE row == [state |-> "live",
                     net |-> IF ireq[u].net = NoNet THEN pref[p].net ELSE ireq[u].net,
                     agg |-> IF ireq[u].link THEN ireq[u].agg ELSE pref[p].agg]
  <2>4. pref' = [pref EXCEPT ![p] = row]
    BY <1>2 DEF IpamTypeOK
  <2>5. row \in PrefRow
    <3>1. ireq[u].net \in Nets \cup {NoNet} /\ ireq[u].agg \in Aggregates \cup {0}
      BY <2>1 DEF IpamRequest
    <3>. QED
      BY <3>1 DEF IpamTypeOK, PrefRow
  <2>6. /\ row.state = "live"
        /\ row.net = IF ireq[u].net = NoNet THEN pref[p].net ELSE ireq[u].net
        /\ row.agg = IF ireq[u].link THEN ireq[u].agg ELSE pref[p].agg
    OBVIOUS
  <2> HIDE DEF row
  <2>7. /\ pref' \in [Prefixes -> PrefRow] /\ pref'[p] = row
        /\ \A q \in Prefixes \ {p} : pref'[q] = pref[q]
    BY <2>4, <2>5 DEF IpamTypeOK
  <2>. QED
    BY <1>2, <2>2, <2>3, <2>6, <2>7 DEF NextPref
<1>. QED
  BY <1>1, <1>2 DEF StorePrefix

-----------------------------------------------------------------------------
(* Types.                                                                  *)

LEMMA NextIpamTypes == IpamTypeOK /\ [IpamNext]_ipamVars => IpamTypeOK'
<1>. SUFFICES ASSUME IpamTypeOK, [IpamNext]_ipamVars PROVE IpamTypeOK'
  OBVIOUS
<1>1. ASSUME NEW u \in IpamUsers, NEW a \in Aggregates \cup {0}, NEW n \in Nets, CheckAggregate(u, a, n)
      PROVE  IpamTypeOK'
  <2>1. ireq' \in [IpamUsers -> IpamRequest]
    BY <1>1, AggregateChecked
  <2>. QED
    BY <1>1, <2>1 DEF CheckAggregate, IpamTypeOK, LiveAgg
<1>2. ASSUME NEW u \in IpamUsers, StoreAggregate(u) PROVE IpamTypeOK'
  <2>1. CASE UNCHANGED <<agg, imported, raced, strayed>>
    BY <1>2, <2>1, AggregateStored DEF IpamTypeOK, LiveAgg
  <2>2. ASSUME NEW a \in Aggregates,
               agg' = [agg EXCEPT ![a] = [state |-> "live", net |-> ireq[u].net]],
               imported' = imported \ {a},
               raced' = IF ireq[u].stale THEN raced \cup {a} ELSE raced \ {a},
               strayed' = strayed \cup Members(a)
        PROVE  IpamTypeOK'
    <3>1. [state |-> "live", net |-> ireq[u].net] \in AggRow
      BY DEF IpamTypeOK, IpamRequest, AggRow
    <3>2. agg' \in [Aggregates -> AggRow] /\ \A b \in Aggregates : LiveAgg(b) => LiveAgg(b)'
      BY <2>2, <3>1 DEF IpamTypeOK, LiveAgg
    <3>3. \A p \in Prefixes : pref[p].agg \in Aggregates \cup {0}
      BY DEF IpamTypeOK, PrefRow
    <3>4. Members(a) \subseteq Prefixes
      BY DEF Members
    <3>. QED
      BY <1>2, <2>2, <3>2, <3>3, <3>4, AggregateStored DEF IpamTypeOK
  <2>. QED
    BY <1>2, <2>1, <2>2, AggregateStored
<1>3. ASSUME NEW u \in IpamUsers, PrefixCheck(u) PROVE IpamTypeOK'
  <2>1. ireq' \in [IpamUsers -> IpamRequest]
    BY <1>3, PrefixChecked
  <2>. QED
    BY <1>3, <2>1 DEF PrefixCheck, IpamTypeOK, LiveAgg
<1>4. ASSUME NEW u \in IpamUsers, StorePrefix(u) PROVE IpamTypeOK'
  BY <1>4, PrefixStored DEF IpamTypeOK, LiveAgg
<1>5. ASSUME NEW u \in IpamUsers, NEW N \in SUBSET Nets, NEW n \in Nets, ImportAggregates(u, N, n)
      PROVE  IpamTypeOK'
  <2>1. PICK S, f :
          /\ S \subseteq Aggregates
          /\ \A a \in S : f[a] \in N /\ agg[a].state = "fresh"
          /\ agg' = [a \in Aggregates |-> IF a \in S
                        THEN [state |-> "live", net |-> f[a]] ELSE agg[a]]
          /\ imported' = imported \cup S
    BY <1>5, AggregatesImported
  <2>2. \A a \in S : [state |-> "live", net |-> f[a]] \in AggRow
    BY <2>1 DEF AggRow
  <2>3. agg' \in [Aggregates -> AggRow] /\ \A b \in Aggregates : LiveAgg(b) => LiveAgg(b)'
    BY <2>1, <2>2 DEF IpamTypeOK, LiveAgg
  <2>4. \A p \in Prefixes : pref[p].agg \in Aggregates \cup {0}
    BY DEF IpamTypeOK, PrefRow
  <2>5. ireq' \in [IpamUsers -> IpamRequest] /\ UNCHANGED <<pref, raced, strayed>>
    BY <1>5, ImportLocal, Written DEF ImportAggregates
  <2>. QED
    BY <2>1, <2>3, <2>4, <2>5 DEF IpamTypeOK
<1>6. ASSUME NEW a \in Aggregates, DeleteAggregate(a) PROVE IpamTypeOK'
  <2>1. [state |-> "gone", net |-> NoNet] \in AggRow
    BY DEF AggRow
  <2>2. agg' \in [Aggregates -> AggRow] /\ \A b \in Aggregates \ {a} : LiveAgg(b) => LiveAgg(b)'
    BY <1>6, <2>1 DEF DeleteAggregate, IpamTypeOK, LiveAgg
  <2>3. \A p \in Prefixes : pref[p] \in PrefRow /\ [pref[p] EXCEPT !.agg = 0] \in PrefRow
                            /\ [pref[p] EXCEPT !.agg = 0].agg = 0
    BY DEF IpamTypeOK, PrefRow
  <2>4. pref' \in [Prefixes -> PrefRow] /\ \A p \in Prefixes : pref'[p].agg \in {0, pref[p].agg} \ {a}
    BY <1>6, <2>3, Ids DEF DeleteAggregate, Released
  <2>5. \A p \in Prefixes : pref[p].agg \in Aggregates \cup {0}
    BY DEF IpamTypeOK, PrefRow
  <2>. QED
    BY <1>6, <2>2, <2>4, <2>5 DEF DeleteAggregate, IpamTypeOK
<1>7. ASSUME NEW p \in Prefixes, DeletePrefix(p) PROVE IpamTypeOK'
  <2>1. [state |-> "gone", net |-> NoNet, agg |-> 0] \in PrefRow
    BY DEF PrefRow
  <2>. QED
    BY <1>7, <2>1 DEF DeletePrefix, IpamTypeOK, LiveAgg
<1>8. CASE UNCHANGED ipamVars
  BY <1>8 DEF ipamVars, IpamTypeOK, LiveAgg
<1>. QED
  BY <1>1, <1>2, <1>3, <1>4, <1>5, <1>6, <1>7, <1>8, IpamSteps

(* Every table and every local state keeps its type, and a prefix that has *)
(* an aggregate has one that exists.                                       *)
THEOREM IpamTypes == IpamSpec => []IpamTypeOK
<1>1. IpamInit => IpamTypeOK
  BY IpamIdleTyped DEF IpamInit, IpamTypeOK, NoPref
<1>. QED
  BY <1>1, NextIpamTypes, PTL DEF IpamSpec

-----------------------------------------------------------------------------
(* Aggregates.                                                             *)

(* What a write that is under way knows of the other aggregates.           *)
Checked(r) ==
    r.pc = "agg" /\ ~r.stale =>
        \A b \in Aggregates : LiveAgg(b) /\ b # r.row /\ Overlaps(r.net, agg[b].net) => b \in imported

ApartInv ==
    /\ IpamTypeOK
    /\ CheckedAggregatesDisjoint
    /\ \A u \in IpamUsers : Checked(ireq[u])

LEMMA OverlapsSymmetric == ASSUME NEW m, NEW n, Overlaps(m, n) PROVE Overlaps(n, m)
BY DEF Overlaps

LEMMA StoreKeepsApart ==
    ASSUME ApartInv, NEW u \in IpamUsers, StoreAggregate(u), IpamTypeOK'
    PROVE  ApartInv'
<1>1. CASE /\ \A v \in IpamUsers \ {u} : ireq'[v] = ireq[v]
           /\ UNCHANGED <<agg, imported, raced, strayed>>
  <2>1. ireq'[u].pc = "idle"
    BY AggregateStored, IpamIdleTyped DEF ApartInv
  <2>2. CheckedAggregatesDisjoint'
    BY <1>1 DEF ApartInv, CheckedAggregatesDisjoint, LiveAgg
  <2>. QED
    BY <1>1, <2>1, <2>2 DEF ApartInv, Checked, LiveAgg
<1>2. ASSUME NEW a \in Aggregates,
             ireq[u].row = a \/ (ireq[u].row = 0 /\ agg[a].state = "fresh"),
             agg' = [agg EXCEPT ![a] = [state |-> "live", net |-> ireq[u].net]],
             \A v \in IpamUsers \ {u} :
                ireq'[v] = IF \/ ireq[v].pc = "agg"
                              \/ ireq[v].pc = "pref" /\ ireq[v].checked = a
                           THEN [ireq[v] EXCEPT !.stale = TRUE] ELSE ireq[v],
             imported' = imported \ {a},
             raced' = IF ireq[u].stale THEN raced \cup {a} ELSE raced \ {a}
      PROVE  ApartInv'
  <2>1. ireq'[u].pc = "idle" /\ ireq[u].pc = "agg"
    BY AggregateStored, IpamIdleTyped DEF ApartInv
  <2>2. /\ agg'[a].net = ireq[u].net
        /\ \A b \in Aggregates \ {a} : agg'[b] = agg[b] /\ (b \in imported => b \in imported')
                                       /\ (b \in raced => b \in raced')
    BY <1>2 DEF ApartInv, IpamTypeOK
  <2>3. a # 0
    BY Ids
  <2>4. ASSUME NEW b \in Aggregates \ {a}, LiveAgg(b)', Overlaps(agg'[a].net, agg'[b].net)
        PROVE  {a, b} \cap (imported' \cup raced') # {}
    <3>1. CASE ireq[u].stale
      BY <1>2, <3>1
    <3>2. CASE ~ireq[u].stale
      <4>1. LiveAgg(b) /\ b # ireq[u].row /\ Overlaps(ireq[u].net, agg[b].net)
        BY <1>2, <2>2, <2>4, Ids DEF LiveAgg
      <4>2. b \in imported
        BY <2>1, <3>2, <4>1 DEF ApartInv, Checked
      <4>. QED
        BY <2>2, <4>2
    <3>. QED
      BY <3>1, <3>2
  <2>5. CheckedAggregatesDisjoint'
    <3>1. SUFFICES ASSUME NEW b \in Aggregates, NEW c \in Aggregates, LiveAgg(b)', LiveAgg(c)',
                          b # c, Overlaps(agg'[b].net, agg'[c].net)
                   PROVE  {b, c} \cap (imported' \cup raced') # {}
      BY DEF CheckedAggregatesDisjoint
    <3>2. CASE b = a
      BY <2>4, <3>1, <3>2
    <3>3. CASE c = a
      BY <2>4, <3>1, <3>3, OverlapsSymmetric
    <3>4. CASE b # a /\ c # a
      <4>1. {b, c} \cap (imported \cup raced) # {}
        BY <2>2, <3>1, <3>4 DEF ApartInv, CheckedAggregatesDisjoint, LiveAgg
      <4>2. PICK x \in Aggregates \ {a} : x \in {b, c} /\ x \in imported \cup raced
        BY <3>4, <4>1
      <4>3. x \in imported' \cup raced'
        BY <2>2, <4>2
      <4>. QED
        BY <4>2, <4>3
    <3>. QED
      BY <3>2, <3>3, <3>4
  <2>6. ASSUME NEW v \in IpamUsers \ {u} PROVE Checked(ireq[v])'
    <3>1. CASE ireq[v].pc = "agg"
      <4>1. ireq'[v] = [ireq[v] EXCEPT !.stale = TRUE] /\ ireq[v] \in IpamRequest
        BY <1>2, <3>1 DEF ApartInv, IpamTypeOK
      <4>. QED
        BY <4>1, StaleTyped DEF Checked
    <3>2. CASE ireq[v].pc # "agg"
      <4>1. [ireq[v] EXCEPT !.stale = TRUE].pc = ireq[v].pc
        BY DEF ApartInv, IpamTypeOK, IpamRequest
      <4>. QED
        BY <1>2, <3>2, <4>1 DEF Checked
    <3>. QED
      BY <3>1, <3>2
  <2>. QED
    BY <2>1, <2>5, <2>6 DEF ApartInv, Checked
<1>. QED
  BY <1>1, <1>2, AggregateStored DEF ApartInv

LEMMA NextApart == ApartInv /\ [IpamNext]_ipamVars => ApartInv'
<1>. SUFFICES ASSUME ApartInv, [IpamNext]_ipamVars PROVE ApartInv'
  OBVIOUS
<1>. IpamTypeOK /\ IpamTypeOK'
  BY NextIpamTypes DEF ApartInv
(* Steps that leave the live aggregates and the marks as they are.         *)
<1>0. ASSUME \A v \in IpamUsers : Checked(ireq[v])',
             \A b \in Aggregates : LiveAgg(b)' => LiveAgg(b) /\ agg'[b] = agg[b],
             imported' = imported, raced' = raced
      PROVE  ApartInv'
  BY <1>0 DEF ApartInv, CheckedAggregatesDisjoint
<1>1. ASSUME NEW u \in IpamUsers, NEW a \in Aggregates \cup {0}, NEW n \in Nets, CheckAggregate(u, a, n)
      PROVE  ApartInv'
  <2>1. /\ ireq'[u].pc = "agg" /\ ireq'[u].row = a /\ ireq'[u].net = n
        /\ \A v \in IpamUsers \ {u} : ireq'[v] = ireq[v]
    BY <1>1, AggregateChecked
  <2>2. UNCHANGED <<agg, imported, raced>>
    BY <1>1 DEF CheckAggregate
  <2>3. Checked(ireq[u])'
    BY <1>1, <2>1, <2>2 DEF CheckAggregate, OverlapsExisting, Checked, LiveAgg
  <2>4. \A v \in IpamUsers \ {u} : Checked(ireq[v])'
    BY <2>1, <2>2 DEF ApartInv, Checked, LiveAgg
  <2>. QED
    BY <1>0, <2>2, <2>3, <2>4 DEF LiveAgg
<1>2. ASSUME NEW u \in IpamUsers, StoreAggregate(u) PROVE ApartInv'
  BY <1>2, StoreKeepsApart
<1>3. ASSUME NEW u \in IpamUsers, PrefixCheck(u) PROVE ApartInv'
  <2>1. ireq'[u].pc = "pref" /\ \A v \in IpamUsers \ {u} : ireq'[v] = ireq[v]
    BY <1>3, PrefixChecked
  <2>2. UNCHANGED <<agg, imported, raced>>
    BY <1>3 DEF PrefixCheck
  <2>. QED
    BY <1>0, <2>1, <2>2 DEF ApartInv, Checked, LiveAgg
<1>4. ASSUME NEW u \in IpamUsers, StorePrefix(u) PROVE ApartInv'
  <2>1. UNCHANGED <<agg, imported, raced>> /\ ireq'[u] = IpamIdle
    BY <1>4, PrefixStored
  <2>2. ASSUME NEW v \in IpamUsers \ {u} PROVE Checked(ireq[v])'
    <3>1. ireq'[v] \in {ireq[v], [ireq[v] EXCEPT !.stale = TRUE]}
      BY <1>0, <1>4 DEF StorePrefix, ApartInv, IpamTypeOK
    <3>2. [ireq[v] EXCEPT !.stale = TRUE].stale = TRUE
      BY StaleTyped DEF IpamTypeOK
    <3>. QED
      BY <2>1, <3>1, <3>2 DEF ApartInv, Checked, LiveAgg
  <2>. QED
    BY <1>0, <2>1, <2>2, IpamIdleTyped DEF Checked, LiveAgg
<1>5. ASSUME NEW u \in IpamUsers, NEW N \in SUBSET Nets, NEW n \in Nets, ImportAggregates(u, N, n)
      PROVE  ApartInv'
  <2>1. PICK S, f :
          /\ S \subseteq Aggregates
          /\ \A a \in S : f[a] \in N /\ agg[a].state = "fresh"
          /\ agg' = [a \in Aggregates |-> IF a \in S
                        THEN [state |-> "live", net |-> f[a]] ELSE agg[a]]
          /\ imported' = imported \cup S
    BY <1>5, AggregatesImported
  <2>2. /\ ireq'[u].pc = "import" /\ \A v \in IpamUsers \ {u} : ireq'[v] = ireq[v]
        /\ raced' = raced
    BY <1>5, ImportLocal, Written DEF ImportAggregates
  <2>3. \A b \in Aggregates \ S : agg'[b] = agg[b]
    BY <2>1
  <2>4. CheckedAggregatesDisjoint'
    BY <2>1, <2>2, <2>3 DEF ApartInv, CheckedAggregatesDisjoint, LiveAgg
  <2>5. \A v \in IpamUsers \ {u} : Checked(ireq[v])'
    BY <2>1, <2>2, <2>3 DEF ApartInv, Checked, LiveAgg
  <2>6. Checked(ireq[u])'
    BY <2>2 DEF Checked
  <2>. QED
    BY <2>4, <2>5, <2>6 DEF ApartInv
<1>6. ASSUME NEW a \in Aggregates, DeleteAggregate(a) PROVE ApartInv'
  <2>1. /\ UNCHANGED <<ireq, imported, raced>> /\ ~LiveAgg(a)'
        /\ \A b \in Aggregates \ {a} : agg'[b] = agg[b]
    BY <1>6 DEF DeleteAggregate, IpamTypeOK, LiveAgg
  <2>2. \A v \in IpamUsers : Checked(ireq[v])'
    BY <2>1 DEF ApartInv, Checked, LiveAgg
  <2>. QED
    BY <1>0, <2>1, <2>2 DEF LiveAgg
<1>7. ASSUME NEW p \in Prefixes, DeletePrefix(p) PROVE ApartInv'
  BY <1>0, <1>7 DEF DeletePrefix, ApartInv, Checked, LiveAgg
<1>8. CASE UNCHANGED ipamVars
  BY <1>0, <1>8 DEF ipamVars, ApartInv, Checked, LiveAgg
<1>. QED
  BY <1>1, <1>2, <1>3, <1>4, <1>5, <1>6, <1>7, <1>8, IpamSteps

(* Aggregates that overlap were imported unchecked, or were checked before *)
(* the other was committed.                                                *)
THEOREM AggregatesApart == IpamSpec => []CheckedAggregatesDisjoint
<1>1. IpamInit => ApartInv
  <2>1. SUFFICES ASSUME IpamInit PROVE ApartInv
    OBVIOUS
  <2>2. IpamTypeOK
    BY <2>1, IpamIdleTyped DEF IpamInit, IpamTypeOK, NoPref
  <2>3. \A a \in Aggregates : ~LiveAgg(a)
    BY <2>1 DEF IpamInit, NoAgg, LiveAgg
  <2>4. \A u \in IpamUsers : ireq[u].pc = "idle"
    BY <2>1, IpamIdleTyped DEF IpamInit
  <2>. QED
    BY <2>2, <2>3, <2>4 DEF ApartInv, Checked, CheckedAggregatesDisjoint
<1>2. ApartInv => CheckedAggregatesDisjoint
  BY DEF ApartInv
<1>. QED
  BY <1>1, <1>2, NextApart, PTL DEF IpamSpec

-----------------------------------------------------------------------------
(* Prefixes.                                                               *)

(* What a write of a prefix that is under way may rely on until it is      *)
(* marked: its network fits the aggregate it was checked against, and an   *)
(* update that leaves the aggregate alone was checked against its own.     *)
Relies(r) ==
    r.pc = "pref" =>
        /\ r.row = 0 \/ r.row \in Prefixes
        /\ r.row = 0 => r.link
        /\ r.link /\ r.agg # 0 => r.checked = r.agg
        /\ r.checked # 0 => agg[r.checked].state # "fresh"
        /\ ~r.stale /\ ~r.link /\ r.net # NoNet /\ LivePref(r.row) => pref[r.row].agg \in {0, r.checked}
        /\ ~r.stale /\ r.checked # 0 /\ LiveAgg(r.checked) /\ (r.row # 0 => LivePref(r.row))
           => SubnetOf(Resulting(r.row, r.net), agg[r.checked].net)

(* Rows that are not live.                                                 *)
Empty(p) ==
    /\ ~LivePref(p) => pref[p].agg = 0
    /\ pref[p].state = "fresh" => pref[p].net = NoNet

InsideInv ==
    /\ IpamTypeOK
    /\ PrefixInside
    /\ \A p \in Prefixes : Empty(p)
    /\ \A u \in IpamUsers : Relies(ireq[u])

LEMMA LinkTyped ==
    ASSUME IpamTypeOK
    PROVE  /\ \A p \in Prefixes : pref[p].agg \in Aggregates \cup {0}
           /\ \A u \in IpamUsers : ireq[u].checked \in Aggregates \cup {0}
                                   /\ ireq[u].agg \in Aggregates \cup {0} /\ ireq[u].link \in BOOLEAN
BY DEF IpamTypeOK, PrefRow, IpamRequest

(* A mark changes nothing else of a request.                               *)
LEMMA StaleOnly ==
    ASSUME NEW r \in IpamRequest, NEW s, s = [r EXCEPT !.stale = TRUE]
    PROVE  /\ s.pc = r.pc /\ s.row = r.row /\ s.net = r.net /\ s.agg = r.agg
           /\ s.link = r.link /\ s.checked = r.checked /\ s.stale
BY DEF IpamRequest

(* Steps that leave the rows of the prefixes alone, and the aggregate the  *)
(* request was checked against, unless they delete it.                     *)
LEMMA AggregatesMove ==
    ASSUME IpamTypeOK, NEW v \in IpamUsers, Relies(ireq[v]), pref' = pref, ireq'[v] = ireq[v],
           \A b \in Aggregates : b = ireq[v].checked /\ agg[b].state # "fresh" =>
                /\ agg'[b].state # "fresh"
                /\ LiveAgg(b)' => agg'[b] = agg[b]
    PROVE  Relies(ireq[v])'
BY LinkTyped DEF Relies, LivePref, LiveAgg, Resulting

LEMMA StoreAggregateKeepsInside ==
    ASSUME InsideInv, NEW u \in IpamUsers, StoreAggregate(u), IpamTypeOK'
    PROVE  InsideInv'
<1>. IpamTypeOK /\ ireq'[u] = IpamIdle /\ pref' = pref
  BY AggregateStored DEF InsideInv
<1>0. /\ \A p \in Prefixes : Empty(p)'
      /\ Relies(ireq[u])'
  BY IpamIdleTyped DEF InsideInv, Empty, LivePref, Relies
<1>1. CASE /\ \A v \in IpamUsers \ {u} : ireq'[v] = ireq[v]
           /\ UNCHANGED <<agg, imported, raced, strayed>>
  <2>1. \A v \in IpamUsers \ {u} : Relies(ireq[v])'
    BY <1>1, AggregatesMove DEF InsideInv
  <2>. QED
    BY <1>0, <1>1, <2>1 DEF InsideInv, PrefixInside
<1>2. ASSUME NEW a \in Aggregates,
             agg' = [agg EXCEPT ![a] = [state |-> "live", net |-> ireq[u].net]],
             \A v \in IpamUsers \ {u} :
                ireq'[v] = IF \/ ireq[v].pc = "agg"
                              \/ ireq[v].pc = "pref" /\ ireq[v].checked = a
                           THEN [ireq[v] EXCEPT !.stale = TRUE] ELSE ireq[v],
             strayed' = strayed \cup Members(a)
      PROVE  InsideInv'
  <2>1. agg'[a].state = "live" /\ \A b \in Aggregates \ {a} : agg'[b] = agg[b]
    BY <1>2 DEF IpamTypeOK
  <2>2. ASSUME NEW v \in IpamUsers \ {u} PROVE Relies(ireq[v])'
    <3>1. CASE ireq[v].pc = "agg" \/ (ireq[v].pc = "pref" /\ ireq[v].checked = a)
      <4>1. PICK s : s = [ireq[v] EXCEPT !.stale = TRUE]
        OBVIOUS
      <4>2. /\ s.pc = ireq[v].pc /\ s.row = ireq[v].row /\ s.net = ireq[v].net /\ s.agg = ireq[v].agg
            /\ s.link = ireq[v].link /\ s.checked = ireq[v].checked /\ s.stale
        BY <4>1, StaleOnly DEF IpamTypeOK
      <4>3. ireq'[v] = s
        BY <1>2, <3>1, <4>1
      <4>. QED
        BY <2>1, <3>1, <4>2, <4>3 DEF InsideInv, Relies
    <3>2. CASE ~(ireq[v].pc = "agg" \/ (ireq[v].pc = "pref" /\ ireq[v].checked = a))
      <4>1. ireq'[v] = ireq[v]
        BY <1>2, <3>2
      <4>2. CASE ireq[v].pc = "pref"
        BY <2>1, <3>2, <4>1, <4>2, AggregatesMove DEF InsideInv
      <4>3. CASE ireq[v].pc # "pref"
        BY <4>1, <4>3 DEF Relies
      <4>. QED
        BY <4>2, <4>3
    <3>. QED
      BY <3>1, <3>2
  <2>3. PrefixInside'
    <3>1. SUFFICES ASSUME NEW p \in Prefixes, p \notin strayed', pref[p].agg # 0
                   PROVE  SubnetOf(pref[p].net, agg'[pref[p].agg].net)
      BY DEF PrefixInside
    <3>2. pref[p].agg # a /\ p \notin strayed
      BY <1>2, <3>1 DEF InsideInv, Empty, Members
    <3>3. pref[p].agg \in Aggregates \ {a}
      BY <3>1, <3>2, LinkTyped
    <3>. QED
      BY <2>1, <3>1, <3>2, <3>3 DEF InsideInv, PrefixInside
  <2>. QED
    BY <1>0, <2>2, <2>3 DEF InsideInv
<1>. QED
  BY <1>1, <1>2, AggregateStored

LEMMA PrefixCheckKeepsInside ==
    ASSUME InsideInv, NEW u \in IpamUsers, PrefixCheck(u), IpamTypeOK'
    PROVE  InsideInv'
<1>. IpamTypeOK
  BY DEF InsideInv
<1>1. UNCHANGED <<agg, pref, strayed>>
  BY DEF PrefixCheck
<1>2. /\ \A v \in IpamUsers \ {u} : ireq'[v] = ireq[v]
      /\ ireq'[u].pc = "pref" /\ ireq'[u].row \in Prefixes \cup {0}
      /\ Sound(ireq'[u].row, ireq'[u].net, ireq'[u].agg, ireq'[u].link, ireq'[u].checked)
  BY PrefixChecked
<1>3. Relies(ireq[u])'
  BY <1>1, <1>2, Ids DEF Relies, Sound, LiveAgg, LivePref, Resulting
<1>4. \A v \in IpamUsers \ {u} : Relies(ireq[v])'
  BY <1>1, <1>2, AggregatesMove DEF InsideInv
<1>. QED
  BY <1>1, <1>3, <1>4 DEF InsideInv, PrefixInside, Empty, LivePref

LEMMA StorePrefixKeepsInside ==
    ASSUME InsideInv, NEW u \in IpamUsers, StorePrefix(u), IpamTypeOK'
    PROVE  InsideInv'
<1>. IpamTypeOK /\ ireq'[u] = IpamIdle /\ agg' = agg /\ ireq[u].pc = "pref"
  BY PrefixStored DEF InsideInv
<1>0. Relies(ireq[u])'
  BY IpamIdleTyped DEF Relies
<1>1. CASE /\ \A v \in IpamUsers \ {u} : ireq'[v] = ireq[v]
           /\ UNCHANGED <<pref, strayed>>
  <2>1. \A v \in IpamUsers \ {u} : Relies(ireq[v])'
    BY <1>1, AggregatesMove DEF InsideInv
  <2>. QED
    BY <1>0, <1>1, <2>1 DEF InsideInv, PrefixInside, Empty, LivePref
<1>2. ASSUME NEW p \in Prefixes,
             \/ ireq[u].row = p /\ LivePref(p)
             \/ ireq[u].row = 0 /\ pref[p].state = "fresh",
             ireq[u].link /\ ireq[u].agg # 0 => LiveAgg(ireq[u].agg),
             pref'[p].state = "live",
             pref'[p].net = IF ireq[u].net = NoNet THEN pref[p].net ELSE ireq[u].net,
             pref'[p].agg = IF ireq[u].link THEN ireq[u].agg ELSE pref[p].agg,
             \A q \in Prefixes \ {p} : pref'[q] = pref[q],
             \A v \in IpamUsers \ {u} :
                ireq'[v] = IF ireq[v].pc = "pref" /\ ireq[v].row = p
                           THEN [ireq[v] EXCEPT !.stale = TRUE] ELSE ireq[v],
             strayed' = IF ireq[u].stale THEN strayed \cup {p}
                        ELSE IF ireq[u].link \/ ireq[u].net # NoNet THEN strayed \ {p}
                        ELSE strayed
      PROVE  InsideInv'
  <2>1. \A q \in Prefixes : Empty(q)'
    BY <1>2 DEF InsideInv, Empty, LivePref
  <2>2. ASSUME NEW v \in IpamUsers \ {u} PROVE Relies(ireq[v])'
    <3>1. CASE ireq[v].pc = "pref" /\ ireq[v].row = p
      <4>1. PICK s : s = [ireq[v] EXCEPT !.stale = TRUE]
        OBVIOUS
      <4>2. /\ s.pc = ireq[v].pc /\ s.row = ireq[v].row /\ s.net = ireq[v].net /\ s.agg = ireq[v].agg
            /\ s.link = ireq[v].link /\ s.checked = ireq[v].checked /\ s.stale
        BY <4>1, StaleOnly DEF IpamTypeOK
      <4>3. ireq'[v] = s
        BY <1>2, <3>1, <4>1
      <4>. QED
        BY <3>1, <4>2, <4>3 DEF InsideInv, Relies
    <3>2. CASE ~(ireq[v].pc = "pref" /\ ireq[v].row = p)
      <4>1. ireq'[v] = ireq[v]
        BY <1>2, <3>2
      <4>2. CASE ireq[v].pc = "pref"
        BY <1>2, <3>2, <4>1, <4>2 DEF InsideInv, Relies, LivePref, LiveAgg, Resulting
      <4>3. CASE ireq[v].pc # "pref"
        BY <4>1, <4>3 DEF Relies
      <4>. QED
        BY <4>2, <4>3
    <3>. QED
      BY <3>1, <3>2
  <2>3. ASSUME p \notin strayed', pref'[p].agg # 0
        PROVE  SubnetOf(pref'[p].net, agg[pref'[p].agg].net)
    <3>1. ~ireq[u].stale
      BY <1>2, <2>3
    <3>2. CASE ~ireq[u].link /\ ireq[u].net = NoNet
      <4>1. p \notin strayed /\ pref'[p].net = pref[p].net /\ pref'[p].agg = pref[p].agg
        BY <1>2, <2>3, <3>1, <3>2
      <4>. QED
        BY <2>3, <4>1 DEF InsideInv, PrefixInside
    <3>3. CASE ireq[u].link \/ ireq[u].net # NoNet
      <4>1. pref'[p].net = Resulting(ireq[u].row, ireq[u].net)
        BY <1>2, Ids DEF InsideInv, Empty, Resulting
      <4>2. pref'[p].agg = ireq[u].checked
        BY <1>2, <2>3, <3>1, <3>3 DEF InsideInv, Relies
      <4>3. ireq[u].row # 0 => LivePref(ireq[u].row)
        BY <1>2
      <4>4. LiveAgg(ireq[u].checked)
        BY <1>2, <2>3, <4>2 DEF IpamTypeOK
      <4>. QED
        BY <2>3, <3>1, <4>1, <4>2, <4>3, <4>4 DEF InsideInv, Relies
    <3>. QED
      BY <3>2, <3>3
  <2>4. PrefixInside'
    <3>1. SUFFICES ASSUME NEW q \in Prefixes, q \notin strayed', pref'[q].agg # 0
                   PROVE  SubnetOf(pref'[q].net, agg[pref'[q].agg].net)
      BY DEF PrefixInside
    <3>2. CASE q = p
      BY <2>3, <3>1, <3>2
    <3>3. CASE q # p
      <4>1. q \notin strayed /\ pref'[q] = pref[q]
        BY <1>2, <3>1, <3>3
      <4>. QED
        BY <3>1, <4>1 DEF InsideInv, PrefixInside
    <3>. QED
      BY <3>2, <3>3
  <2>. QED
    BY <1>0, <2>1, <2>2, <2>4 DEF InsideInv
<1>. QED
  BY <1>1, <1>2, PrefixStored

LEMMA NextInside == InsideInv /\ [IpamNext]_ipamVars => InsideInv'
<1>. SUFFICES ASSUME InsideInv, [IpamNext]_ipamVars PROVE InsideInv'
  OBVIOUS
<1>. IpamTypeOK /\ IpamTypeOK'
  BY NextIpamTypes DEF InsideInv
<1>1. ASSUME NEW u \in IpamUsers, NEW a \in Aggregates \cup {0}, NEW n \in Nets, CheckAggregate(u, a, n)
      PROVE  InsideInv'
  <2>1. /\ ireq'[u].pc = "agg" /\ \A v \in IpamUsers \ {u} : ireq'[v] = ireq[v]
    BY <1>1, AggregateChecked
  <2>2. UNCHANGED <<agg, pref, strayed>>
    BY <1>1 DEF CheckAggregate
  <2>3. \A v \in IpamUsers \ {u} : Relies(ireq[v])'
    BY <2>1, <2>2, AggregatesMove DEF InsideInv
  <2>4. Relies(ireq[u])'
    BY <2>1 DEF Relies
  <2>. QED
    BY <2>2, <2>3, <2>4 DEF InsideInv, PrefixInside, Empty, LivePref
<1>2. ASSUME NEW u \in IpamUsers, StoreAggregate(u) PROVE InsideInv'
  BY <1>2, StoreAggregateKeepsInside
<1>3. ASSUME NEW u \in IpamUsers, PrefixCheck(u) PROVE InsideInv'
  BY <1>3, PrefixCheckKeepsInside
<1>4. ASSUME NEW u \in IpamUsers, StorePrefix(u) PROVE InsideInv'
  BY <1>4, StorePrefixKeepsInside
<1>5. ASSUME NEW u \in IpamUsers, NEW N \in SUBSET Nets, NEW n \in Nets, ImportAggregates(u, N, n)
      PROVE  InsideInv'
  <2>1. PICK S, f :
          /\ S \subseteq Aggregates
          /\ \A a \in S : f[a] \in N /\ agg[a].state = "fresh"
          /\ agg' = [a \in Aggregates |-> IF a \in S
                        THEN [state |-> "live", net |-> f[a]] ELSE agg[a]]
          /\ imported' = imported \cup S
    BY <1>5, AggregatesImported
  <2>2. /\ ireq'[u].pc = "import" /\ \A v \in IpamUsers \ {u} : ireq'[v] = ireq[v]
        /\ UNCHANGED <<pref, strayed>>
    BY <1>5, ImportLocal, Written DEF ImportAggregates
  <2>3. \A b \in Aggregates : agg[b].state # "fresh" => agg'[b] = agg[b]
    BY <2>1
  <2>4. \A v \in IpamUsers \ {u} : Relies(ireq[v])'
    BY <2>2, <2>3, AggregatesMove DEF InsideInv
  <2>5. Relies(ireq[u])'
    BY <2>2 DEF Relies
  <2>6. PrefixInside'
    BY <2>2, <2>3, LinkTyped DEF InsideInv, PrefixInside, IpamTypeOK, LiveAgg
  <2>. QED
    BY <2>2, <2>4, <2>5, <2>6 DEF InsideInv, Empty, LivePref
<1>6. ASSUME NEW a \in Aggregates, DeleteAggregate(a) PROVE InsideInv'
  <2>1. /\ UNCHANGED <<ireq, strayed>> /\ agg'[a].state = "gone"
        /\ \A b \in Aggregates \ {a} : agg'[b] = agg[b]
    BY <1>6 DEF DeleteAggregate, IpamTypeOK
  <2>2. \A p \in Prefixes : /\ pref'[p].state = pref[p].state /\ pref'[p].net = pref[p].net
                            /\ pref'[p].agg = IF pref[p].agg = a THEN 0 ELSE pref[p].agg
    <3>1. \A p \in Prefixes : LET r == [pref[p] EXCEPT !.agg = 0]
                              IN  r.state = pref[p].state /\ r.net = pref[p].net /\ r.agg = 0
      BY DEF IpamTypeOK, PrefRow
    <3>. QED
      BY <1>6, <3>1 DEF DeleteAggregate, Released
  <2>3. PrefixInside'
    BY <2>1, <2>2, LinkTyped DEF InsideInv, PrefixInside
  <2>4. \A p \in Prefixes : Empty(p)'
    BY <2>2 DEF InsideInv, Empty, LivePref
  <2>5. ASSUME NEW v \in IpamUsers PROVE Relies(ireq[v])'
    BY <2>1, <2>2, LinkTyped DEF InsideInv, Relies, LivePref, LiveAgg, Resulting
  <2>. QED
    BY <2>3, <2>4, <2>5 DEF InsideInv
<1>7. ASSUME NEW p \in Prefixes, DeletePrefix(p) PROVE InsideInv'
  <2>1. /\ UNCHANGED <<agg, ireq, strayed>>
        /\ pref'[p].state = "gone" /\ pref'[p].agg = 0
        /\ \A q \in Prefixes \ {p} : pref'[q] = pref[q]
    BY <1>7 DEF DeletePrefix, IpamTypeOK
  <2>2. PrefixInside'
    BY <2>1 DEF InsideInv, PrefixInside
  <2>3. \A q \in Prefixes : Empty(q)'
    BY <2>1 DEF InsideInv, Empty, LivePref
  <2>4. ASSUME NEW v \in IpamUsers PROVE Relies(ireq[v])'
    BY <2>1 DEF InsideInv, Relies, LivePref, LiveAgg, Resulting
  <2>. QED
    BY <2>2, <2>3, <2>4 DEF InsideInv
<1>8. CASE UNCHANGED ipamVars
  BY <1>8 DEF ipamVars, InsideInv, PrefixInside, Empty, Relies, LivePref, LiveAgg, Resulting
<1>. QED
  BY <1>1, <1>2, <1>3, <1>4, <1>5, <1>6, <1>7, <1>8, IpamSteps

(* A prefix lies inside its aggregate unless the aggregate was changed or  *)
(* another write of either came between the check and the commit.          *)
THEOREM PrefixesInside == IpamSpec => []PrefixInside
<1>1. IpamInit => InsideInv
  <2>1. SUFFICES ASSUME IpamInit PROVE InsideInv
    OBVIOUS
  <2>2. IpamTypeOK
    BY <2>1, IpamIdleTyped DEF IpamInit, IpamTypeOK, NoPref
  <2>3. \A p \in Prefixes : pref[p].agg = 0 /\ pref[p].net = NoNet
    BY <2>1 DEF IpamInit, NoPref
  <2>4. \A u \in IpamUsers : ireq[u].pc = "idle"
    BY <2>1, IpamIdleTyped DEF IpamInit
  <2>. QED
    BY <2>2, <2>3, <2>4 DEF InsideInv, PrefixInside, Empty, Relies
<1>2. InsideInv => PrefixInside
  BY DEF InsideInv
<1>. QED
  BY <1>1, <1>2, NextInside, PTL DEF IpamSpec

-----------------------------------------------------------------------------
(* The invariant of the computations of IpamRanges.                        *)

(* An address that is in a gap or in a range.                              *)
Kept(a) == \/ \E g \in gaps : g.lo <= a /\ a <= g.hi
           \/ \E b \in ranges : b.lo <= a /\ a <= Hi(b)

(* Addresses the loop has passed are kept or covered.                      *)
NothingMissed ==
    /\ rpc = "gaps" => /\ net.lo <= low
                       /\ \A a \in Addresses(net) : a < low => Kept(a) \/ a \in Covered
    /\ rpc = "split" => \A a \in Addresses(net) : Kept(a) \/ a \in Covered

(* Gaps come in order, before what is to do; they and the ranges are apart.*)
InOrder ==
    /\ rpc \in {"idle", "count"} => gaps = {}
    /\ rpc # "split" => ranges = {}
    /\ rpc = "gaps" => \A g \in gaps : g.hi < low /\ \A b \in todo : g.hi < b.lo
    /\ \A g, h \in gaps : g = h \/ g.hi < h.lo \/ h.hi < g.lo
    /\ \A g \in gaps, b \in ranges : Hi(b) < g.lo \/ g.hi < b.lo
    /\ \A b, c \in ranges : b = c \/ ~Overlaps(b, c)

(* Members that are inside and apart come before low or after it, and      *)
(* nothing that is kept is theirs.                                         *)
OnlyFree ==
    MembersInside /\ MembersApart =>
        /\ rpc = "gaps" => /\ \A b \in todo : low <= b.lo
                           /\ \A b \in members \ todo : Hi(b) < low
        /\ \A g \in gaps, m \in members : g.hi < m.lo \/ Hi(m) < g.lo
        /\ \A b \in ranges, m \in members : ~Overlaps(b, m)

(* What is used is the number of addresses of the members counted.         *)
CountExact ==
    /\ rpc = "idle" => used = 0
    /\ rpc = "count" => IsFiniteSet(AddressesIn(members \ todo))
    /\ rpc \in {"gaps", "split"} => IsFiniteSet(Covered)
    /\ MembersApart =>
         /\ rpc = "count" => used = Cardinality(AddressesIn(members \ todo))
         /\ rpc \in {"gaps", "split"} => used = Cardinality(Covered)

RangesInv == RangesTypeOK /\ NothingMissed /\ InOrder /\ OnlyFree /\ CountExact

-----------------------------------------------------------------------------
(* Blocks.                                                                 *)

LEMMA BlockFacts ==
    ASSUME NEW b \in Blocks
    PROVE  b.lo \in Nat /\ b.size \in Nat /\ Hi(b) \in Nat /\ b.lo <= Hi(b) /\ Hi(b) = b.lo + b.size - 1
<1>1. Top \in Int
  BY WidthAssumption DEF Top
<1>2. b.lo \in 0 .. Top /\ b.size \in Sizes
  BY DEF Blocks
<1>3. b.size \in 1 .. Top + 1
  BY <1>2 DEF Sizes
<1>. QED
  BY <1>1, <1>2, <1>3 DEF Hi

LEMMA AddressFacts ==
    ASSUME NEW b \in Blocks, NEW a
    PROVE  a \in Addresses(b) <=> a \in Nat /\ b.lo <= a /\ a <= Hi(b)
BY BlockFacts DEF Addresses

LEMMA InAddresses == ASSUME NEW S, NEW a PROVE a \in AddressesIn(S) <=> \E b \in S : a \in Addresses(b)
BY DEF AddressesIn

LEMMA SpanFacts ==
    ASSUME NEW x \in Nat, NEW y \in Nat
    PROVE  LET g == [lo |-> x, hi |-> y] IN g \in [lo : Nat, hi : Nat] /\ g.lo = x /\ g.hi = y
OBVIOUS

(* The numbers a state is made of.                                         *)
LEMMA RangesFacts ==
    ASSUME RangesTypeOK
    PROVE  /\ net.lo \in Nat /\ Hi(net) \in Nat /\ net.lo <= Hi(net) /\ low \in Nat
           /\ \A g \in gaps : g.lo \in Nat /\ g.hi \in Nat /\ net.lo <= g.lo /\ g.lo <= g.hi /\ g.hi <= Hi(net)
           /\ \A b \in members : b \in Blocks /\ b.lo \in Nat /\ Hi(b) \in Nat /\ b.lo <= Hi(b)
           /\ \A b \in todo : b \in members
           /\ \A b \in ranges : b \in Blocks /\ b.lo \in Nat /\ Hi(b) \in Nat /\ b.lo <= Hi(b)
BY BlockFacts DEF RangesTypeOK, members

-----------------------------------------------------------------------------
(* The steps.                                                              *)

LEMMA SameMembers == ASSUME UNCHANGED rows PROVE UNCHANGED members
BY DEF members

LEMMA RangesStart == RangesInit => RangesInv
<1> SUFFICES ASSUME RangesInit PROVE RangesInv
  OBVIOUS
<1>1. RangesTypeOK
  BY DEF RangesInit, RangesTypeOK, members
<1>2. NothingMissed /\ InOrder /\ OnlyFree /\ CountExact
  BY DEF RangesInit, NothingMissed, InOrder, OnlyFree, CountExact
<1>. QED
  BY <1>1, <1>2 DEF RangesInv

LEMMA AddMemberInv == ASSUME RangesInv, NEW b \in Blocks, AddMember(b) PROVE RangesInv'
<1>1. RangesTypeOK'
  <2>1. rows \in [Blocks -> Nat] /\ rows' = [rows EXCEPT ![b] = rows[b] + 1]
    BY DEF RangesInv, RangesTypeOK, AddMember
  <2>2. rows' \in [Blocks -> Nat] /\ \A c \in Blocks : rows[c] > 0 => rows'[c] > 0
    BY <2>1
  <2>3. members \subseteq members'
    BY <2>2 DEF members
  <2>. QED
    BY <2>2, <2>3 DEF RangesInv, RangesTypeOK, AddMember
<1>2. NothingMissed' /\ InOrder'
  BY DEF RangesInv, NothingMissed, InOrder, AddMember
<1>3. gaps' = {} /\ ranges' = {} /\ used' = used /\ rpc' = "idle"
  BY DEF RangesInv, InOrder, AddMember
<1>4. OnlyFree'
  BY <1>3 DEF OnlyFree
<1>5. used = 0
  BY DEF RangesInv, CountExact, AddMember
<1>. QED
  BY <1>1, <1>2, <1>3, <1>4, <1>5 DEF RangesInv, CountExact

LEMMA StartCountInv == ASSUME RangesInv, StartCount PROVE RangesInv'
<1>0. UNCHANGED members
  BY SameMembers DEF StartCount
<1>1. RangesTypeOK'
  BY <1>0 DEF RangesInv, RangesTypeOK, StartCount
<1>2. NothingMissed' /\ InOrder' /\ OnlyFree'
  BY <1>0 DEF RangesInv, NothingMissed, InOrder, OnlyFree, StartCount, MembersInside, MembersApart
<1>3. AddressesIn(members \ todo)' = {} /\ used' = 0 /\ rpc' = "count"
  BY <1>0 DEF RangesInv, CountExact, StartCount, AddressesIn
<1>4. CountExact'
  BY <1>3, FS_EmptySet DEF CountExact
<1>. QED
  BY <1>1, <1>2, <1>4 DEF RangesInv

(* The addresses of one more member, when members are apart.               *)
LEMMA OneMore ==
    ASSUME RangesTypeOK, NEW b \in todo, IsFiniteSet(AddressesIn(members \ todo))
    PROVE  LET all == AddressesIn(members \ (todo \ {b}))
           IN  /\ IsFiniteSet(all)
               /\ MembersApart => Cardinality(all) = Cardinality(AddressesIn(members \ todo)) + b.size
<1> DEFINE old == AddressesIn(members \ todo)
<1>1. b \in members /\ b \in Blocks
  BY RangesFacts
<1>2. AddressesIn(members \ (todo \ {b})) = old \cup Addresses(b)
  BY <1>1 DEF AddressesIn
<1>3. IsFiniteSet(Addresses(b)) /\ Cardinality(Addresses(b)) = b.size
  <2>1. b.lo \in Int /\ Hi(b) \in Int /\ ~(b.lo > Hi(b)) /\ Hi(b) - b.lo + 1 = b.size
    BY <1>1, BlockFacts
  <2>. QED
    BY <2>1, FS_Interval DEF Addresses
<1>4. ASSUME MembersApart PROVE old \cap Addresses(b) = {}
  <2>1. SUFFICES ASSUME NEW c \in members \ todo, NEW a \in Addresses(c), a \in Addresses(b) PROVE FALSE
    BY DEF AddressesIn
  <2>2. c \in Blocks /\ c # b
    BY <2>1, RangesFacts
  <2>3. Overlaps(b, c)
    BY <1>1, <2>1, <2>2, AddressFacts, BlockFacts DEF Overlaps
  <2>. QED
    BY <1>1, <1>4, <2>2, <2>3 DEF MembersApart
<1>5. /\ IsFiniteSet(old \cup Addresses(b))
      /\ Cardinality(old \cup Addresses(b)) = Cardinality(old) + b.size - Cardinality(old \cap Addresses(b))
  BY <1>3, FS_Union
<1>6. Cardinality(old) \in Nat /\ b.size \in Nat /\ Cardinality({}) = 0
  BY <1>1, BlockFacts, FS_CardinalityType, FS_EmptySet
<1>7. MembersApart => Cardinality(old \cup Addresses(b)) = Cardinality(old) + b.size
  <2>1. MembersApart => Cardinality(old \cap Addresses(b)) = 0
    BY <1>4, <1>6
  <2> HIDE DEF old
  <2>. QED
    BY <1>5, <1>6, <2>1
<1>. QED
  BY <1>2, <1>5, <1>7

LEMMA CountMemberInv == ASSUME RangesInv, NEW b \in todo, CountMember(b) PROVE RangesInv'
<1>0. UNCHANGED <<rows, members>>
  BY SameMembers DEF CountMember
<1>1. b \in Blocks /\ b.size \in Nat /\ rows[b] \in Nat /\ b \in members
  BY RangesFacts, BlockFacts DEF RangesInv, RangesTypeOK
<1>2. RangesTypeOK'
  <2>1. rows[b] * b.size \in Nat
    BY <1>1
  <2>2. used' \in Nat
    BY <2>1 DEF RangesInv, RangesTypeOK, CountMember
  <2>. QED
    BY <1>0, <2>2 DEF RangesInv, RangesTypeOK, CountMember
<1>3. NothingMissed' /\ InOrder' /\ OnlyFree'
  BY <1>0 DEF RangesInv, NothingMissed, InOrder, OnlyFree, CountMember, MembersInside, MembersApart
<1>4. /\ todo' = todo \ {b} /\ used' = used + rows[b] * b.size /\ rpc = "count" /\ rpc' = "count"
      /\ IsFiniteSet(AddressesIn(members \ todo))
      /\ MembersApart => used = Cardinality(AddressesIn(members \ todo))
  BY DEF RangesInv, CountExact, CountMember
<1>5. AddressesIn(members \ todo)' = AddressesIn(members \ (todo \ {b})) /\ MembersApart' = MembersApart
  BY <1>0, <1>4 DEF AddressesIn, MembersApart
<1>6. MembersApart => used' = used + b.size
  BY <1>1, <1>4 DEF MembersApart
<1>7. /\ IsFiniteSet(AddressesIn(members \ (todo \ {b})))
      /\ MembersApart => Cardinality(AddressesIn(members \ (todo \ {b})))
                           = Cardinality(AddressesIn(members \ todo)) + b.size
  BY <1>4, OneMore DEF RangesInv
<1>8. CountExact'
  BY <1>4, <1>5, <1>6, <1>7 DEF CountExact
<1>. QED
  BY <1>2, <1>3, <1>8 DEF RangesInv

LEMMA StartGapsInv == ASSUME RangesInv, StartGaps PROVE RangesInv'
<1>1. /\ rpc = "count" /\ rpc' = "gaps" /\ todo = {} /\ todo' = Subnets(net, members) /\ low' = net.lo
      /\ UNCHANGED <<net, rows, members, used, gaps, ranges>> /\ gaps = {} /\ ranges = {}
  BY SameMembers DEF RangesInv, InOrder, StartGaps
<1>2. RangesTypeOK'
  BY <1>1, RangesFacts DEF RangesInv, RangesTypeOK, Subnets
<1>3. NothingMissed' /\ InOrder'
  <2>1. \A a \in Addresses(net) : ~(a < net.lo)
    BY AddressFacts, RangesFacts DEF RangesInv, RangesTypeOK
  <2>. QED
    BY <1>1, <2>1, RangesFacts DEF RangesInv, NothingMissed, InOrder
<1>4. OnlyFree'
  BY <1>1 DEF OnlyFree, MembersInside, MembersApart, Subnets, SubnetOf
<1>5. CountExact'
  <2>1. members \ todo = members
    BY <1>1
  <2>2. Covered' = AddressesIn(members \ todo) /\ MembersApart' = MembersApart
    BY <1>1, <2>1 DEF Covered, AddressesIn, MembersApart
  <2>. QED
    BY <1>1, <2>2 DEF RangesInv, CountExact
<1>. QED
  BY <1>2, <1>3, <1>4, <1>5 DEF RangesInv

-----------------------------------------------------------------------------
(* Gaps.                                                                   *)

(* What a turn of the loop may add to the gaps.                            *)
SoundGaps(G) ==
    /\ \A g \in G : g \in [lo : Nat, hi : Nat] /\ g.lo = low /\ g.lo <= g.hi /\ g.hi <= Hi(net)
    /\ \A g, h \in G : g = h
    /\ MembersInside /\ MembersApart => \A g \in G, m \in members : g.hi < m.lo \/ Hi(m) < g.lo

LEMMA MoreGaps ==
    ASSUME RangesInv, rpc = "gaps", NEW G, SoundGaps(G)
    PROVE  /\ gaps \cup G \subseteq [lo : Nat, hi : Nat]
           /\ \A g \in gaps \cup G : net.lo <= g.lo /\ g.lo <= g.hi /\ g.hi <= Hi(net)
           /\ \A g, h \in gaps \cup G : g = h \/ g.hi < h.lo \/ h.hi < g.lo
           /\ MembersInside /\ MembersApart =>
                \A g \in gaps \cup G, m \in members : g.hi < m.lo \/ Hi(m) < g.lo
<1>1. net.lo <= low /\ \A g \in gaps : g.hi < low
  BY DEF RangesInv, NothingMissed, InOrder
<1>2. \A g, h \in gaps : g = h \/ g.hi < h.lo \/ h.hi < g.lo
  BY DEF RangesInv, InOrder
<1>3. \A g \in G : g \in [lo : Nat, hi : Nat] /\ g.lo = low /\ g.lo <= g.hi /\ g.hi <= Hi(net)
  BY DEF SoundGaps
<1>4. \A g, h \in G : g = h
  BY DEF SoundGaps
<1>5. gaps \cup G \subseteq [lo : Nat, hi : Nat]
  BY <1>3 DEF RangesInv, RangesTypeOK
<1>6. \A g \in gaps \cup G : net.lo <= g.lo /\ g.lo <= g.hi /\ g.hi <= Hi(net)
  BY <1>1, <1>3, RangesFacts DEF RangesInv
<1>7. \A g, h \in gaps \cup G : g = h \/ g.hi < h.lo \/ h.hi < g.lo
  BY <1>1, <1>2, <1>3, <1>4
<1>8. MembersInside /\ MembersApart =>
        \A g \in gaps \cup G, m \in members : g.hi < m.lo \/ Hi(m) < g.lo
  BY DEF RangesInv, OnlyFree, SoundGaps
<1>. QED
  BY <1>5, <1>6, <1>7, <1>8

LEMMA GapSound ==
    ASSUME RangesInv, rpc = "gaps", NEW b \in todo, IsFirst(b, todo)
    PROVE  SoundGaps(Gap(low, b))
<1>1. b \in Blocks /\ b \in members /\ b.lo \in Nat /\ Hi(b) \in Nat /\ b.lo <= Hi(b) /\ Hi(b) <= Hi(net)
  BY RangesFacts DEF RangesInv, RangesTypeOK, SubnetOf
<1>2. ASSUME NEW g \in Gap(low, b)
      PROVE  /\ g = [lo |-> low, hi |-> b.lo - 1] /\ low < b.lo
             /\ g \in [lo : Nat, hi : Nat] /\ g.lo = low /\ g.hi = b.lo - 1
  <2>1. g = [lo |-> low, hi |-> b.lo - 1] /\ low < b.lo
    BY DEF Gap
  <2>2. low \in Nat /\ b.lo - 1 \in Nat
    BY <1>1, <2>1, RangesFacts DEF RangesInv
  <2>. QED
    BY <2>1, <2>2, SpanFacts
<1>3. ASSUME MembersInside, MembersApart, NEW g \in Gap(low, b), NEW m \in members
      PROVE  g.hi < m.lo \/ Hi(m) < g.lo
  <2>1. m.lo \in Nat /\ Hi(m) \in Nat /\ low \in Nat
    BY RangesFacts DEF RangesInv
  <2>2. CASE m \in todo
    BY <1>1, <1>2, <2>1, <2>2 DEF IsFirst
  <2>3. CASE m \notin todo
    BY <1>2, <1>3, <2>3 DEF RangesInv, OnlyFree
  <2>. QED
    BY <2>2, <2>3
<1>4. \A g \in Gap(low, b) : g.lo <= g.hi /\ g.hi <= Hi(net)
  BY <1>1, <1>2, RangesFacts DEF RangesInv
<1>. QED
  BY <1>2, <1>3, <1>4 DEF SoundGaps

Tail == IF low <= Hi(net) THEN {[lo |-> low, hi |-> Hi(net)]} ELSE {}

LEMMA TailSound ==
    ASSUME RangesInv, rpc = "gaps", todo = {} \/ low > Hi(net)
    PROVE  SoundGaps(Tail)
<1>1. low \in Nat /\ Hi(net) \in Nat
  BY RangesFacts DEF RangesInv
<1>2. ASSUME NEW g \in Tail
      PROVE  /\ g = [lo |-> low, hi |-> Hi(net)] /\ low <= Hi(net)
             /\ g \in [lo : Nat, hi : Nat] /\ g.lo = low /\ g.hi = Hi(net)
  <2>1. g = [lo |-> low, hi |-> Hi(net)] /\ low <= Hi(net)
    BY DEF Tail
  <2>. QED
    BY <1>1, <2>1, SpanFacts
<1>3. ASSUME MembersInside, MembersApart, NEW g \in Tail, NEW m \in members
      PROVE  Hi(m) < g.lo
  <2>1. todo = {}
    BY <1>1, <1>2, <1>3
  <2>. QED
    BY <1>2, <1>3, <2>1 DEF RangesInv, OnlyFree
<1>. QED
  BY <1>1, <1>2, <1>3 DEF SoundGaps

LEMMA NextSubnetInv == ASSUME RangesInv, NEW b \in todo, NextSubnet(b) PROVE RangesInv'
<1>1. /\ rpc = "gaps" /\ IsFirst(b, todo) /\ gaps' = gaps \cup Gap(low, b)
      /\ UNCHANGED <<net, rows, members, used, ranges>> /\ ranges = {}
  BY SameMembers DEF RangesInv, InOrder, NextSubnet
<1>2. /\ b \in members /\ SubnetOf(b, net) /\ b.lo \in Nat /\ Hi(b) \in Nat /\ b.lo <= Hi(b) /\ Hi(b) <= Hi(net)
      /\ \A c \in todo : c \in members /\ c.lo \in Nat /\ Hi(c) \in Nat /\ c.lo <= Hi(c) /\ b.lo <= c.lo
  BY <1>1, RangesFacts DEF RangesInv, RangesTypeOK, SubnetOf, IsFirst
<1>3. SoundGaps(Gap(low, b))
  BY <1>1, GapSound
<1>4. /\ gaps' \subseteq [lo : Nat, hi : Nat]
      /\ \A g \in gaps' : net.lo <= g.lo /\ g.lo <= g.hi /\ g.hi <= Hi(net)
      /\ \A g, h \in gaps' : g = h \/ g.hi < h.lo \/ h.hi < g.lo
      /\ MembersInside /\ MembersApart => \A g \in gaps', m \in members : g.hi < m.lo \/ Hi(m) < g.lo
  BY <1>1, <1>3, MoreGaps
<1>5. MembersInside' = MembersInside /\ MembersApart' = MembersApart /\ Covered' = Covered
  BY <1>1 DEF MembersInside, MembersApart, Covered
<1>6. CASE Hi(b) = Top
  <2>1. rpc' = "raised" /\ UNCHANGED <<todo, low>>
    BY <1>6 DEF NextSubnet
  <2>2. RangesTypeOK'
    BY <1>1, <1>4, <2>1 DEF RangesInv, RangesTypeOK
  <2>3. NothingMissed' /\ InOrder'
    BY <1>1, <1>4, <2>1 DEF NothingMissed, InOrder
  <2>4. OnlyFree' /\ CountExact'
    BY <1>1, <1>4, <1>5, <2>1 DEF OnlyFree, CountExact
  <2>. QED
    BY <2>2, <2>3, <2>4 DEF RangesInv
<1>7. CASE Hi(b) # Top
  <2>1. todo' = todo \ {b} /\ low' = Hi(b) + 1 /\ rpc' = "gaps"
    BY <1>1, <1>7 DEF NextSubnet, LowAfter
  <2>2. RangesTypeOK'
    BY <1>1, <1>2, <1>4, <2>1 DEF RangesInv, RangesTypeOK
  <2>3. NothingMissed'
    <3>1. net.lo \in Nat /\ low \in Nat /\ net.lo <= b.lo
      BY <1>2, RangesFacts DEF RangesInv, SubnetOf
    <3>2. net.lo <= low'
      BY <1>2, <2>1, <3>1
    <3>3. ASSUME NEW a \in Addresses(net), a < low' PROVE Kept(a)' \/ a \in Covered
      <4>1. a \in Nat
        BY AddressFacts DEF RangesInv, RangesTypeOK
      <4>2. CASE a < low
        <5>1. Kept(a) \/ a \in Covered
          BY <1>1, <4>2 DEF RangesInv, NothingMissed
        <5>2. Kept(a) => Kept(a)'
          BY <1>1 DEF Kept
        <5>. QED
          BY <5>1, <5>2
      <4>3. CASE low <= a /\ a < b.lo
        <5>1. low < b.lo
          BY <1>2, <3>1, <4>1, <4>3
        <5>2. [lo |-> low, hi |-> b.lo - 1] \in gaps'
          BY <1>1, <5>1 DEF Gap
        <5>3. a <= b.lo - 1
          BY <1>2, <4>1, <4>3
        <5>. QED
          BY <4>3, <5>2, <5>3 DEF Kept
      <4>4. CASE b.lo <= a
        <5>1. a <= Hi(b) /\ b \in Blocks
          BY <1>2, <2>1, <3>3, <4>1, RangesFacts DEF RangesInv
        <5>2. a \in Addresses(b)
          BY <4>1, <4>4, <5>1, AddressFacts
        <5>. QED
          BY <1>2, <5>2, InAddresses DEF Covered
      <4>. QED
        BY <1>2, <3>1, <4>1, <4>2, <4>3, <4>4
    <3>4. Addresses(net)' = Addresses(net)
      BY <1>1
    <3>. QED
      BY <1>1, <1>5, <2>1, <3>2, <3>3, <3>4 DEF NothingMissed
  <2>4. InOrder'
    <3>1. ASSUME NEW g \in gaps' PROVE g.hi < low' /\ \A c \in todo' : g.hi < c.lo
      <4>1. g.hi < b.lo
        <5>1. CASE g \in gaps
          BY <1>1, <5>1 DEF RangesInv, InOrder
        <5>2. CASE g \in Gap(low, b)
          <6>1. g.hi = b.lo - 1
            BY <5>2 DEF Gap
          <6>. QED
            BY <1>2, <6>1
        <5>. QED
          BY <1>1, <5>1, <5>2
      <4>2. g.hi \in Nat
        BY <1>4
      <4>. QED
        BY <1>2, <2>1, <4>1, <4>2
    <3>. QED
      BY <1>1, <1>4, <2>1, <3>1 DEF InOrder
  <2>5. OnlyFree'
    <3>1. ASSUME MembersInside, MembersApart
          PROVE  /\ \A c \in todo' : low' <= c.lo
                 /\ \A c \in members \ todo' : Hi(c) < low'
      <4>1. ASSUME NEW c \in todo' PROVE low' <= c.lo
        <5>1. c \in todo /\ c # b /\ ~Overlaps(b, c)
          BY <1>2, <2>1, <3>1, <4>1 DEF MembersApart
        <5>. QED
          BY <1>2, <2>1, <5>1 DEF Overlaps
      <4>2. ASSUME NEW c \in members \ todo' PROVE Hi(c) < low'
        <5>1. CASE c = b
          BY <1>2, <2>1, <5>1
        <5>2. CASE c # b
          <6>1. Hi(c) < low /\ low <= b.lo
            BY <1>1, <2>1, <3>1, <4>2, <5>2 DEF RangesInv, OnlyFree
          <6>2. Hi(c) \in Nat /\ low \in Nat
            BY <4>2, RangesFacts DEF RangesInv
          <6>. QED
            BY <1>2, <2>1, <6>1, <6>2
        <5>. QED
          BY <5>1, <5>2
      <4>. QED
        BY <4>1, <4>2
    <3>. QED
      BY <1>1, <1>4, <1>5, <3>1 DEF OnlyFree
  <2>6. CountExact'
    BY <1>1, <1>5, <2>1 DEF RangesInv, CountExact
  <2>. QED
    BY <2>2, <2>3, <2>4, <2>5, <2>6 DEF RangesInv
<1>. QED
  BY <1>6, <1>7

LEMMA LastGapInv == ASSUME RangesInv, LastGap PROVE RangesInv'
<1>1. /\ rpc = "gaps" /\ rpc' = "split" /\ (todo = {} \/ low > Hi(net)) /\ gaps' = gaps \cup Tail
      /\ UNCHANGED <<net, rows, members, todo, used, low, ranges>> /\ ranges = {}
  BY SameMembers DEF RangesInv, InOrder, LastGap, Tail
<1>2. SoundGaps(Tail)
  BY <1>1, TailSound
<1>3. /\ gaps' \subseteq [lo : Nat, hi : Nat]
      /\ \A g \in gaps' : net.lo <= g.lo /\ g.lo <= g.hi /\ g.hi <= Hi(net)
      /\ \A g, h \in gaps' : g = h \/ g.hi < h.lo \/ h.hi < g.lo
      /\ MembersInside /\ MembersApart => \A g \in gaps', m \in members : g.hi < m.lo \/ Hi(m) < g.lo
  BY <1>1, <1>2, MoreGaps
<1>4. MembersInside' = MembersInside /\ MembersApart' = MembersApart /\ Covered' = Covered
      /\ Addresses(net)' = Addresses(net)
  BY <1>1 DEF MembersInside, MembersApart, Covered
<1>5. RangesTypeOK'
  BY <1>1, <1>3 DEF RangesInv, RangesTypeOK
<1>6. InOrder'
  BY <1>1, <1>3 DEF InOrder
<1>7. OnlyFree' /\ CountExact'
  BY <1>1, <1>3, <1>4 DEF RangesInv, OnlyFree, CountExact
<1>8. NothingMissed'
  <2>1. ASSUME NEW a \in Addresses(net) PROVE Kept(a)' \/ a \in Covered
    <3>1. a \in Nat /\ a <= Hi(net) /\ low \in Nat /\ Hi(net) \in Nat
      BY AddressFacts, RangesFacts DEF RangesInv, RangesTypeOK
    <3>2. CASE a < low
      <4>1. Kept(a) \/ a \in Covered
        BY <1>1, <3>2 DEF RangesInv, NothingMissed
      <4>2. Kept(a) => Kept(a)'
        BY <1>1 DEF Kept
      <4>. QED
        BY <4>1, <4>2
    <3>3. CASE low <= a
      <4>1. [lo |-> low, hi |-> Hi(net)] \in gaps'
        BY <1>1, <3>1, <3>3 DEF Tail
      <4>. QED
        BY <3>1, <3>3, <4>1 DEF Kept
    <3>. QED
      BY <3>1, <3>2, <3>3
  <2>. QED
    BY <1>1, <1>4, <2>1 DEF NothingMissed
<1>. QED
  BY <1>5, <1>6, <1>7, <1>8 DEF RangesInv

(* A gap is replaced by a range and what is left of the gap behind it.     *)
LEMMA SplitGapInv == ASSUME RangesInv, NEW g \in gaps, SplitGap(g) PROVE RangesInv'
<1>1. /\ rpc = "split" /\ UNCHANGED <<net, rows, members, rpc, todo, used, low>>
  BY SameMembers DEF SplitGap
<1>2. PICK b \in Blocks : /\ b.lo = g.lo /\ Hi(b) <= g.hi
                          /\ ranges' = ranges \cup {b} /\ gaps' = (gaps \ {g}) \cup Rest(g, b)
  BY DEF SplitGap, Fitting
<1>3. /\ b.lo \in Nat /\ Hi(b) \in Nat /\ b.lo <= Hi(b)
      /\ g.lo \in Nat /\ g.hi \in Nat /\ g.lo <= g.hi /\ net.lo <= g.lo /\ g.hi <= Hi(net)
      /\ net.lo \in Nat /\ Hi(net) \in Nat
  BY BlockFacts, RangesFacts DEF RangesInv
<1>4. ASSUME NEW h \in gaps'
      PROVE  \/ h \in gaps /\ h # g
             \/ h \in [lo : Nat, hi : Nat] /\ h.lo = Hi(b) + 1 /\ h.hi = g.hi /\ Hi(b) < g.hi
  <2>1. CASE h \in Rest(g, b)
    <3>1. h = [lo |-> Hi(b) + 1, hi |-> g.hi] /\ Hi(b) < g.hi
      BY <2>1 DEF Rest
    <3>2. Hi(b) + 1 \in Nat
      BY <1>3
    <3>. QED
      BY <1>3, <3>1, <3>2, SpanFacts
  <2>. QED
    BY <1>2, <2>1
<1>5. \A h, i \in gaps' : h \in Rest(g, b) /\ i \in Rest(g, b) => h = i
  BY DEF Rest
<1>6. MembersInside' = MembersInside /\ MembersApart' = MembersApart /\ Covered' = Covered
      /\ Addresses(net)' = Addresses(net)
  BY <1>1 DEF MembersInside, MembersApart, Covered
<1>7. /\ \A h \in gaps : h.lo \in Nat /\ h.hi \in Nat /\ net.lo <= h.lo /\ h.lo <= h.hi /\ h.hi <= Hi(net)
      /\ \A c \in ranges : c.lo \in Nat /\ Hi(c) \in Nat /\ c.lo <= Hi(c)
  BY RangesFacts DEF RangesInv
<1>8. RangesTypeOK'
  <2>1. ASSUME NEW h \in gaps'
        PROVE  h \in [lo : Nat, hi : Nat] /\ net.lo <= h.lo /\ h.lo <= h.hi /\ h.hi <= Hi(net)
    <3>1. CASE h \in gaps
      BY <1>7, <3>1 DEF RangesInv, RangesTypeOK
    <3>2. CASE h \notin gaps
      <4>1. h \in [lo : Nat, hi : Nat] /\ h.lo = Hi(b) + 1 /\ h.hi = g.hi /\ Hi(b) < g.hi
        BY <1>4, <3>2
      <4>2. net.lo <= Hi(b) + 1 /\ Hi(b) + 1 <= g.hi
        BY <1>2, <1>3, <4>1
      <4>. QED
        BY <1>3, <4>1, <4>2
    <3>. QED
      BY <3>1, <3>2
  <2>2. SubnetOf(b, net)
    BY <1>2, <1>3 DEF SubnetOf
  <2>. QED
    BY <1>1, <1>2, <2>1, <2>2 DEF RangesInv, RangesTypeOK
<1>9. NothingMissed'
  <2>1. ASSUME NEW a \in Addresses(net) PROVE Kept(a)' \/ a \in Covered
    <3>1. a \in Nat
      BY AddressFacts DEF RangesInv, RangesTypeOK
    <3>2. CASE a \in Covered
      BY <3>2
    <3>3. CASE \E c \in ranges : c.lo <= a /\ a <= Hi(c)
      BY <1>2, <3>3 DEF Kept
    <3>4. CASE \E h \in gaps \ {g} : h.lo <= a /\ a <= h.hi
      BY <1>2, <3>4 DEF Kept
    <3>5. CASE g.lo <= a /\ a <= Hi(b)
      BY <1>2, <3>5 DEF Kept
    <3>6. CASE Hi(b) < a /\ a <= g.hi
      <4>1. [lo |-> Hi(b) + 1, hi |-> g.hi] \in gaps' /\ Hi(b) + 1 <= a
        BY <1>2, <1>3, <3>1, <3>6 DEF Rest
      <4>. QED
        BY <3>6, <4>1 DEF Kept
    <3>7. Kept(a) \/ a \in Covered
      BY <1>1 DEF RangesInv, NothingMissed
    <3>. QED
      BY <1>3, <3>1, <3>2, <3>3, <3>4, <3>5, <3>6, <3>7 DEF Kept
  <2>. QED
    BY <1>1, <1>6, <2>1 DEF NothingMissed
<1>10. InOrder'
  <2>1. /\ \A h, i \in gaps : h = i \/ h.hi < i.lo \/ i.hi < h.lo
        /\ \A h \in gaps, c \in ranges : Hi(c) < h.lo \/ h.hi < c.lo
        /\ \A c, d \in ranges : c = d \/ ~Overlaps(c, d)
    BY DEF RangesInv, InOrder
  <2>2. ASSUME NEW h \in gaps', NEW i \in gaps' PROVE h = i \/ h.hi < i.lo \/ i.hi < h.lo
    <3>1. CASE h \in gaps \ {g} /\ i \in gaps \ {g}
      BY <2>1, <3>1
    <3>2. CASE h \in gaps \ {g} /\ i \in Rest(g, b)
      <4>1. i.lo = Hi(b) + 1 /\ i.hi = g.hi
        BY <3>2 DEF Rest
      <4>. QED
        BY <1>2, <1>3, <1>7, <2>1, <3>2, <4>1
    <3>3. CASE i \in gaps \ {g} /\ h \in Rest(g, b)
      <4>1. h.lo = Hi(b) + 1 /\ h.hi = g.hi
        BY <3>3 DEF Rest
      <4>. QED
        BY <1>2, <1>3, <1>7, <2>1, <3>3, <4>1
    <3>. QED
      BY <1>2, <1>5, <3>1, <3>2, <3>3
  <2>3. ASSUME NEW h \in gaps', NEW c \in ranges' PROVE Hi(c) < h.lo \/ h.hi < c.lo
    <3>1. CASE h \in gaps \ {g} /\ c \in ranges
      BY <2>1, <3>1
    <3>2. CASE h \in gaps \ {g} /\ c = b
      BY <1>2, <1>3, <1>7, <2>1, <3>2
    <3>3. CASE h \in Rest(g, b)
      <4>1. h.lo = Hi(b) + 1 /\ h.hi = g.hi
        BY <3>3 DEF Rest
      <4>2. CASE c = b
        BY <1>3, <4>1, <4>2
      <4>3. CASE c \in ranges
        BY <1>2, <1>3, <1>7, <2>1, <4>1, <4>3
      <4>. QED
        BY <1>2, <4>2, <4>3
    <3>. QED
      BY <1>2, <3>1, <3>2, <3>3
  <2>4. ASSUME NEW c \in ranges PROVE ~Overlaps(b, c) /\ ~Overlaps(c, b)
    <3>1. Hi(c) < g.lo \/ g.hi < c.lo
      BY <2>1
    <3>. QED
      BY <1>2, <1>3, <1>7, <3>1 DEF Overlaps
  <2>5. \A c, d \in ranges' : c = d \/ ~Overlaps(c, d)
    BY <1>2, <2>1, <2>4
  <2>. QED
    BY <1>1, <2>2, <2>3, <2>5 DEF InOrder
<1>11. OnlyFree'
  <2>1. ASSUME MembersInside, MembersApart, NEW m \in members
        PROVE  /\ \A h \in gaps' : h.hi < m.lo \/ Hi(m) < h.lo
               /\ \A c \in ranges' : ~Overlaps(c, m)
    <3>1. /\ \A h \in gaps : h.hi < m.lo \/ Hi(m) < h.lo
          /\ \A c \in ranges : ~Overlaps(c, m)
      BY <2>1 DEF RangesInv, OnlyFree
    <3>2. m.lo \in Nat /\ Hi(m) \in Nat
      BY RangesFacts DEF RangesInv
    <3>3. g.hi < m.lo \/ Hi(m) < g.lo
      BY <3>1
    <3>4. ~Overlaps(b, m)
      BY <1>2, <1>3, <3>2, <3>3 DEF Overlaps
    <3>5. ASSUME NEW h \in gaps', h \notin gaps PROVE h.hi < m.lo \/ Hi(m) < h.lo
      BY <1>2, <1>3, <1>4, <3>2, <3>3, <3>5
    <3>. QED
      BY <1>2, <3>1, <3>4, <3>5
  <2>. QED
    BY <1>1, <1>6, <2>1 DEF OnlyFree
<1>12. CountExact'
  BY <1>1, <1>6 DEF RangesInv, CountExact
<1>. QED
  BY <1>8, <1>9, <1>10, <1>11, <1>12 DEF RangesInv

-----------------------------------------------------------------------------
(* The invariant, and what it says of a finished computation.              *)

THEOREM RangesInvariant == RangesSpec => []RangesInv
<1>1. RangesInit => RangesInv
  BY RangesStart
<1>2. RangesInv /\ [RangesNext]_rangesVars => RangesInv'
  <2> SUFFICES ASSUME RangesInv, [RangesNext]_rangesVars PROVE RangesInv'
    OBVIOUS
  <2>1. CASE \E b \in Blocks : AddMember(b)
    BY <2>1, AddMemberInv
  <2>2. CASE StartCount
    BY <2>2, StartCountInv
  <2>3. CASE \E b \in todo : CountMember(b)
    BY <2>3, CountMemberInv
  <2>4. CASE StartGaps
    BY <2>4, StartGapsInv
  <2>5. CASE \E b \in todo : NextSubnet(b)
    BY <2>5, NextSubnetInv
  <2>6. CASE LastGap
    BY <2>6, LastGapInv
  <2>7. CASE \E g \in gaps : SplitGap(g)
    BY <2>7, SplitGapInv
  <2>8. CASE UNCHANGED rangesVars
    BY <2>8 DEF rangesVars, RangesInv, RangesTypeOK, NothingMissed, Kept, InOrder, OnlyFree, CountExact,
                MembersInside, MembersApart, Covered, members
  <2>. QED
    BY <2>1, <2>2, <2>3, <2>4, <2>5, <2>6, <2>7, <2>8 DEF RangesNext
<1>. QED
  BY <1>1, <1>2, PTL DEF RangesSpec

(* The computations keep their types, and what they find lies inside the   *)
(* aggregate (_aggregate_available_ranges, _aggregate_utilization).        *)
THEOREM RangesTypes == RangesSpec => []RangesTypeOK
<1>1. RangesInv => RangesTypeOK
  BY DEF RangesInv
<1>. QED
  BY <1>1, RangesInvariant, PTL

(* For every width of an address and any prefixes: no free address is      *)
(* missed, none outside the aggregate is reported, none is reported twice. *)
THEOREM NoFreeAddressMissed == RangesSpec => []FreeIsReported
<1>1. ASSUME RangesInv PROVE FreeIsReported
  <2> SUFFICES ASSUME Finished PROVE /\ Addresses(net) \ Covered \subseteq Reported
                                     /\ Reported \subseteq Addresses(net)
                                     /\ \A b, c \in ranges : b = c \/ ~Overlaps(b, c)
    BY DEF FreeIsReported
  <2>1. ASSUME NEW a \in Addresses(net) \ Covered PROVE a \in Reported
    <3>1. a \in Nat /\ Kept(a) /\ gaps = {}
      BY <1>1, <2>1, AddressFacts DEF RangesInv, RangesTypeOK, NothingMissed, Finished
    <3>2. PICK b \in ranges : b.lo <= a /\ a <= Hi(b)
      BY <3>1 DEF Kept
    <3>3. a \in Addresses(b)
      BY <1>1, <3>1, <3>2, AddressFacts, RangesFacts DEF RangesInv
    <3>. QED
      BY <3>3, InAddresses DEF Reported
  <2>2. ASSUME NEW a \in Reported PROVE a \in Addresses(net)
    <3>1. PICK b \in ranges : a \in Addresses(b)
      BY <2>2, InAddresses DEF Reported
    <3>2. b \in Blocks /\ SubnetOf(b, net) /\ net \in Blocks
      BY <1>1 DEF RangesInv, RangesTypeOK
    <3>3. b.lo \in Nat /\ Hi(b) \in Nat /\ net.lo \in Nat /\ Hi(net) \in Nat
      BY <3>2, BlockFacts
    <3>4. a \in Nat /\ net.lo <= a /\ a <= Hi(net)
      BY <3>1, <3>2, <3>3, AddressFacts DEF SubnetOf
    <3>. QED
      BY <3>2, <3>4, AddressFacts
  <2>. QED
    BY <1>1, <2>1, <2>2 DEF RangesInv, InOrder
<1>. QED
  BY <1>1, RangesInvariant, PTL

(* For every width: of prefixes that lie apart inside the aggregate, the   *)
(* ranges are what is left, and with the used addresses they are all.      *)
THEOREM RangesAreExact == RangesSpec => []RangesExact
<1>1. ASSUME RangesInv, FreeIsReported PROVE RangesExact
  <2> SUFFICES ASSUME Finished, MembersInside, MembersApart
               PROVE  Reported = Addresses(net) \ Covered /\ used + Cardinality(Reported) = net.size
    BY DEF RangesExact
  <2>1. Addresses(net) \ Covered \subseteq Reported /\ Reported \subseteq Addresses(net)
    BY <1>1 DEF FreeIsReported
  <2>2. ASSUME NEW a \in Reported, a \in Covered PROVE FALSE
    <3>1. PICK b \in ranges : a \in Addresses(b)
      BY <2>2, InAddresses DEF Reported
    <3>2. PICK m \in members : a \in Addresses(m)
      BY <2>2, InAddresses DEF Covered
    <3>3. b \in Blocks /\ m \in Blocks /\ ~Overlaps(b, m)
      BY <1>1, RangesFacts DEF RangesInv, OnlyFree
    <3>. QED
      BY <3>1, <3>2, <3>3, AddressFacts, BlockFacts DEF Overlaps
  <2>3. Reported = Addresses(net) \ Covered
    BY <2>1, <2>2
  <2>4. used = Cardinality(Covered) /\ IsFiniteSet(Covered)
    BY <1>1 DEF RangesInv, CountExact, Finished
  <2>5. net \in Blocks /\ net.lo \in Int /\ Hi(net) \in Int /\ ~(net.lo > Hi(net))
        /\ Hi(net) - net.lo + 1 = net.size /\ net.size \in Nat
    <3>1. net \in Blocks
      BY <1>1 DEF RangesInv, RangesTypeOK
    <3>. QED
      BY <3>1, BlockFacts
  <2>6. IsFiniteSet(Addresses(net)) /\ Cardinality(Addresses(net)) = net.size
    BY <2>5, FS_Interval DEF Addresses
  <2>7. Addresses(net) \cap Covered = Covered
    <3>1. ASSUME NEW a \in Covered PROVE a \in Addresses(net)
      <4>1. PICK m \in members : a \in Addresses(m)
        BY <3>1, InAddresses DEF Covered
      <4>2. m \in Blocks /\ SubnetOf(m, net)
        BY <1>1, RangesFacts DEF RangesInv, MembersInside
      <4>3. m.lo \in Nat /\ Hi(m) \in Nat /\ net.lo \in Nat /\ Hi(net) \in Nat
        BY <2>5, <4>2, BlockFacts
      <4>4. a \in Nat /\ net.lo <= a /\ a <= Hi(net)
        BY <4>1, <4>2, <4>3, AddressFacts DEF SubnetOf
      <4>. QED
        BY <2>5, <4>4, AddressFacts
    <3>. QED
      BY <3>1
  <2>8. Cardinality(Addresses(net) \ Covered) = net.size - Cardinality(Covered)
    BY <2>6, <2>7, FS_Difference
  <2>9. Cardinality(Covered) \in Nat
    BY <2>4, FS_CardinalityType
  <2>10. used + Cardinality(Reported) = net.size
    <3>1. Cardinality(Reported) = net.size - Cardinality(Covered)
      BY <2>3, <2>8
    <3>. QED
      BY <2>4, <2>5, <2>9, <3>1
  <2>. QED
    BY <2>3, <2>10
<1>. QED
  BY <1>1, RangesInvariant, NoFreeAddressMissed, PTL

=============================================================================
