-------------------------- MODULE DhcpSync_proofs --------------------------
(***************************************************************************)
(* Proofs about DhcpSync, for all sets of targets, scopes and syncs.       *)
(***************************************************************************)
EXTENDS DhcpSync, TLAPS

-----------------------------------------------------------------------------
(* What holds of the local state of one sync.                              *)

Owned(d) == \A t \in DhcpTargets : /\ d.batch[t].scopes \subseteq ScopesOf(t)
                                   /\ d.batch[t].leases \subseteq d.batch[t].scopes

(* cur is the target between StoreServers and the end of its transaction;  *)
(* targets that are stored have left todo; leases come after the scopes    *)
(* they look for.                                                          *)
Local(d) ==
    /\ d \in SyncState
    /\ Owned(d)
    /\ d.pc \in {"idle", "clear"} => ~d.alone
    /\ d.pc \in {"idle", "clear", "commit"} => d.ok = {}
    /\ d.pc \in {"idle", "clear", "commit", "servers", "done"} => d.cur = {}
    /\ d.pc \in {"scopes", "leases", "name"} => \E t \in d.todo : d.cur = {t}
    /\ d.pc = "leases" => \A t \in d.cur \ Nameless : d.batch[t].scopes \subseteq d.keys
    /\ d.ok \cap d.todo = {}

(* What holds of the rows: their types and foreign keys.                   *)
Rows ==
    /\ dtarget \in [DhcpTargets -> {"fresh", "on", "off", "gone"}]
    /\ dservers \subseteq ServerRow
    /\ dscopes \subseteq ScopeRow
    /\ dleases \subseteq LeaseRow
    /\ dprefix \subseteq LinkPrefixes
    /\ \A c \in dscopes : /\ [by |-> c.by, of |-> c.scope.of] \in dservers
                          /\ c.prefix # 0 => c.prefix \in dprefix
    /\ \A l \in dleases : \E c \in dscopes : c.by = l.by /\ c.scope = l.scope

LocalInv == dsync \in [Syncs -> SyncState] /\ \A s \in Syncs : Local(dsync[s])

LEMMA IdleLocal == Local(SyncIdle)
BY DEF Local, SyncIdle, SyncState, Owned, Nothing, Report

LEMMA BatchLocal ==
    ASSUME NEW T \in SUBSET DhcpTargets, NEW b \in [DhcpTargets -> Report],
           \A t \in DhcpTargets : b[t].scopes \subseteq ScopesOf(t) /\ b[t].leases \subseteq b[t].scopes
    PROVE  Local([SyncIdle EXCEPT !.pc = "clear", !.batch = b, !.todo = T])
BY DEF Local, SyncIdle, SyncState, Owned

(* A target that reports reports scopes and leases of its own.             *)
LEMMA ReportsOwned ==
    ASSUME NEW t \in DhcpTargets, NEW r \in WmiReports(t) \cup WinRmReports(t)
    PROVE  r \in Report /\ r.scopes \subseteq ScopesOf(t) /\ r.leases \subseteq r.scopes
<1>1. ScopesOf(t) \subseteq DhcpScopes
  BY DEF ScopesOf
<1>. QED
  BY <1>1 DEF WmiReports, WinRmReports, Report

(* A sync that another one has crossed forgets what it has stored.         *)
LEMMA ToStoreLocal ==
    ASSUME NEW d, Local([d EXCEPT !.ok = {}]), d \in SyncState,
           d.alone => Local(d)
    PROVE  /\ Local(ToStore(d))
           /\ ToStore(d).pc = d.pc /\ ToStore(d).alone = d.alone
           /\ d.alone => ToStore(d) = d
<1>1. CASE d.alone
  BY <1>1 DEF ToStore
<1>2. CASE ~d.alone
  <2> DEFINE b == [t \in DhcpTargets |-> IF t \in d.todo \cup d.cur THEN d.batch[t] ELSE Nothing]
             e == [d EXCEPT !.ok = {}, !.batch = b]
  <2>1. ToStore(d) = e
    BY <1>2 DEF ToStore
  <2>2. Nothing \in Report /\ Nothing.scopes = {} /\ Nothing.leases = {}
    BY DEF Nothing, Report
  <2>3. b \in [DhcpTargets -> Report]
    BY <2>2 DEF SyncState
  <2>4. e \in SyncState
    BY <2>3 DEF SyncState
  <2>5. Owned(e)
    <3>1. Owned(d)
      BY DEF Local, Owned, SyncState
    <3>2. e.batch = b
      BY DEF SyncState
    <3>. QED
      BY <3>1, <3>2, <2>2 DEF Owned
  <2>6. /\ e.pc = d.pc /\ e.alone = d.alone /\ e.ok = {} /\ e.cur = d.cur /\ e.todo = d.todo
        /\ e.keys = d.keys /\ \A t \in DhcpTargets : t \in d.cur => e.batch[t] = d.batch[t]
    BY DEF SyncState
  <2>7. /\ d.pc \in {"idle", "clear", "commit", "servers", "done"} => d.cur = {}
        /\ d.pc \in {"scopes", "leases", "name"} => \E t \in d.todo : d.cur = {t}
        /\ d.pc = "leases" => \A t \in d.cur \ Nameless : d.batch[t].scopes \subseteq d.keys
        /\ d.cur \subseteq DhcpTargets
    BY DEF Local, SyncState
  <2> HIDE DEF e
  <2>8. Local(e)
    BY <1>2, <2>4, <2>5, <2>6, <2>7 DEF Local
  <2>. QED
    BY <2>1, <2>6, <2>8, <1>2
<1>. QED
  BY <1>1, <1>2

(* After a target: the sync is at the next one or at its end.              *)
LEMMA AfterLocal ==
    ASSUME NEW d \in SyncState, NEW t \in d.todo, Owned(d),
           d.pc \in {"servers", "scopes", "leases", "name"},
           d.ok \cap d.todo \subseteq {t}
    PROVE  /\ Local(After(d, t))
           /\ After(d, t).pc \in {"idle", "servers", "done"}
           /\ After(d, t).pc = "servers" => d.pc \in {"servers", "scopes", "leases", "name"}
           /\ After(d, t).alone => /\ d.alone
                                   /\ After(d, t).ok = d.ok /\ After(d, t).batch = d.batch
                                   /\ After(d, t).cur = {}
                                   /\ After(d, t).todo \subseteq d.todo \ {t}
<1>1. CASE d.todo \subseteq {t} /\ d.alone
  <2> DEFINE e == [d EXCEPT !.pc = "done", !.todo = {}, !.cur = {}, !.keys = {}]
  <2>1. After(d, t) = e
    BY <1>1 DEF After, Finished
  <2>2. e \in SyncState /\ e.pc = "done" /\ e.ok = d.ok /\ e.batch = d.batch /\ e.cur = {} /\ e.todo = {}
    BY DEF SyncState
  <2> HIDE DEF e
  <2>. QED
    BY <1>1, <2>1, <2>2 DEF Local, Owned
<1>2. CASE d.todo \subseteq {t} /\ ~d.alone
  BY <1>2, IdleLocal DEF After, Finished, SyncIdle
<1>3. CASE ~(d.todo \subseteq {t})
  <2> DEFINE e == [d EXCEPT !.pc = "servers", !.todo = @ \ {t}, !.cur = {}]
  <2>1. After(d, t) = ToStore(e)
    BY <1>3 DEF After
  <2>2. /\ e \in SyncState /\ e.pc = "servers" /\ e.ok = d.ok /\ e.batch = d.batch /\ e.cur = {}
        /\ e.todo = d.todo \ {t} /\ e.alone = d.alone
    BY DEF SyncState
  <2>3. /\ [e EXCEPT !.ok = {}] \in SyncState /\ [e EXCEPT !.ok = {}].pc = "servers"
        /\ [e EXCEPT !.ok = {}].ok = {} /\ [e EXCEPT !.ok = {}].batch = d.batch
        /\ [e EXCEPT !.ok = {}].cur = {}
    BY <2>2 DEF SyncState
  <2> HIDE DEF e
  <2>4. Local(e)
    BY <2>2 DEF Local, Owned
  <2>5. Local([e EXCEPT !.ok = {}])
    BY <2>3 DEF Local, Owned
  <2>. QED
    BY <2>1, <2>2, <2>4, <2>5, ToStoreLocal
<1>. QED
  BY <1>1, <1>2, <1>3

LEMMA FinishedLocal ==
    ASSUME NEW d \in SyncState, Owned(d), d.pc \in {"servers", "scopes", "leases", "name"},
           d.ok \cap d.todo = {}
    PROVE  /\ Local(Finished(d))
           /\ Finished(d).pc \in {"idle", "done"}
           /\ Finished(d).alone => /\ d.alone
                                   /\ Finished(d).ok = d.ok /\ Finished(d).batch = d.batch
                                   /\ Finished(d).cur = {} /\ Finished(d).todo = {}
<1> DEFINE e == [d EXCEPT !.pc = "done", !.todo = {}, !.cur = {}, !.keys = {}]
<1>1. /\ e \in SyncState /\ e.pc = "done" /\ e.ok = d.ok /\ e.batch = d.batch /\ e.cur = {}
      /\ e.todo = {} /\ e.alone = d.alone
  BY DEF SyncState
<1>2. Finished(d) = IF d.alone THEN e ELSE SyncIdle
  BY DEF Finished
<1> HIDE DEF e
<1>3. Local(e) \/ ~d.alone
  BY <1>1 DEF Local, Owned
<1>. QED
  BY <1>1, <1>2, <1>3, IdleLocal DEF SyncIdle

-----------------------------------------------------------------------------
(* Local invariants of all syncs.                                          *)

LEMMA OneSyncMoves ==
    ASSUME LocalInv, NEW s \in Syncs, NEW d, Local(d), dsync' = [dsync EXCEPT ![s] = d]
    PROVE  LocalInv' /\ dsync'[s] = d /\ \A v \in Syncs \ {s} : dsync'[v] = dsync[v]
BY DEF LocalInv, Local

LEMMA CollectLocal ==
    ASSUME LocalInv, NEW s \in Syncs, NEW T \in SUBSET DhcpTargets, Collect(s, T)
    PROVE  /\ LocalInv' /\ dsync'[s].pc = "clear"
           /\ \A v \in Syncs \ {s} : dsync'[v] = dsync[v]
<1>1. PICK b \in [DhcpTargets -> (UNION {WmiReports(t) \cup WinRmReports(t) : t \in T}) \cup {Nothing}] :
         /\ \A t \in DhcpTargets : IF t \in T THEN b[t] \in WmiReports(t) \cup WinRmReports(t)
                                   ELSE b[t] = Nothing
         /\ dsync' = [dsync EXCEPT ![s] = [SyncIdle EXCEPT !.pc = "clear", !.batch = b, !.todo = T]]
  BY DEF Collect
<1>2. \A t \in DhcpTargets : /\ b[t] \in Report
                             /\ b[t].scopes \subseteq ScopesOf(t) /\ b[t].leases \subseteq b[t].scopes
  BY <1>1, ReportsOwned DEF Nothing, Report
<1>3. b \in [DhcpTargets -> Report]
  BY <1>2
<1> DEFINE d == [SyncIdle EXCEPT !.pc = "clear", !.batch = b, !.todo = T]
<1>4. Local(d) /\ d.pc = "clear"
  BY <1>2, <1>3, BatchLocal DEF SyncIdle
<1>5. dsync' = [dsync EXCEPT ![s] = d]
  BY <1>1
<1> HIDE DEF d
<1>. QED
  BY <1>4, <1>5, OneSyncMoves

(* The syncs other than the one that empties the tables.                   *)
LEMMA CrossedLocal ==
    ASSUME NEW d, Local(d)
    PROVE  /\ Local(ToStore([d EXCEPT !.alone = FALSE]))
           /\ ToStore([d EXCEPT !.alone = FALSE]).pc = d.pc
           /\ ~ToStore([d EXCEPT !.alone = FALSE]).alone
<1> DEFINE e == [d EXCEPT !.alone = FALSE]
           f == [e EXCEPT !.ok = {}]
<1>1. e \in SyncState /\ e.pc = d.pc /\ ~e.alone
  BY DEF Local, SyncState
<1>2. /\ f \in SyncState /\ f.pc = d.pc /\ f.ok = {} /\ f.cur = d.cur /\ f.todo = d.todo
      /\ f.batch = d.batch /\ f.keys = d.keys /\ ~f.alone
  BY DEF Local, SyncState
<1> HIDE DEF f
<1>3. Local(f)
  BY <1>2 DEF Local, Owned
<1>. QED
  BY <1>1, <1>3, ToStoreLocal DEF f

LEMMA ClearLocal ==
    ASSUME LocalInv, Rows, NEW s \in Syncs, Clear(s)
    PROVE  /\ LocalInv' /\ \A v \in Syncs \ {s} : dsync'[v] = dsync[v]
           /\ dsync'[s].pc = "commit" /\ dsync'[s].doomed = dservers
           /\ dsync'[s].alone => \A w \in Syncs \ {s} : ~Storing(w)
<1>1. PICK alone \in BOOLEAN : alone = \A w \in Syncs \ {s} : ~Storing(w)
  OBVIOUS
<1> DEFINE e == [dsync[s] EXCEPT !.pc = "commit", !.doomed = dservers, !.alone = alone]
<1>2. dsync' = [dsync EXCEPT ![s] = e]
  BY <1>1 DEF Clear, Kept, LocalInv
<1>3. Local(dsync[s]) /\ dsync[s].pc = "clear"
  BY DEF LocalInv, Clear
<1>4. /\ e \in SyncState /\ e.pc = "commit" /\ e.batch = dsync[s].batch /\ e.alone = alone
      /\ e.ok = dsync[s].ok /\ e.todo = dsync[s].todo /\ e.cur = dsync[s].cur /\ e.doomed = dservers
  BY <1>3 DEF Local, SyncState, Rows
<1> HIDE DEF e
<1>5. Local(e)
  BY <1>3, <1>4 DEF Local, Owned
<1>. QED
  BY <1>1, <1>2, <1>4, <1>5, OneSyncMoves

LEMMA CommitClearLocal ==
    ASSUME LocalInv, NEW s \in Syncs, CommitClear(s)
    PROVE  /\ LocalInv'
           /\ dsync'[s] = [dsync[s] EXCEPT !.pc = "servers", !.doomed = {}]
           /\ \A v \in Syncs \ {s} : /\ ~dsync'[v].alone
                                     /\ Storing(v)' => Storing(v)
<1> DEFINE e == [dsync[s] EXCEPT !.pc = "servers", !.doomed = {}]
<1>1. /\ dsync'[s] = e /\ dsync' = [v \in Syncs |-> dsync'[v]]
      /\ \A v \in Syncs \ {s} : dsync'[v] = IF dsync[v].pc = "done" THEN SyncIdle
                                           ELSE ToStore([dsync[v] EXCEPT !.alone = FALSE])
  BY DEF CommitClear
<1>2. Local(e)
  <2>1. Local(dsync[s]) /\ dsync[s].pc = "commit"
    BY DEF LocalInv, CommitClear
  <2>2. /\ e \in SyncState /\ e.pc = "servers" /\ e.batch = dsync[s].batch
        /\ e.ok = dsync[s].ok /\ e.todo = dsync[s].todo /\ e.cur = dsync[s].cur
    BY <2>1 DEF Local, SyncState
  <2> HIDE DEF e
  <2>. QED
    BY <2>1, <2>2 DEF Local, Owned
<1>3. ASSUME NEW v \in Syncs \ {s}
      PROVE  /\ Local(dsync'[v]) /\ ~dsync'[v].alone
             /\ dsync'[v].pc = dsync[v].pc \/ dsync'[v].pc = "idle"
  <2>1. CASE dsync[v].pc = "done"
    <3>1. dsync'[v] = SyncIdle
      BY <1>1, <2>1
    <3>2. SyncIdle.pc = "idle" /\ ~SyncIdle.alone
      BY DEF SyncIdle
    <3>. QED
      BY <3>1, <3>2, IdleLocal
  <2>2. CASE dsync[v].pc # "done"
    <3>1. PICK d : d = dsync[v]
      OBVIOUS
    <3>2. Local(d) /\ dsync'[v] = ToStore([d EXCEPT !.alone = FALSE])
      BY <1>1, <2>2, <3>1 DEF LocalInv
    <3>. QED
      BY <3>1, <3>2, CrossedLocal
  <2>. QED
    BY <2>1, <2>2
<1> HIDE DEF e
<1>4. \A v \in Syncs : Local(dsync'[v])
  BY <1>1, <1>2, <1>3
<1>5. LocalInv'
  BY <1>1, <1>4 DEF LocalInv, Local
<1>6. \A v \in Syncs \ {s} : Storing(v)' => Storing(v)
  BY <1>3 DEF Storing
<1>. QED
  BY <1>1, <1>3, <1>5, <1>6 DEF e

(* One step of a transaction that does not end it.                         *)
LEMMA StoreStepLocal ==
    ASSUME LocalInv, NEW s \in Syncs, NEW t \in dsync[s].todo, NEW pc \in {"scopes", "leases", "name"},
           NEW from \in {"servers", "scopes", "leases"}, dsync[s].pc = from,
           NEW K \in SUBSET DhcpScopes,
           pc = "leases" /\ t \notin Nameless => dsync[s].batch[t].scopes \subseteq K,
           dsync' = [dsync EXCEPT ![s] = [dsync[s] EXCEPT !.pc = pc, !.cur = {t}, !.keys = K]]
    PROVE  /\ LocalInv' /\ \A v \in Syncs \ {s} : dsync'[v] = dsync[v]
           /\ dsync'[s].pc = pc /\ dsync'[s].cur = {t} /\ dsync'[s].batch = dsync[s].batch
           /\ dsync'[s].ok = dsync[s].ok /\ dsync'[s].todo = dsync[s].todo
           /\ dsync'[s].alone = dsync[s].alone
<1> DEFINE e == [dsync[s] EXCEPT !.pc = pc, !.cur = {t}, !.keys = K]
<1>1. Local(dsync[s])
  BY DEF LocalInv
<1>2. /\ e \in SyncState /\ e.pc = pc /\ e.cur = {t} /\ e.batch = dsync[s].batch /\ e.keys = K
      /\ e.ok = dsync[s].ok /\ e.todo = dsync[s].todo /\ e.alone = dsync[s].alone
  BY <1>1 DEF Local, SyncState
<1>3. dsync' = [dsync EXCEPT ![s] = e]
  OBVIOUS
<1> HIDE DEF e
<1>4. Local(e)
  BY <1>1, <1>2 DEF Local, Owned
<1>. QED
  BY <1>2, <1>3, <1>4, OneSyncMoves

(* What the three steps of a transaction that do not end it do to the sync.*)
LEMMA StoreStep ==
    ASSUME LocalInv, NEW s \in Syncs, NEW t \in DhcpTargets,
           StoreServers(s, t) \/ StoreScopes(s, t) \/ StoreLeases(s, t)
    PROVE  /\ LocalInv' /\ \A v \in Syncs \ {s} : dsync'[v] = dsync[v]
           /\ Storing(s) /\ t \in dsync[s].todo
           /\ dsync'[s].cur = {t} /\ dsync'[s].batch = dsync[s].batch
           /\ dsync'[s].ok = dsync[s].ok /\ dsync'[s].todo = dsync[s].todo
           /\ dsync'[s].alone = dsync[s].alone
           /\ StoreServers(s, t) => dsync[s].pc = "servers" /\ dsync'[s].pc = "scopes"
           /\ StoreScopes(s, t) => dsync[s].pc = "scopes" /\ dsync'[s].pc = "leases" /\ dsync[s].cur = {t}
           /\ StoreLeases(s, t) => dsync[s].pc = "leases" /\ dsync'[s].pc = "name" /\ dsync[s].cur = {t}
<1>1. Local(dsync[s]) /\ dsync[s] \in SyncState
  BY DEF LocalInv
<1>2. t \in dsync[s].todo
  BY <1>1 DEF StoreServers, StoreScopes, StoreLeases, Local
<1>3. CASE StoreServers(s, t)
  <2>1. /\ dsync[s].pc = "servers" /\ dsync[s].keys \in SUBSET DhcpScopes
        /\ dsync' = [dsync EXCEPT ![s] = [dsync[s] EXCEPT !.pc = "scopes", !.cur = {t}, !.keys = dsync[s].keys]]
    <3>1. /\ dsync[s].pc = "servers"
          /\ dsync' = [dsync EXCEPT ![s] = [dsync[s] EXCEPT !.pc = "scopes", !.cur = {t}]]
      BY <1>1, <1>3 DEF StoreServers, LocalInv
    <3>2. /\ dsync[s].keys \in SUBSET DhcpScopes
          /\ [dsync[s] EXCEPT !.pc = "scopes", !.cur = {t}]
                = [dsync[s] EXCEPT !.pc = "scopes", !.cur = {t}, !.keys = dsync[s].keys]
      BY <1>1 DEF SyncState
    <3>. QED
      BY <3>1, <3>2, ZenonT(60)
  <2>. QED
    BY <1>2, <1>3, <2>1, StoreStepLocal, ZenonT(60) DEF Storing, StoreScopes, StoreLeases
<1>4. CASE StoreScopes(s, t)
  <2>1. dsync[s].pc = "scopes" /\ dsync[s].cur = {t}
    BY <1>1, <1>4 DEF StoreScopes, Local
  <2>2. Placed(s, t) \subseteq DhcpScopes /\ (t \notin Nameless => dsync[s].batch[t].scopes \subseteq Placed(s, t))
    BY <1>1 DEF Placed, SyncState, Report
  <2> DEFINE K == dsync[s].keys \cup Placed(s, t)
  <2>3. K \in SUBSET DhcpScopes /\ (t \notin Nameless => dsync[s].batch[t].scopes \subseteq K)
    BY <1>1, <2>2 DEF SyncState
  <2>4. dsync' = [dsync EXCEPT ![s] = [dsync[s] EXCEPT !.pc = "leases", !.cur = {t}, !.keys = K]]
    BY <1>1, <1>4, <2>1 DEF StoreScopes, SyncState, LocalInv
  <2> HIDE DEF K
  <2>. QED
    BY <1>2, <1>4, <2>1, <2>3, <2>4, StoreStepLocal DEF Storing, StoreServers, StoreLeases
<1>5. CASE StoreLeases(s, t)
  <2>1. /\ dsync[s].pc = "leases" /\ dsync[s].cur = {t} /\ dsync[s].keys \in SUBSET DhcpScopes
    BY <1>1, <1>5 DEF StoreLeases, Local, SyncState
  <2>2. dsync' = [dsync EXCEPT ![s] = [dsync[s] EXCEPT !.pc = "name", !.cur = {t}, !.keys = dsync[s].keys]]
    BY <1>1, <1>5, <2>1, ZenonT(60) DEF StoreLeases, SyncState, LocalInv
  <2>. QED
    BY <1>2, <1>5, <2>1, <2>2, StoreStepLocal, ZenonT(60) DEF Storing, StoreServers, StoreScopes
<1>. QED
  BY <1>3, <1>4, <1>5

(* The step that ends a transaction, well or badly.                        *)
LEMMA StoreEndLocal ==
    ASSUME LocalInv, NEW s \in Syncs, NEW t \in DhcpTargets, StoreName(s, t) \/ StoreFails(s, t)
    PROVE  /\ LocalInv' /\ \A v \in Syncs \ {s} : dsync'[v] = dsync[v]
           /\ dsync'[s].pc \in {"idle", "servers", "done"}
           /\ Storing(s)
           /\ dsync'[s].alone =>
                 /\ dsync[s].alone /\ dsync'[s].cur = {} /\ dsync'[s].batch = dsync[s].batch
                 /\ dsync'[s].todo \subseteq dsync[s].todo \ {t}
                 /\ \/ dsync'[s].ok = dsync[s].ok
                    \/ StoreName(s, t) /\ dsync'[s].ok = dsync[s].ok \cup {t}
<1>1. PICK d : d = dsync[s]
  OBVIOUS
<1>2. Local(d) /\ d \in SyncState
  BY <1>1 DEF LocalInv
<1>3. t \in d.todo /\ d.pc \in {"servers", "scopes", "leases", "name"}
  BY <1>1, <1>2 DEF StoreName, StoreFails, Local
<1>4. Storing(s)
  BY <1>1, <1>3 DEF Storing
<1>5. CASE StoreName(s, t)
  <2> DEFINE e == [d EXCEPT !.ok = @ \cup {t}]
  <2>1. /\ e \in SyncState /\ e.todo = d.todo /\ e.pc = d.pc /\ e.batch = d.batch
        /\ e.ok = d.ok \cup {t} /\ e.alone = d.alone
    BY <1>2 DEF SyncState
  <2>2. dsync' = [dsync EXCEPT ![s] = After(e, t)]
    BY <1>1, <1>5 DEF StoreName
  <2> HIDE DEF e
  <2>3. Owned(e) /\ e.ok \cap e.todo \subseteq {t}
    BY <1>2, <2>1 DEF Local, Owned
  <2>4. /\ Local(After(e, t)) /\ After(e, t).pc \in {"idle", "servers", "done"}
        /\ After(e, t).alone => /\ d.alone /\ After(e, t).ok = d.ok \cup {t}
                                /\ After(e, t).batch = d.batch /\ After(e, t).cur = {}
                                /\ After(e, t).todo \subseteq d.todo \ {t}
    BY <1>3, <2>1, <2>3, AfterLocal
  <2>. QED
    BY <1>1, <1>4, <1>5, <2>2, <2>4, OneSyncMoves
<1>6. CASE StoreFails(s, t)
  <2>1. PICK K \in SUBSET DhcpScopes :
           LET f == [d EXCEPT !.keys = @ \cup K] IN
           dsync' = [dsync EXCEPT ![s] = IF dtarget[t] = "gone" THEN Finished(f) ELSE NotStored(f, t)]
    BY <1>1, <1>2, <1>6 DEF StoreFails, Placed, SyncState, Report
  <2> DEFINE e == [d EXCEPT !.keys = @ \cup K]
  <2>2. /\ e \in SyncState /\ e.todo = d.todo /\ e.pc = d.pc /\ e.batch = d.batch
        /\ e.ok = d.ok /\ e.alone = d.alone
    BY <1>2 DEF SyncState
  <2>3. dsync' = [dsync EXCEPT ![s] = IF dtarget[t] = "gone" THEN Finished(e) ELSE After(e, t)]
    BY <2>1 DEF NotStored
  <2> HIDE DEF e
  <2>4. Owned(e) /\ e.ok \cap e.todo = {}
    BY <1>2, <2>2 DEF Local, Owned
  <2>5. /\ Local(Finished(e)) /\ Finished(e).pc \in {"idle", "servers", "done"}
        /\ Finished(e).alone => /\ d.alone /\ Finished(e).ok = d.ok
                                /\ Finished(e).batch = d.batch /\ Finished(e).cur = {}
                                /\ Finished(e).todo \subseteq d.todo \ {t}
    BY <1>3, <2>2, <2>4, FinishedLocal
  <2>6. /\ Local(After(e, t)) /\ After(e, t).pc \in {"idle", "servers", "done"}
        /\ After(e, t).alone => /\ d.alone /\ After(e, t).ok = d.ok
                                /\ After(e, t).batch = d.batch /\ After(e, t).cur = {}
                                /\ After(e, t).todo \subseteq d.todo \ {t}
    BY <1>3, <2>2, <2>4, AfterLocal
  <2>7. PICK x \in {Finished(e), After(e, t)} : dsync' = [dsync EXCEPT ![s] = x]
    BY <2>3
  <2>. QED
    BY <1>1, <1>4, <2>5, <2>6, <2>7, OneSyncMoves
<1>. QED
  BY <1>5, <1>6

(* The local invariants hold after every step.                             *)
LEMMA NextLocal == LocalInv /\ Rows /\ [DhcpNext]_dhcpVars => LocalInv'
<1>. SUFFICES ASSUME LocalInv, Rows, [DhcpNext]_dhcpVars PROVE LocalInv'
  OBVIOUS
<1>1. ASSUME NEW s \in Syncs, NEW T \in SUBSET DhcpTargets, Collect(s, T) PROVE LocalInv'
  BY <1>1, CollectLocal
<1>2. ASSUME NEW s \in Syncs, Clear(s) \/ CommitClear(s) PROVE LocalInv'
  BY <1>2, ClearLocal, CommitClearLocal
<1>3. ASSUME NEW s \in Syncs, ClearFails(s) PROVE LocalInv'
  BY <1>3, IdleLocal, OneSyncMoves DEF ClearFails
<1>5. ASSUME NEW s \in Syncs, NEW t \in DhcpTargets,
             StoreServers(s, t) \/ StoreScopes(s, t) \/ StoreLeases(s, t)
      PROVE  LocalInv'
  BY <1>5, StoreStep
<1>6. ASSUME NEW s \in Syncs, NEW t \in DhcpTargets, StoreName(s, t) \/ StoreFails(s, t) PROVE LocalInv'
  BY <1>6, StoreEndLocal
<1>7. CASE DhcpRestart
  BY <1>7, IdleLocal DEF DhcpRestart, LocalInv, Local
<1>8. CASE UNCHANGED dsync
  BY <1>8 DEF LocalInv
<1>9. ASSUME NEW t \in DhcpTargets, NEW to, CreateTarget(t, to) \/ UpdateTarget(t, to) \/ DeleteTarget(t)
      PROVE  LocalInv'
  BY <1>8, <1>9 DEF CreateTarget, UpdateTarget, DeleteTarget, SetTarget
<1>10. ASSUME NEW c, NEW p, LinkScope(c, p) \/ AddPrefix(p) \/ RemovePrefix(p) PROVE LocalInv'
  BY <1>8, <1>10 DEF LinkScope, AddPrefix, RemovePrefix
<1>. QED
  BY <1>1, <1>2, <1>3, <1>5, <1>6, <1>7, <1>8, <1>9, <1>10 DEF DhcpNext, SyncStep, dhcpVars

-----------------------------------------------------------------------------
(* Types.                                                                  *)

(* Links to prefixes change, the scopes stay.                              *)
Relinked ==
    /\ dscopes' \subseteq ScopeRow
    /\ \A d \in dscopes' : \E c \in dscopes : d.by = c.by /\ d.scope = c.scope
    /\ \A c \in dscopes : \E d \in dscopes' : d.by = c.by /\ d.scope = c.scope

LEMMA LinkedKeys ==
    ASSUME Rows, NEW c \in dscopes, NEW p \in LinkPrefixes \cup {0}, LinkScope(c, p)
    PROVE  Relinked /\ \A d \in dscopes' : d.prefix # 0 => d.prefix \in dprefix
<1> DEFINE e == [c EXCEPT !.prefix = p]
<1>1. c \in ScopeRow
  BY DEF Rows
<1>2. e \in ScopeRow /\ e.by = c.by /\ e.scope = c.scope /\ e.prefix = p
  BY <1>1 DEF ScopeRow
<1>3. dscopes' = (dscopes \ {c}) \cup {e} /\ p \in dprefix \cup {0}
  BY DEF LinkScope
<1> HIDE DEF e
<1>. QED
  BY <1>2, <1>3 DEF Relinked, Rows

LEMMA UnlinkedKeys ==
    ASSUME Rows, NEW p \in LinkPrefixes, RemovePrefix(p)
    PROVE  Relinked /\ \A d \in dscopes' : d.prefix # 0 => d.prefix \in dprefix \ {p}
<1> DEFINE to(c) == [c EXCEPT !.prefix = IF @ = p THEN 0 ELSE @]
<1>1. dscopes' = {to(c) : c \in dscopes}
  BY DEF RemovePrefix, Unlinked
<1>2. ASSUME NEW c \in dscopes
      PROVE  /\ to(c) \in ScopeRow /\ to(c).by = c.by /\ to(c).scope = c.scope
             /\ to(c).prefix # 0 => to(c).prefix \in dprefix \ {p}
  <2>1. c \in ScopeRow
    BY DEF Rows
  <2>2. to(c) \in ScopeRow /\ to(c).by = c.by /\ to(c).scope = c.scope
    BY <2>1 DEF ScopeRow
  <2>3. to(c).prefix = IF c.prefix = p THEN 0 ELSE c.prefix
    BY <2>1 DEF ScopeRow
  <2>. QED
    BY <2>2, <2>3 DEF Rows
<1> HIDE DEF to
<1>. QED
  BY <1>1, <1>2 DEF Relinked

LEMMA ScopesRelinked ==
    ASSUME Rows, Relinked, UNCHANGED <<dservers, dleases>>
    PROVE  /\ \A d \in dscopes' : [by |-> d.by, of |-> d.scope.of] \in dservers
           /\ \A l \in dleases : \E d \in dscopes' : d.by = l.by /\ d.scope = l.scope
BY DEF Rows, Relinked

LEMMA InitDhcp == DhcpInit => LocalInv /\ Rows
BY IdleLocal DEF DhcpInit, LocalInv, Local, Rows

LEMMA NextRows == LocalInv /\ Rows /\ [DhcpNext]_dhcpVars => Rows'
<1>. SUFFICES ASSUME LocalInv, Rows, [DhcpNext]_dhcpVars PROVE Rows'
  OBVIOUS
<1>1. ASSUME NEW s \in Syncs, NEW T \in SUBSET DhcpTargets, Collect(s, T) PROVE Rows'
  BY <1>1 DEF Collect, Rows
<1>2. ASSUME NEW s \in Syncs, CommitClear(s) PROVE Rows'
  BY <1>2 DEF CommitClear, Rows
<1>2a. ASSUME NEW s \in Syncs, Clear(s) PROVE Rows'
  BY <1>2a DEF Clear, Rows
<1>3. ASSUME NEW s \in Syncs, ClearFails(s) PROVE Rows'
  BY <1>3 DEF ClearFails, Rows
<1>4. ASSUME NEW s \in Syncs, NEW t \in DhcpTargets, StoreServers(s, t) PROVE Rows'
  BY <1>4 DEF StoreServers, ServerRow, Rows
<1>5. ASSUME NEW s \in Syncs, NEW t \in DhcpTargets, StoreScopes(s, t) PROVE Rows'
  <2> DEFINE new == {[by |-> s, scope |-> c, prefix |-> 0] : c \in Placed(s, t)}
  <2>1. \A c \in Placed(s, t) : c \in DhcpScopes /\ c.of = t
    BY DEF Placed, LocalInv, Local, Owned, ScopesOf
  <2>2. \A x \in new : x \in ScopeRow /\ x.by = s /\ x.scope.of = t /\ x.prefix = 0
    BY <2>1 DEF ScopeRow
  <2>3. dscopes' = dscopes \cup new /\ (Placed(s, t) # {} => [by |-> s, of |-> t] \in dservers)
    BY <1>5 DEF StoreScopes
  <2>4. \A x \in new : [by |-> s, of |-> t] \in dservers
    BY <2>3
  <2> HIDE DEF new
  <2>. QED
    BY <1>5, <2>2, <2>3, <2>4 DEF StoreScopes, Rows
<1>6. ASSUME NEW s \in Syncs, NEW t \in DhcpTargets, StoreLeases(s, t) PROVE Rows'
  <2>1. PICK home \in [FoundLeases(s, t) -> dsync[s].keys] :
           /\ \A c \in FoundLeases(s, t) : \E x \in dscopes : x.by = s /\ x.scope = home[c]
           /\ dleases' = dleases \cup {[by |-> s, lease |-> c, scope |-> home[c], exact |-> Exact(s, t)] :
                                         c \in FoundLeases(s, t)}
    BY <1>6 DEF StoreLeases
  <2>2. /\ \A c \in FoundLeases(s, t) : c \in DhcpScopes
        /\ dsync[s].keys \subseteq DhcpScopes
    BY DEF FoundLeases, LocalInv, Local, Owned, ScopesOf, SyncState
  <2>3. \A l \in dleases' \ dleases : /\ l \in LeaseRow
                                      /\ \E c \in dscopes : c.by = l.by /\ c.scope = l.scope
    <3>1. Exact(s, t) \in BOOLEAN
      BY DEF Exact
    <3>2. \A c \in FoundLeases(s, t) : /\ home[c] \in DhcpScopes
                                 /\ [by |-> s, lease |-> c, scope |-> home[c], exact |-> Exact(s, t)] \in LeaseRow
      BY <2>1, <2>2, <3>1 DEF LeaseRow
    <3>. QED
      BY <2>1, <3>2
  <2>. QED
    BY <1>6, <2>3 DEF StoreLeases, Rows
<1>7. ASSUME NEW s \in Syncs, NEW t \in DhcpTargets, StoreName(s, t) \/ StoreFails(s, t) PROVE Rows'
  BY <1>7 DEF StoreName, StoreFails, Rows
<1>8. CASE DhcpRestart
  BY <1>8 DEF DhcpRestart, Rows
<1>9. ASSUME NEW t \in DhcpTargets, NEW to, CreateTarget(t, to) \/ UpdateTarget(t, to) \/ DeleteTarget(t)
      PROVE  Rows'
  BY <1>9 DEF CreateTarget, UpdateTarget, DeleteTarget, SetTarget, Rows
<1>10. ASSUME NEW c \in dscopes, NEW p \in LinkPrefixes \cup {0}, LinkScope(c, p) PROVE Rows'
  <2>. QED
    BY <1>10, ScopesRelinked, LinkedKeys DEF LinkScope, Relinked, Rows
<1>11. ASSUME NEW p \in LinkPrefixes, AddPrefix(p) PROVE Rows'
  BY <1>11 DEF AddPrefix, Rows
<1>12. ASSUME NEW p \in LinkPrefixes, RemovePrefix(p) PROVE Rows'
  <2>. QED
    BY <1>12, ScopesRelinked, UnlinkedKeys DEF RemovePrefix, Relinked, Rows
<1>13. CASE UNCHANGED dhcpVars
  BY <1>13 DEF dhcpVars, Rows
<1>. QED
  BY <1>1, <1>2, <1>2a, <1>3, <1>4, <1>5, <1>6, <1>7, <1>8, <1>9, <1>10, <1>11, <1>12, <1>13
     DEF DhcpNext, SyncStep

LEMMA RowsAlways == DhcpSpec => [](LocalInv /\ Rows)
BY InitDhcp, NextLocal, NextRows, PTL DEF DhcpSpec

(* The rows of the tables, the targets and the syncs keep their types, and *)
(* no scope or lease is left without the row it belongs to.                *)
THEOREM DhcpTypes == DhcpSpec => []DhcpTypeOK
<1>1. LocalInv /\ Rows => DhcpTypeOK
  BY DEF LocalInv, Rows, DhcpTypeOK
<1>. QED
  BY <1>1, RowsAlways, PTL

-----------------------------------------------------------------------------
(* A sync that is alone: no other one is filling the tables, and all rows  *)
(* are its own, or go with its commit.                                     *)

Mine(s) ==
    /\ \A x \in dservers : x.by = s
    /\ \A c \in dscopes : c.by = s
    /\ \A l \in dleases : l.by = s

Apart ==
    \A s \in Syncs : dsync[s].alone =>
        /\ IF dsync[s].pc = "commit" THEN dservers \subseteq dsync[s].doomed ELSE Mine(s)
        /\ \A w \in Syncs \ {s} : ~Storing(w)

(* A step of the syncs' transactions, with the rows it adds.               *)
LEMMA StoringApart ==
    ASSUME Apart, NEW s \in Syncs, Storing(s), dsync'[s].alone => dsync[s].alone,
           dsync'[s].pc # "commit",
           \A v \in Syncs \ {s} : dsync'[v] = dsync[v],
           \A x \in dservers' \ dservers : x.by = s,
           \A c \in dscopes' \ dscopes : c.by = s,
           \A l \in dleases' \ dleases : l.by = s
    PROVE  Apart'
<1>1. \A v \in Syncs \ {s} : ~dsync'[v].alone
  BY DEF Apart
<1>2. dsync'[s].alone => Mine(s) /\ \A w \in Syncs \ {s} : ~Storing(w)
  BY DEF Apart, Storing
<1>. QED
  BY <1>1, <1>2 DEF Apart, Mine, Storing

(* A step that changes no sync, or leaves one with nothing in the tables.  *)
LEMMA CalmApart ==
    ASSUME LocalInv', Apart,
           \A s \in Syncs : dsync'[s] = dsync[s] \/ dsync'[s].pc \in {"idle", "clear"},
           dservers' = dservers,
           \A x \in dscopes' : \E y \in dscopes : x.by = y.by,
           dleases' = dleases
    PROVE  Apart'
<1>1. \A s \in Syncs : dsync'[s].pc \in {"idle", "clear"} => ~dsync'[s].alone /\ ~Storing(s)'
  BY DEF LocalInv, Local, Storing
<1>2. \A s \in Syncs : /\ dsync'[s].alone => dsync'[s] = dsync[s]
                       /\ Storing(s)' => Storing(s)
  BY <1>1 DEF Storing
<1>. QED
  BY <1>2 DEF Apart, Mine

(* What the commit of a sync that is alone leaves.                         *)
LEMMA EmptiedAlone ==
    ASSUME Rows, Apart, NEW s \in Syncs, CommitClear(s), dsync[s].alone
    PROVE  dservers' = {} /\ dscopes' = {} /\ dleases' = {}
<1>1. dservers \subseteq dsync[s].doomed
  BY DEF CommitClear, Apart
<1>2. \A c \in dscopes : [by |-> c.by, of |-> c.scope.of] \in dsync[s].doomed
  BY <1>1 DEF Rows
<1>3. \A l \in dleases : [by |-> l.by, of |-> l.scope.of] \in dsync[s].doomed
  BY <1>2 DEF Rows
<1>. QED
  BY <1>1, <1>2, <1>3 DEF CommitClear

LEMMA NextApart == LocalInv /\ LocalInv' /\ Rows /\ Apart /\ [DhcpNext]_dhcpVars => Apart'
<1>. SUFFICES ASSUME LocalInv, LocalInv', Rows, Apart, [DhcpNext]_dhcpVars PROVE Apart'
  OBVIOUS
<1>1. ASSUME NEW s \in Syncs, NEW T \in SUBSET DhcpTargets, Collect(s, T) PROVE Apart'
  <2>1. \A v \in Syncs : dsync'[v] = dsync[v] \/ dsync'[v].pc = "clear"
    BY <1>1, CollectLocal
  <2>. QED
    BY <1>1, <2>1, CalmApart DEF Collect
<1>2. ASSUME NEW s \in Syncs, Clear(s) PROVE Apart'
  <2>1. /\ \A v \in Syncs \ {s} : dsync'[v] = dsync[v]
        /\ dsync'[s].pc = "commit" /\ dsync'[s].doomed = dservers
        /\ dsync'[s].alone => \A w \in Syncs \ {s} : ~Storing(w)
    BY <1>2, ClearLocal
  <2>2. UNCHANGED <<dservers, dscopes, dleases>>
    BY <1>2 DEF Clear
  <2>. QED
    BY <2>1, <2>2 DEF Apart, Mine, Storing
<1>2a. ASSUME NEW s \in Syncs, CommitClear(s) PROVE Apart'
  <2>1. /\ dsync'[s] = [dsync[s] EXCEPT !.pc = "servers", !.doomed = {}]
        /\ \A v \in Syncs \ {s} : ~dsync'[v].alone /\ (Storing(v)' => Storing(v))
    BY <1>2a, CommitClearLocal
  <2>2. dsync'[s].alone = dsync[s].alone /\ dsync'[s].pc = "servers"
    BY <2>1 DEF LocalInv, SyncState
  <2>3. dsync[s].alone => dservers' = {} /\ dscopes' = {} /\ dleases' = {}
    BY <1>2a, EmptiedAlone
  <2>4. dsync[s].alone => \A w \in Syncs \ {s} : ~Storing(w)
    BY DEF Apart
  <2>. QED
    BY <2>1, <2>2, <2>3, <2>4 DEF Apart, Mine
<1>3. ASSUME NEW s \in Syncs, ClearFails(s) PROVE Apart'
  <2>1. dsync'[s].pc = "idle" /\ \A v \in Syncs \ {s} : dsync'[v] = dsync[v]
    BY <1>3 DEF ClearFails, SyncIdle, LocalInv
  <2>. QED
    BY <1>3, <2>1, CalmApart DEF ClearFails
<1>4. ASSUME NEW s \in Syncs, NEW t \in DhcpTargets,
             StoreServers(s, t) \/ StoreScopes(s, t) \/ StoreLeases(s, t)
      PROVE  Apart'
  <2>1. /\ Storing(s)
        /\ dsync'[s].alone => dsync[s].alone
        /\ dsync'[s].pc # "commit"
        /\ \A v \in Syncs \ {s} : dsync'[v] = dsync[v]
    BY <1>4, StoreStep
  <2>2. /\ \A x \in dservers' \ dservers : x.by = s
        /\ \A c \in dscopes' \ dscopes : c.by = s
        /\ \A l \in dleases' \ dleases : l.by = s
    BY <1>4 DEF StoreServers, StoreScopes, StoreLeases
  <2>. QED
    BY <2>1, <2>2, StoringApart
<1>7. ASSUME NEW s \in Syncs, NEW t \in DhcpTargets, StoreName(s, t) \/ StoreFails(s, t) PROVE Apart'
  <2>1. /\ Storing(s)
        /\ dsync'[s].alone => dsync[s].alone
        /\ dsync'[s].pc # "commit"
        /\ \A v \in Syncs \ {s} : dsync'[v] = dsync[v]
    BY <1>7, StoreEndLocal
  <2>2. dservers' = dservers /\ dscopes' = dscopes /\ dleases' = dleases
    BY <1>7 DEF StoreName, StoreFails
  <2>. QED
    BY <2>1, <2>2, StoringApart
<1>8. CASE DhcpRestart
  <2>1. \A v \in Syncs : dsync'[v].pc = "idle"
    BY <1>8 DEF DhcpRestart, SyncIdle
  <2>. QED
    BY <1>8, <2>1, CalmApart DEF DhcpRestart
<1>9. ASSUME NEW t \in DhcpTargets, NEW to, CreateTarget(t, to) \/ UpdateTarget(t, to) \/ DeleteTarget(t)
      PROVE  Apart'
  BY <1>9, CalmApart DEF CreateTarget, UpdateTarget, DeleteTarget, SetTarget
<1>10. ASSUME NEW c \in dscopes, NEW p \in LinkPrefixes \cup {0}, LinkScope(c, p) PROVE Apart'
  <2>1. Relinked
    BY <1>10, LinkedKeys
  <2>. QED
    BY <1>10, <2>1, CalmApart DEF LinkScope, Relinked
<1>11. ASSUME NEW p \in LinkPrefixes, AddPrefix(p) PROVE Apart'
  BY <1>11, CalmApart DEF AddPrefix
<1>12. ASSUME NEW p \in LinkPrefixes, RemovePrefix(p) PROVE Apart'
  <2>1. Relinked
    BY <1>12, UnlinkedKeys
  <2>. QED
    BY <1>12, <2>1, CalmApart DEF RemovePrefix, Relinked
<1>13. CASE UNCHANGED dhcpVars
  BY <1>13, CalmApart DEF dhcpVars
<1>. QED
  BY <1>1, <1>2, <1>2a, <1>3, <1>4, <1>7, <1>8, <1>9, <1>10, <1>11, <1>12, <1>13
     DEF DhcpNext, SyncStep

LEMMA ApartAlways == DhcpSpec => []Apart
<1>1. DhcpInit => Apart
  BY DEF DhcpInit, SyncIdle, Apart
<1>. QED
  BY <1>1, NextApart, RowsAlways, PTL DEF DhcpSpec

(* While a sync fills the tables alone, and after it, no row of another    *)
(* sync is in them.                                                        *)
THEOREM NothingLeftOver == DhcpSpec => []NoLeftovers
<1>1. Apart => NoLeftovers
  BY DEF Apart, Mine, NoLeftovers
<1>. QED
  BY <1>1, ApartAlways, PTL

-----------------------------------------------------------------------------
(* How far a sync that is alone has come with each target.                 *)

HasServer(s, t)    == [by |-> s, of |-> t] \in dservers
ScopeIn(s, c)      == \E x \in dscopes : x.by = s /\ x.scope = c
LeaseIn(s, c)      == \E x \in dleases : x.by = s /\ x.lease = c
ScopesAre(s, t, S) == \A c \in ScopesOf(t) : ScopeIn(s, c) <=> c \in S
LeasesAre(s, t, S) == \A c \in ScopesOf(t) : LeaseIn(s, c) <=> c \in S

(* The leases of a report that are to be stored.                           *)
Due(r) == IF r.lost = "scope" THEN {} ELSE r.leases

Reached(s, t) ==
    LET d == dsync[s] IN
    /\ t \in d.ok => /\ HasServer(s, t)
                     /\ ScopesAre(s, t, d.batch[t].scopes)
                     /\ LeasesAre(s, t, Due(d.batch[t]))
    /\ t \in d.todo /\ (t \in d.cur => d.pc = "scopes") => ScopesAre(s, t, {})
    /\ t \in d.todo /\ (t \in d.cur => d.pc \in {"scopes", "leases"}) => LeasesAre(s, t, {})
    /\ t \in d.cur => HasServer(s, t)
    /\ t \in d.cur /\ d.pc \in {"leases", "name"} => ScopesAre(s, t, d.batch[t].scopes)
    /\ t \in d.cur /\ d.pc = "name" => LeasesAre(s, t, Due(d.batch[t]))

Progress == \A s \in Syncs : dsync[s].alone /\ dsync[s].pc # "commit" =>
                \A t \in DhcpTargets \ Nameless : Reached(s, t)

(* A step of the transaction of s: nobody else is alone.                   *)
LEMMA OthersNotAlone ==
    ASSUME Apart, NEW s \in Syncs, Storing(s), \A v \in Syncs \ {s} : dsync'[v] = dsync[v],
           dsync'[s].alone => \A t \in DhcpTargets \ Nameless : Reached(s, t)'
    PROVE  Progress'
BY DEF Apart, Progress

LEMMA SameRowsReached ==
    ASSUME NEW s \in Syncs, NEW t \in DhcpTargets, Reached(s, t), dsync'[s] = dsync[s],
           dservers' = dservers,
           \A c \in DhcpScopes : ScopeIn(s, c)' <=> ScopeIn(s, c),
           dleases' = dleases
    PROVE  Reached(s, t)'
BY DEF Reached, HasServer, ScopesAre, LeasesAre, LeaseIn, ScopesOf

LEMMA CalmProgress ==
    ASSUME LocalInv, LocalInv', Progress,
           \A s \in Syncs : dsync'[s] = dsync[s] \/ dsync'[s].pc \in {"idle", "clear"},
           dservers' = dservers,
           \A s \in Syncs : \A c \in DhcpScopes : ScopeIn(s, c)' <=> ScopeIn(s, c),
           dleases' = dleases
    PROVE  Progress'
<1>1. ASSUME NEW s \in Syncs, dsync'[s].alone PROVE dsync'[s] = dsync[s]
  BY <1>1 DEF LocalInv, Local
<1>. QED
  BY <1>1, SameRowsReached DEF Progress

LEMMA RelinkedProgress ==
    ASSUME LocalInv, LocalInv', Progress, Relinked, UNCHANGED <<dservers, dleases, dsync>>
    PROVE  Progress'
<1>1. \A s \in Syncs : \A c \in DhcpScopes : ScopeIn(s, c)' <=> ScopeIn(s, c)
  BY DEF ScopeIn, Relinked
<1>. QED
  BY <1>1, CalmProgress

(* Once its scopes have their keys, every lease that names one finds it.   *)
LEMMA AllFound ==
    ASSUME LocalInv, NEW s \in Syncs, NEW t \in DhcpTargets \ Nameless,
           dsync[s].pc = "leases", dsync[s].cur = {t}
    PROVE  /\ FoundLeases(s, t) = Due(dsync[s].batch[t])
           /\ dsync[s].batch[t].lost = "none" =>
                 \A c \in dsync[s].batch[t].leases : Homes(s, c) = Keyed(s, c)
<1>1. \A c \in dsync[s].batch[t].leases : c.of = t /\ c \in dsync[s].keys
  BY DEF LocalInv, Local, Owned, ScopesOf
<1>2. \A c \in dsync[s].batch[t].leases : c \in Named(s, c) /\ c \in Keyed(s, c)
  BY <1>1 DEF Named, Keyed
<1>3. dsync[s].batch[t].lost = "scope" => FoundLeases(s, t) = {}
  BY <1>1 DEF FoundLeases, Homes
<1>4. dsync[s].batch[t].lost # "scope" => \A c \in dsync[s].batch[t].leases : Homes(s, c) # {}
  BY <1>1, <1>2 DEF Homes
<1>5. dsync[s].batch[t].lost = "none" =>
          \A c \in dsync[s].batch[t].leases : Homes(s, c) = Keyed(s, c)
  BY <1>1, <1>2 DEF Homes
<1>. QED
  BY <1>3, <1>4, <1>5 DEF FoundLeases, Due

LEMMA NextProgress ==
    LocalInv /\ LocalInv' /\ Rows /\ Apart /\ Progress /\ [DhcpNext]_dhcpVars => Progress'
<1>. SUFFICES ASSUME LocalInv, LocalInv', Rows, Apart, Progress, [DhcpNext]_dhcpVars PROVE Progress'
  OBVIOUS
<1>1. ASSUME NEW s \in Syncs, NEW T \in SUBSET DhcpTargets, Collect(s, T) PROVE Progress'
  <2>1. \A v \in Syncs : v = s \/ dsync'[v] = dsync[v]
    BY <1>1, CollectLocal
  <2>2. dsync'[s].pc = "clear"
    BY <1>1, CollectLocal
  <2>. QED
    BY <1>1, <2>1, <2>2, CalmProgress DEF Collect, ScopeIn
<1>2. ASSUME NEW s \in Syncs, Clear(s) PROVE Progress'
  <2>1. dsync'[s].pc = "commit" /\ \A v \in Syncs \ {s} : dsync'[v] = dsync[v]
    BY <1>2, ClearLocal
  <2>2. UNCHANGED <<dservers, dscopes, dleases>>
    BY <1>2 DEF Clear
  <2>3. \A v \in Syncs \ {s}, t \in DhcpTargets : Reached(v, t) => Reached(v, t)'
    BY <2>1, <2>2, SameRowsReached DEF ScopeIn
  <2>. QED
    BY <2>1, <2>3 DEF Progress
<1>2a. ASSUME NEW s \in Syncs, CommitClear(s) PROVE Progress'
  <2>1. dsync[s] \in SyncState /\ dsync[s].ok = {} /\ dsync[s].cur = {}
    BY <1>2a DEF LocalInv, Local, CommitClear
  <2>2. /\ dsync'[s].ok = {} /\ dsync'[s].cur = {} /\ dsync'[s].alone = dsync[s].alone
        /\ \A v \in Syncs \ {s} : ~dsync'[v].alone
    <3>1. dsync'[s] = [dsync[s] EXCEPT !.pc = "servers", !.doomed = {}]
      BY <1>2a, CommitClearLocal
    <3>2. \A v \in Syncs \ {s} : ~dsync'[v].alone
      BY <1>2a, CommitClearLocal
    <3>. QED
      BY <2>1, <3>1, <3>2 DEF SyncState
  <2>3. dsync[s].alone => dscopes' = {} /\ dleases' = {}
    BY <1>2a, EmptiedAlone
  <2>4. dsync[s].alone => \A t \in DhcpTargets : ScopesAre(s, t, {})' /\ LeasesAre(s, t, {})'
    BY <2>3 DEF ScopesAre, LeasesAre, ScopeIn, LeaseIn
  <2>. QED
    BY <2>2, <2>4 DEF Progress, Reached
<1>3. ASSUME NEW s \in Syncs, ClearFails(s) PROVE Progress'
  <2>1. dsync'[s].pc = "idle" /\ \A v \in Syncs \ {s} : dsync'[v] = dsync[v]
    BY <1>3 DEF ClearFails, SyncIdle, LocalInv
  <2>. QED
    BY <1>3, <2>1, CalmProgress DEF ClearFails, ScopeIn
<1>4. ASSUME NEW s \in Syncs, NEW t \in DhcpTargets, StoreServers(s, t) PROVE Progress'
  <2>1. Storing(s) /\ dsync[s].pc = "servers" /\ t \in dsync[s].todo
    BY <1>4, StoreStep
  <2>2. \A v \in Syncs \ {s} : dsync'[v] = dsync[v]
    BY <1>4, StoreStep
  <2>3. /\ dsync'[s].pc = "scopes" /\ dsync'[s].cur = {t} /\ dsync'[s].batch = dsync[s].batch
        /\ dsync'[s].ok = dsync[s].ok /\ dsync'[s].todo = dsync[s].todo
        /\ dsync'[s].alone = dsync[s].alone
    BY <1>4, StoreStep
  <2>4. dscopes' = dscopes /\ dleases' = dleases /\ dservers' = dservers \cup {[by |-> s, of |-> t]}
    BY <1>4 DEF StoreServers
  <2>5. dsync[s].cur = {}
    BY <2>1 DEF LocalInv, Local
  <2>6. ASSUME NEW u \in DhcpTargets, Reached(s, u) PROVE Reached(s, u)'
    <3>1. /\ \A S : (ScopesAre(s, u, S)' <=> ScopesAre(s, u, S))
          /\ \A S : (LeasesAre(s, u, S)' <=> LeasesAre(s, u, S))
      BY <2>4 DEF ScopesAre, LeasesAre, ScopeIn, LeaseIn
    <3>2. HasServer(s, u) => HasServer(s, u)'
      BY <2>4 DEF HasServer
    <3>3. u = t => HasServer(s, u)'
      BY <2>4 DEF HasServer
    <3>. QED
      BY <2>1, <2>3, <2>5, <2>6, <3>1, <3>2, <3>3 DEF Reached
  <2>. QED
    BY <2>1, <2>2, <2>3, <2>6, OthersNotAlone DEF Progress
<1>5. ASSUME NEW s \in Syncs, NEW t \in DhcpTargets, StoreScopes(s, t) PROVE Progress'
  <2>1. Storing(s) /\ dsync[s].pc = "scopes" /\ dsync[s].cur = {t} /\ t \in dsync[s].todo
    BY <1>5, StoreStep
  <2>2. \A v \in Syncs \ {s} : dsync'[v] = dsync[v]
    BY <1>5, StoreStep
  <2>3. /\ dsync'[s].pc = "leases" /\ dsync'[s].cur = {t} /\ dsync'[s].batch = dsync[s].batch
        /\ dsync'[s].ok = dsync[s].ok /\ dsync'[s].todo = dsync[s].todo
        /\ dsync'[s].alone = dsync[s].alone
    BY <1>5, StoreStep
  <2>4. dservers' = dservers /\ dleases' = dleases
    BY <1>5 DEF StoreScopes
  <2>5. \A c \in DhcpScopes : ScopeIn(s, c)' <=> ScopeIn(s, c) \/ c \in Placed(s, t)
    <3>1. dscopes' = dscopes \cup {[by |-> s, scope |-> c, prefix |-> 0] : c \in Placed(s, t)}
      BY <1>5 DEF StoreScopes
    <3>2. ASSUME NEW c \in DhcpScopes, ScopeIn(s, c)' PROVE ScopeIn(s, c) \/ c \in Placed(s, t)
      BY <3>1, <3>2 DEF ScopeIn
    <3>3. ASSUME NEW c \in DhcpScopes, ScopeIn(s, c) PROVE ScopeIn(s, c)'
      BY <3>1, <3>3 DEF ScopeIn
    <3>4. ASSUME NEW c \in Placed(s, t) PROVE ScopeIn(s, c)'
      <4>1. [by |-> s, scope |-> c, prefix |-> 0] \in dscopes'
        BY <3>1
      <4>. QED
        BY <4>1 DEF ScopeIn
    <3>. QED
      BY <3>2, <3>3, <3>4
  <2>6. ASSUME NEW u \in DhcpTargets \ Nameless, Reached(s, u) PROVE Reached(s, u)'
    <3>1. /\ HasServer(s, u)' <=> HasServer(s, u)
          /\ \A S : (LeasesAre(s, u, S)' <=> LeasesAre(s, u, S))
      BY <2>4 DEF HasServer, LeasesAre, LeaseIn
    <3>2. CASE u = t
      <4>0. Placed(s, t) = dsync[s].batch[t].scopes
        BY <3>2 DEF Placed
      <4>1. ScopesAre(s, t, dsync[s].batch[t].scopes)'
        BY <4>0, <2>1, <2>3, <2>5, <2>6, <3>2 DEF Reached, ScopesAre, ScopesOf
      <4>2. t \notin dsync[s].ok
        BY <2>1 DEF LocalInv, Local
      <4>. QED
        BY <2>1, <2>3, <2>6, <3>1, <3>2, <4>1, <4>2 DEF Reached
    <3>3. CASE u # t
      <4>1. \A c \in ScopesOf(u) : c \in DhcpScopes /\ c \notin Placed(s, t)
        BY <3>3 DEF Placed, ScopesOf, LocalInv, Local, Owned
      <4>2. \A S : (ScopesAre(s, u, S)' <=> ScopesAre(s, u, S))
        BY <2>5, <4>1 DEF ScopesAre
      <4>. QED
        BY <2>1, <2>3, <2>6, <3>1, <3>3, <4>2 DEF Reached
    <3>. QED
      BY <3>2, <3>3
  <2>. QED
    BY <2>1, <2>2, <2>3, <2>6, OthersNotAlone DEF Progress
<1>6. ASSUME NEW s \in Syncs, NEW t \in DhcpTargets, StoreLeases(s, t) PROVE Progress'
  <2>1. Storing(s) /\ dsync[s].pc = "leases" /\ dsync[s].cur = {t} /\ t \in dsync[s].todo
    BY <1>6, StoreStep
  <2>2. \A v \in Syncs \ {s} : dsync'[v] = dsync[v]
    BY <1>6, StoreStep
  <2>3. /\ dsync'[s].pc = "name" /\ dsync'[s].cur = {t} /\ dsync'[s].batch = dsync[s].batch
        /\ dsync'[s].ok = dsync[s].ok /\ dsync'[s].todo = dsync[s].todo
        /\ dsync'[s].alone = dsync[s].alone
    BY <1>6, StoreStep
  <2>4. dservers' = dservers /\ dscopes' = dscopes
    BY <1>6 DEF StoreLeases
  <2>5. \A c \in DhcpScopes : LeaseIn(s, c)' <=> LeaseIn(s, c) \/ c \in FoundLeases(s, t)
    <3>1. PICK home :
             dleases' = dleases \cup {[by |-> s, lease |-> c, scope |-> home[c], exact |-> Exact(s, t)] :
                                         c \in FoundLeases(s, t)}
      BY <1>6 DEF StoreLeases
    <3>2. ASSUME NEW c \in DhcpScopes, LeaseIn(s, c)' PROVE LeaseIn(s, c) \/ c \in FoundLeases(s, t)
      BY <3>1, <3>2 DEF LeaseIn
    <3>3. ASSUME NEW c \in DhcpScopes, LeaseIn(s, c) PROVE LeaseIn(s, c)'
      BY <3>1, <3>3 DEF LeaseIn
    <3>4. ASSUME NEW c \in FoundLeases(s, t) PROVE LeaseIn(s, c)'
      <4>1. [by |-> s, lease |-> c, scope |-> home[c], exact |-> Exact(s, t)] \in dleases'
        BY <3>1
      <4>. QED
        BY <4>1 DEF LeaseIn
    <3>. QED
      BY <3>2, <3>3, <3>4
  <2>6. ASSUME NEW u \in DhcpTargets \ Nameless, Reached(s, u) PROVE Reached(s, u)'
    <3>1. /\ HasServer(s, u)' <=> HasServer(s, u)
          /\ \A S : (ScopesAre(s, u, S)' <=> ScopesAre(s, u, S))
      BY <2>4 DEF HasServer, ScopesAre, ScopeIn
    <3>2. CASE u = t
      <4>0. FoundLeases(s, t) = Due(dsync[s].batch[t])
        BY <2>1, <3>2, AllFound
      <4>1. LeasesAre(s, t, Due(dsync[s].batch[t]))'
        BY <4>0, <2>1, <2>3, <2>5, <2>6, <3>2 DEF Reached, LeasesAre, ScopesOf
      <4>2. t \notin dsync[s].ok
        BY <2>1 DEF LocalInv, Local
      <4>. QED
        BY <2>1, <2>3, <2>6, <3>1, <3>2, <4>1, <4>2 DEF Reached
    <3>3. CASE u # t
      <4>1. \A c \in ScopesOf(u) : c \in DhcpScopes /\ c \notin FoundLeases(s, t)
        BY <3>3 DEF FoundLeases, ScopesOf, LocalInv, Local, Owned
      <4>2. \A S : (LeasesAre(s, u, S)' <=> LeasesAre(s, u, S))
        BY <2>5, <4>1 DEF LeasesAre
      <4>. QED
        BY <2>1, <2>3, <2>6, <3>1, <3>3, <4>2 DEF Reached
    <3>. QED
      BY <3>2, <3>3
  <2>. QED
    BY <2>1, <2>2, <2>3, <2>6, OthersNotAlone DEF Progress
<1>7. ASSUME NEW s \in Syncs, NEW t \in DhcpTargets, StoreName(s, t) \/ StoreFails(s, t) PROVE Progress'
  <2>1. UNCHANGED <<dservers, dscopes, dleases>>
    BY <1>7 DEF StoreName, StoreFails
  <2>2. /\ Storing(s) /\ \A v \in Syncs \ {s} : dsync'[v] = dsync[v]
        /\ dsync'[s].pc \in {"idle", "servers", "done"}
    BY <1>7, StoreEndLocal
  <2>3. ASSUME dsync'[s].alone, NEW u \in DhcpTargets \ Nameless PROVE Reached(s, u)'
    <3>1. /\ dsync[s].alone /\ dsync'[s].cur = {} /\ dsync'[s].batch = dsync[s].batch
          /\ dsync'[s].todo \subseteq dsync[s].todo \ {t}
          /\ \/ dsync'[s].ok = dsync[s].ok
             \/ StoreName(s, t) /\ dsync'[s].ok = dsync[s].ok \cup {t}
      BY <1>7, <2>3, StoreEndLocal
    <3>2. dsync[s].cur \subseteq {t}
      BY <1>7 DEF StoreName, StoreFails, LocalInv, Local
    <3>3. /\ HasServer(s, u)' <=> HasServer(s, u)
          /\ \A S : (ScopesAre(s, u, S)' <=> ScopesAre(s, u, S))
          /\ \A S : (LeasesAre(s, u, S)' <=> LeasesAre(s, u, S))
      BY <2>1 DEF HasServer, ScopesAre, ScopeIn, LeasesAre, LeaseIn
    <3>4. StoreName(s, t) => dsync[s].pc = "name" /\ t \in dsync[s].cur
      BY DEF StoreName
    <3>5. Reached(s, u)
      BY <2>2, <3>1 DEF Progress, Storing
    <3>. QED
      BY <3>1, <3>2, <3>3, <3>4, <3>5 DEF Reached
  <2>. QED
    BY <2>2, <2>3, OthersNotAlone
<1>8. CASE DhcpRestart
  <2>1. \A v \in Syncs : dsync'[v].pc = "idle"
    BY <1>8 DEF DhcpRestart, SyncIdle
  <2>. QED
    BY <1>8, <2>1, CalmProgress DEF DhcpRestart, ScopeIn
<1>9. ASSUME NEW t \in DhcpTargets, NEW to, CreateTarget(t, to) \/ UpdateTarget(t, to) \/ DeleteTarget(t)
      PROVE  Progress'
  BY <1>9, CalmProgress DEF CreateTarget, UpdateTarget, DeleteTarget, SetTarget, ScopeIn
<1>10. ASSUME NEW c \in dscopes, NEW p \in LinkPrefixes \cup {0}, LinkScope(c, p) PROVE Progress'
  BY <1>10, LinkedKeys, RelinkedProgress DEF LinkScope
<1>11. ASSUME NEW p \in LinkPrefixes, AddPrefix(p) PROVE Progress'
  BY <1>11, CalmProgress DEF AddPrefix, ScopeIn
<1>12. ASSUME NEW p \in LinkPrefixes, RemovePrefix(p) PROVE Progress'
  BY <1>12, UnlinkedKeys, RelinkedProgress DEF RemovePrefix
<1>13. CASE UNCHANGED dhcpVars
  BY <1>13, CalmProgress DEF dhcpVars, ScopeIn
<1>. QED
  BY <1>1, <1>2, <1>2a, <1>3, <1>4, <1>5, <1>6, <1>7, <1>8, <1>9, <1>10, <1>11, <1>12, <1>13
     DEF DhcpNext, SyncStep

LEMMA ReachedComplete ==
    ASSUME LocalInv, Rows, NEW s \in Syncs, NEW t \in DhcpTargets, t \in dsync[s].ok, Reached(s, t)
    PROVE  Complete(s, t)
<1>1. dsync[s].batch[t].scopes \subseteq ScopesOf(t) /\ Due(dsync[s].batch[t]) \subseteq ScopesOf(t)
  BY DEF LocalInv, Local, Owned, Due
<1>2. /\ \A c \in ScopesOf(t) : ScopeIn(s, c) <=> c \in dsync[s].batch[t].scopes
      /\ \A c \in ScopesOf(t) : LeaseIn(s, c) <=> c \in Due(dsync[s].batch[t])
      /\ [by |-> s, of |-> t] \in dservers
  BY DEF Reached, ScopesAre, LeasesAre, HasServer
<1>3. {c.scope : c \in {x \in dscopes : x.by = s /\ x.scope.of = t}} = dsync[s].batch[t].scopes
  BY <1>1, <1>2 DEF ScopeIn, ScopesOf, Rows, ScopeRow
<1>4. {l.lease : l \in {x \in dleases : x.by = s /\ x.lease.of = t}} = Due(dsync[s].batch[t])
  BY <1>1, <1>2 DEF LeaseIn, ScopesOf, Rows, LeaseRow
<1>. QED
  BY <1>2, <1>3, <1>4 DEF Complete, Due

LEMMA ProgressAlways == DhcpSpec => []Progress
<1>1. DhcpInit => Progress
  BY DEF DhcpInit, SyncIdle, Progress
<1>. QED
  BY <1>1, NextProgress, RowsAlways, ApartAlways, PTL DEF DhcpSpec

(* A target that counts as stored, and has a name, is there with its       *)
(* scopes and the leases that name one of them, until another sync empties *)
(* the tables.                                                             *)
THEOREM StoredIsComplete == DhcpSpec => []OkIsStored
<1>1. LocalInv /\ Rows /\ Progress => OkIsStored
  <2>. SUFFICES ASSUME LocalInv, Rows, Progress, NEW s \in Syncs, dsync[s].alone,
                       NEW t \in dsync[s].ok \ Nameless
                PROVE  Complete(s, t)
    BY DEF OkIsStored
  <2>1. t \in DhcpTargets \ Nameless /\ dsync[s].pc # "commit"
    BY DEF LocalInv, Local, SyncState
  <2>. QED
    BY <2>1, ReachedComplete DEF Progress
<1>. QED
  BY <1>1, RowsAlways, ProgressAlways, PTL

-----------------------------------------------------------------------------
(* Leases with the names of their scope find it by them.                   *)
LEMMA NextHome == LocalInv /\ LeaseAtHome /\ [DhcpNext]_dhcpVars => LeaseAtHome'
<1>. SUFFICES ASSUME LocalInv, LeaseAtHome, [DhcpNext]_dhcpVars PROVE LeaseAtHome'
  OBVIOUS
<1>1. ASSUME NEW s \in Syncs, NEW t \in DhcpTargets, StoreLeases(s, t) PROVE LeaseAtHome'
  <2>1. PICK home :
           /\ \A c \in FoundLeases(s, t) : home[c] \in Homes(s, c)
           /\ dleases' = dleases \cup {[by |-> s, lease |-> c, scope |-> home[c], exact |-> Exact(s, t)] :
                                         c \in FoundLeases(s, t)}
    BY <1>1 DEF StoreLeases
  <2>2. dsync[s].pc = "leases" /\ dsync[s].cur = {t}
    BY <1>1, StoreStep
  <2>3. Exact(s, t) => \A c \in FoundLeases(s, t) :
                     home[c] \in DhcpScopes /\ home[c].of = c.of /\ home[c].name = c.name
    <3>1. Exact(s, t) => \A c \in FoundLeases(s, t) : home[c] \in Keyed(s, c)
      <4>1. Exact(s, t) => \A c \in dsync[s].batch[t].leases : Homes(s, c) = Keyed(s, c)
        BY <2>2, AllFound DEF Exact
      <4>2. \A c \in FoundLeases(s, t) : c \in dsync[s].batch[t].leases
        BY DEF FoundLeases
      <4>. QED
        BY <2>1, <4>1, <4>2
    <3>2. dsync[s].keys \subseteq DhcpScopes
      BY DEF LocalInv, SyncState
    <3>. QED
      BY <3>1, <3>2 DEF Keyed, Named
  <2>4. \A l \in dleases' \ dleases : \E c \in FoundLeases(s, t) :
            l.lease = c /\ l.scope = home[c] /\ l.exact = Exact(s, t)
    BY <2>1
  <2>. QED
    BY <2>3, <2>4 DEF LeaseAtHome, ScopesOf
<1>2. ASSUME dleases' \subseteq dleases PROVE LeaseAtHome'
  BY <1>2 DEF LeaseAtHome
<1>3. ASSUME NEW s \in Syncs, SyncStep(s) PROVE LeaseAtHome'
  BY <1>1, <1>2, <1>3 DEF SyncStep, Collect, Clear, CommitClear, ClearFails, StoreServers, StoreScopes,
     StoreName, StoreFails
<1>4. CASE UNCHANGED dleases
  BY <1>2, <1>4
<1>. QED
  BY <1>3, <1>4 DEF DhcpNext, dhcpVars, DhcpRestart, CreateTarget, UpdateTarget, DeleteTarget, SetTarget,
     LinkScope, AddPrefix, RemovePrefix

(* A lease that came with the names of its scope is in a scope of the      *)
(* machine that reported it, and in its own scope when no other scope of   *)
(* that machine has the same name.                                         *)
THEOREM LeasesAtHome == DhcpSpec => []LeaseAtHome
<1>1. DhcpInit => LeaseAtHome
  BY DEF DhcpInit, LeaseAtHome
<1>. QED
  BY <1>1, NextHome, RowsAlways, PTL DEF DhcpSpec
=============================================================================
