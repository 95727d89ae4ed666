------------------------------ MODULE DhcpSync ------------------------------
(***************************************************************************)
(* DHCP: the tables of servers, scopes and leases, which                   *)
(* run_dhcp_wmi_sync empties and fills again from what the enabled targets *)
(* report, the targets themselves, and the links from scopes to prefixes.  *)
(* A sync runs in the thread of the two-hourly job of each server, or in   *)
(* one of POST /dhcp/sync-from-wmi; nothing keeps two of them apart.       *)
(***************************************************************************)
EXTENDS Naturals, FiniteSets

CONSTANTS
    DhcpTargets,   \* primary keys of dhcp_wmi_targets
    Nameless,      \* those whose machine reports no name for itself
    DhcpScopes,    \* the scopes on the machines: [of : DhcpTargets, id, name]
    Syncs,         \* threads that run a sync
    LinkPrefixes   \* primary keys of ipam_prefixes (positive)

ASSUME DhcpAssumption ==
    /\ \A c \in DhcpScopes : DOMAIN c = {"of", "id", "name"} /\ c.of \in DhcpTargets
    /\ Nameless \subseteq DhcpTargets
    /\ LinkPrefixes \subseteq Nat \ {0}

VARIABLES
    dtarget,   \* the table dhcp_wmi_targets
    dservers,  \* rows of dhcp_servers
    dscopes,   \* rows of dhcp_scopes
    dleases,   \* rows of dhcp_leases
    dprefix,   \* keys in ipam_prefixes
    dsync      \* local state of every sync

dhcpVars == <<dtarget, dservers, dscopes, dleases, dprefix, dsync>>

-----------------------------------------------------------------------------
(* Rows.  by is the sync that inserted the row: it empties the tables      *)
(* before it inserts any, so by and the machine's data identify a row.     *)

ServerRow == [by : Syncs, of : DhcpTargets]
ScopeRow  == [by : Syncs, scope : DhcpScopes, prefix : LinkPrefixes \cup {0}]

(* exact is history: the lease came with the names its scope came with.    *)
LeaseRow  == [by : Syncs, lease : DhcpScopes, scope : DhcpScopes, exact : BOOLEAN]

(* What one target reported: its scopes, those of them with leases, and    *)
(* which of the two names of a scope its leases do not bring back.         *)
Report == [scopes : SUBSET DhcpScopes, leases : SUBSET DhcpScopes,
           lost : {"none", "server", "scope"}]
Nothing == [scopes |-> {}, leases |-> {}, lost |-> "none"]

(* batch is collected_batches, todo the targets not stored yet, cur the    *)
(* one being stored, ok those that count as targets_ok, keys the scopes in *)
(* scope_key_to_id, doomed the servers an open transaction has deleted.    *)
(* alone: no other sync has emptied or filled the tables since this one    *)
(* emptied them; a sync that was not keeps only what it has yet to store.  *)
SyncState == [pc : {"idle", "clear", "commit", "servers", "scopes", "leases", "name", "done"},
              batch : [DhcpTargets -> Report], todo : SUBSET DhcpTargets,
              cur : SUBSET DhcpTargets, ok : SUBSET DhcpTargets, keys : SUBSET DhcpScopes,
              doomed : SUBSET ServerRow, alone : BOOLEAN]

SyncIdle == [pc |-> "idle", batch |-> [t \in DhcpTargets |-> Nothing], todo |-> {},
             cur |-> {}, ok |-> {}, keys |-> {}, doomed |-> {}, alone |-> FALSE]

ToStore(d) ==
    IF d.alone THEN d
    ELSE [d EXCEPT !.ok = {}, !.batch = [t \in DhcpTargets |->
                                 IF t \in d.todo \cup d.cur THEN d.batch[t] ELSE Nothing]]

Finished(d) == IF d.alone THEN [d EXCEPT !.pc = "done", !.todo = {}, !.cur = {}, !.keys = {}]
               ELSE SyncIdle

Storing(s) == dsync[s].pc \in {"servers", "scopes", "leases", "name"}

DhcpInit ==
    /\ dtarget = [t \in DhcpTargets |-> "fresh"]
    /\ dservers = {} /\ dscopes = {} /\ dleases = {} /\ dprefix = {}
    /\ dsync = [s \in Syncs |-> SyncIdle]

-----------------------------------------------------------------------------
(* Collecting.                                                             *)

ScopesOf(t) == {c \in DhcpScopes : c.of = t}

(* Over WMI no scope is a failure, and leases that cannot be read are none.*)
WmiReports(t) ==
    {r \in [scopes : (SUBSET ScopesOf(t)) \ {{}}, leases : SUBSET ScopesOf(t), lost : {"none"}] :
        r.leases \subseteq r.scopes}

(* Over WinRM the leases of large scopes are not asked for; errors of some *)
(* scopes are accepted when another one has leases, so any scopes may be   *)
(* without.  The names go to the machine and come back with the leases:    *)
(* letters that the decoding replaced come back as others.                 *)
WinRmReports(t) ==
    {r \in [scopes : (SUBSET ScopesOf(t)) \ {{}}, leases : SUBSET ScopesOf(t),
            lost : {"none", "server", "scope"}] :
        r.leases \subseteq r.scopes /\ (r.leases = {} => r.lost = "none")}

(* Read the enabled targets and ask each, by WMI and then by WinRM.  When  *)
(* no target answers, the tables stay as they are.                         *)
Collect(s, T) ==
    /\ dsync[s].pc \in {"idle", "done"}
    /\ T # {} /\ \A t \in T : dtarget[t] = "on"
    /\ \E b \in [DhcpTargets -> (UNION {WmiReports(t) \cup WinRmReports(t) : t \in T}) \cup {Nothing}] :
         /\ \A t \in DhcpTargets : IF t \in T THEN b[t] \in WmiReports(t) \cup WinRmReports(t)
                                   ELSE b[t] = Nothing
         /\ dsync' = [dsync EXCEPT ![s] = [SyncIdle EXCEPT !.pc = "clear", !.batch = b, !.todo = T]]
    /\ UNCHANGED <<dtarget, dservers, dscopes, dleases, dprefix>>

-----------------------------------------------------------------------------
(* Storing.  A commit ends each of the steps below.                        *)

(* Mutant: rows of the targets that answered are the only ones removed.    *)
KeepOthers(s) == {x \in dservers : x.of \notin dsync[s].todo}

(* The servers the three DELETE statements leave; scopes and leases go     *)
(* with their server.                                                      *)
Kept(s) == {}

(* Rows that an open transaction has deleted: who needs them waits.        *)
Locked(x) == \E v \in Syncs : x \in dsync[v].doomed

(* The last DELETE.                                                        *)
Clear(s) ==
    /\ dsync[s].pc = "clear"
    /\ ~\E x \in dservers : Locked(x)
    /\ dsync' = [dsync EXCEPT ![s].pc = "commit", ![s].doomed = dservers \ Kept(s),
                              ![s].alone = \A w \in Syncs \ {s} : ~Storing(w)]
    /\ UNCHANGED <<dtarget, dservers, dscopes, dleases, dprefix>>

(* Rows that were committed after the DELETE stay.                         *)
CommitClear(s) ==
    LET stays(by, t) == [by |-> by, of |-> t] \notin dsync[s].doomed IN
    /\ dsync[s].pc = "commit"
    /\ dservers' = dservers \ dsync[s].doomed
    /\ dscopes' = {c \in dscopes : stays(c.by, c.scope.of)}
    /\ dleases' = {l \in dleases : stays(l.by, l.scope.of)}
    /\ dsync' = [v \in Syncs |->
                    IF v = s THEN [dsync[s] EXCEPT !.pc = "servers", !.doomed = {}]
                    ELSE IF dsync[v].pc = "done" THEN SyncIdle
                    ELSE ToStore([dsync[v] EXCEPT !.alone = FALSE])]
    /\ UNCHANGED <<dtarget, dprefix>>

(* The transaction that empties the tables is rolled back (a deadlock with *)
(* a sync that inserts, an error of the database).                         *)
ClearFails(s) ==
    /\ dsync[s].pc \in {"clear", "commit"}
    /\ dsync' = [dsync EXCEPT ![s] = SyncIdle]
    /\ UNCHANGED <<dtarget, dservers, dscopes, dleases, dprefix>>

(* The next target; the loop ends when there is none.                      *)
After(d, t) == IF d.todo \subseteq {t} THEN Finished(d)
               ELSE ToStore([d EXCEPT !.pc = "servers", !.todo = @ \ {t}, !.cur = {}])

StoreServers(s, t) ==
    /\ dsync[s].pc = "servers" /\ t \in dsync[s].todo
    /\ dservers' = dservers \cup {[by |-> s, of |-> t]}
    /\ dsync' = [dsync EXCEPT ![s].pc = "scopes", ![s].cur = {t}]
    /\ UNCHANGED <<dtarget, dscopes, dleases, dprefix>>

(* The scopes of a target that server_name_to_id has a row for, the one    *)
(* this sync has just inserted; the others are skipped.                    *)
Placed(s, t) == IF t \in Nameless THEN {} ELSE dsync[s].batch[t].scopes

StoreScopes(s, t) ==
    /\ dsync[s].pc = "scopes" /\ t \in dsync[s].cur
    /\ Placed(s, t) # {} => [by |-> s, of |-> t] \in dservers /\ ~Locked([by |-> s, of |-> t])
    /\ dscopes' = dscopes \cup {[by |-> s, scope |-> c, prefix |-> 0] : c \in Placed(s, t)}
    /\ dsync' = [dsync EXCEPT ![s].pc = "leases", ![s].keys = @ \cup Placed(s, t)]
    /\ UNCHANGED <<dtarget, dservers, dleases, dprefix>>

Named(s, c) == {x \in dsync[s].keys : x.name = c.name}
Keyed(s, c) == {x \in Named(s, c) : x.of = c.of}

(* Mutant: any scope of that name, whatever its server.                    *)
HomesByName(s, c) == IF dsync[s].batch[c.of].lost = "scope" THEN {} ELSE Named(s, c)

(* Where a lease can go: to the scope of its server with its name (of two  *)
(* with one name the last), else to the first of that name on any server.  *)
Homes(s, c) ==
    CASE dsync[s].batch[c.of].lost = "scope" -> {}
      [] dsync[s].batch[c.of].lost = "none" /\ c.of \notin Nameless /\ Keyed(s, c) # {} -> Keyed(s, c)
      [] OTHER -> Named(s, c)

FoundLeases(s, t) == {c \in dsync[s].batch[t].leases : Homes(s, c) # {}}
Exact(s, t) == dsync[s].batch[t].lost = "none" /\ t \notin Nameless

(* A lease without a scope is left out, and the target counts as stored.   *)
StoreLeases(s, t) ==
    /\ dsync[s].pc = "leases" /\ t \in dsync[s].cur
    /\ \E home \in [FoundLeases(s, t) -> dsync[s].keys] :
         /\ \A c \in FoundLeases(s, t) :
              /\ home[c] \in Homes(s, c)
              /\ \E x \in dscopes : x.by = s /\ x.scope = home[c]
              /\ ~Locked([by |-> s, of |-> home[c].of])
              /\ \A e \in FoundLeases(s, t) : e.name = c.name => home[e] = home[c]
         /\ dleases' = dleases \cup {[by |-> s, lease |-> c, scope |-> home[c], exact |-> Exact(s, t)] :
                                       c \in FoundLeases(s, t)}
    /\ dsync' = [dsync EXCEPT ![s].pc = "name"]
    /\ UNCHANGED <<dtarget, dservers, dscopes, dprefix>>

(* The target takes the server's name, if it has one.                      *)
StoreName(s, t) ==
    /\ dsync[s].pc = "name" /\ t \in dsync[s].cur
    /\ t \notin Nameless => dtarget[t] # "gone"
    /\ dsync' = [dsync EXCEPT ![s] = After([dsync[s] EXCEPT !.ok = @ \cup {t}], t)]
    /\ UNCHANGED <<dtarget, dservers, dscopes, dleases, dprefix>>

(* Mutant: a target counts as stored when its transaction failed.          *)
CountedOk(d, t) == After([d EXCEPT !.ok = @ \cup {t}], t)

NotStored(d, t) == After(d, t)

(* An INSERT or UPDATE is refused: its foreign key or its row is gone, or  *)
(* a value does not fit.  The transaction is rolled back and the target    *)
(* has failed, though scopes it had flushed keep their keys; but if its    *)
(* own row is gone, naming it in the error raises again and the remaining  *)
(* targets are not stored.                                                 *)
StoreFails(s, t) ==
    /\ \/ dsync[s].pc = "servers" /\ t \in dsync[s].todo
       \/ dsync[s].pc \in {"scopes", "leases", "name"} /\ t \in dsync[s].cur
    /\ \E K \in SUBSET (IF dsync[s].pc = "scopes" THEN Placed(s, t) ELSE {}) :
         LET d == [dsync[s] EXCEPT !.keys = @ \cup K] IN
         dsync' = [dsync EXCEPT ![s] = IF dtarget[t] = "gone" THEN Finished(d) ELSE NotStored(d, t)]
    /\ UNCHANGED <<dtarget, dservers, dscopes, dleases, dprefix>>

(* The process ends; rows that were committed stay.                        *)
DhcpRestart ==
    /\ \E s \in Syncs : dsync[s].pc # "idle"
    /\ dsync' = [s \in Syncs |-> SyncIdle]
    /\ UNCHANGED <<dtarget, dservers, dscopes, dleases, dprefix>>

-----------------------------------------------------------------------------
(* Targets, prefixes and links.                                            *)

SetTarget(t, from, to) ==
    /\ dtarget[t] \in from
    /\ dtarget' = [dtarget EXCEPT ![t] = to]
    /\ UNCHANGED <<dservers, dscopes, dleases, dprefix, dsync>>

CreateTarget(t, to) == to \in {"on", "off"} /\ SetTarget(t, {"fresh"}, to)
UpdateTarget(t, to) == to \in {"on", "off"} /\ SetTarget(t, {"on", "off"}, to)
DeleteTarget(t)     == SetTarget(t, {"on", "off"}, "gone")

(* link_scope_prefix; 0 is NULL.                                           *)
LinkScope(c, p) ==
    /\ c \in dscopes /\ p \in dprefix \cup {0}
    /\ ~Locked([by |-> c.by, of |-> c.scope.of])
    /\ dscopes' = (dscopes \ {c}) \cup {[c EXCEPT !.prefix = p]}
    /\ UNCHANGED <<dtarget, dservers, dleases, dprefix, dsync>>

AddPrefix(p) ==
    /\ p \in LinkPrefixes \ dprefix
    /\ dprefix' = dprefix \cup {p}
    /\ UNCHANGED <<dtarget, dservers, dscopes, dleases, dsync>>

(* Mutant: the key of a prefix that is gone stays.                         *)
StillLinked(p) == dscopes

(* prefix_id is ON DELETE SET NULL.                                        *)
Unlinked(p) == {[c EXCEPT !.prefix = IF @ = p THEN 0 ELSE @] : c \in dscopes}

RemovePrefix(p) ==
    /\ p \in dprefix
    /\ \A c \in dscopes : c.prefix = p => ~Locked([by |-> c.by, of |-> c.scope.of])
    /\ dprefix' = dprefix \ {p}
    /\ dscopes' = Unlinked(p)
    /\ UNCHANGED <<dtarget, dservers, dleases, dsync>>

-----------------------------------------------------------------------------
SyncStep(s) ==
    \/ \E T \in SUBSET DhcpTargets : Collect(s, T)
    \/ Clear(s)
    \/ CommitClear(s)
    \/ ClearFails(s)
    \/ \E t \in DhcpTargets : \/ StoreServers(s, t) \/ StoreScopes(s, t)
                              \/ StoreLeases(s, t)  \/ StoreName(s, t)
                              \/ StoreFails(s, t)

DhcpNext ==
    \/ \E s \in Syncs : SyncStep(s)
    \/ DhcpRestart
    \/ \E t \in DhcpTargets, to \in {"on", "off"} : CreateTarget(t, to) \/ UpdateTarget(t, to)
    \/ \E t \in DhcpTargets : DeleteTarget(t)
    \/ \E c \in dscopes, p \in LinkPrefixes \cup {0} : LinkScope(c, p)
    \/ \E p \in LinkPrefixes : AddPrefix(p) \/ RemovePrefix(p)

DhcpSpec == DhcpInit /\ [][DhcpNext]_dhcpVars

-----------------------------------------------------------------------------
(* Types, and the foreign keys of the three tables.                        *)
DhcpTypeOK ==
    /\ dtarget \in [DhcpTargets -> {"fresh", "on", "off", "gone"}]
    /\ dservers \subseteq ServerRow
    /\ dscopes \subseteq ScopeRow
    /\ dleases \subseteq LeaseRow
    /\ dprefix \subseteq LinkPrefixes
    /\ dsync \in [Syncs -> SyncState]
    /\ \A c \in dscopes : /\ [by |-> c.by, of |-> c.scope.of] \in dservers
                          /\ c.prefix # 0 => c.prefix \in dprefix
    /\ \A l \in dleases : \E c \in dscopes : c.by = l.by /\ c.scope = l.scope

(* What is stored of target t by sync s is all that it reported, except    *)
(* leases that name no scope.                                              *)
Complete(s, t) ==
    LET b == dsync[s].batch[t] IN
    /\ [by |-> s, of |-> t] \in dservers
    /\ {c.scope : c \in {x \in dscopes : x.by = s /\ x.scope.of = t}} = b.scopes
    /\ {l.lease : l \in {x \in dleases : x.by = s /\ x.lease.of = t}}
          = IF b.lost = "scope" THEN {} ELSE b.leases

(* A target that a sync counts as stored, and that has a name, is there    *)
(* with all its scopes and with all its leases but those whose scope's     *)
(* name has not come back, whichever other targets failed, were deleted or *)
(* came after it, until another sync empties the tables.                   *)
OkIsStored ==
    \A s \in Syncs : dsync[s].alone => \A t \in dsync[s].ok \ Nameless : Complete(s, t)

(* While a sync fills the tables alone, and after it, they hold nothing    *)
(* that another sync, one cut off by a restart included, has left.         *)
NoLeftovers ==
    \A s \in Syncs : dsync[s].alone /\ dsync[s].pc # "commit" =>
        /\ \A x \in dservers : x.by = s
        /\ \A c \in dscopes : c.by = s
        /\ \A l \in dleases : l.by = s

(* A lease that came with the names of its scope is stored in a scope of   *)
(* the machine that reported it, and in its own scope unless that machine  *)
(* has another scope of the same name: the fallback to the name alone is   *)
(* never taken for it, whatever scopes other machines have.                *)
LeaseAtHome ==
    \A l \in dleases : l.exact =>
        /\ l.scope.of = l.lease.of
        /\ (\A c \in ScopesOf(l.lease.of) : c.name = l.lease.name => c = l.lease)
              => l.scope = l.lease
=============================================================================
