------------------------- MODULE MCDefinitionsDhcp -------------------------
(***************************************************************************)
(* Instances of ProcessDefinitions, DhcpSync and Cmdb for TLC.  They share *)
(* no state: a behaviour starts in one part and stays in it, with the      *)
(* variables of the others at their initial values.  The first two are     *)
(* instantiated twice each, with other bounds.                             *)
(***************************************************************************)
EXTENDS ProcessDefinitions, DhcpSync, Cmdb, TLC

CONSTANTS
    a1, a2,   \* two servers, or two syncs
    c1, c2,   \* two contents
    t1, t2    \* two DHCP targets

VARIABLE part   \* the part that moves

vars == <<pdVars, dhcpVars, cmVars, part>>

Actors   == {a1, a2}
Texts    == {c1, c2}
Machines == {t1, t2}
Symmetry == Permutations(Actors) \cup Permutations(Texts) \cup Permutations(Machines)

(* A scope on each of two machines; both have the same name.               *)
MCScopes == {[of |-> t, id |-> 1, name |-> "lan"] : t \in Machines}

(* Three files: two new assets; a line that lacks a field; and a value     *)
(* that does not fit.                                                      *)
L(g, n) == [tag |-> g, ip |-> "i", type |-> n, bad |-> "nothing"]
MCFiles == {<<L("g1", "new"), L("g2", "new")>>,
            <<[L("g1", "old") EXCEPT !.bad = "field"], L("g1", "old")>>,
            <<[L("g1", "old") EXCEPT !.bad = "value"], L("g2", "old")>>}
MCDevices == {[ip |-> "i", tag |-> "g1", type |-> "new"], [ip |-> "none", tag |-> "g2", type |-> "old"]}

PdParts   == {"history", "publishing"}
DhcpParts == {"tables", "links"}

Init ==
    /\ PdInit /\ DhcpInit /\ CmInit
    /\ part \in PdParts \cup DhcpParts \cup {"cmdb"}
    /\ part # "cmdb" => lookups = {[id |-> 1, name |-> "old"]}

(* No jobs; or with jobs, one version row beside the definition and no     *)
(* rollbacks.                                                              *)
PdBound ==
    \/ part = "history" /\ pjobs' = pjobs /\ \A s \in PdServers : preq'[s].pc # "publish"
    \/ /\ part = "publishing" /\ \A s \in PdServers : preq'[s].pc # "rollback"
       /\ \A d \in Definitions : pdef'[d].version <= 2

(* Each scope with leases and all names, no target disabled, no prefixes;  *)
(* or one sync at a time.                                                  *)
DhcpBound ==
    \/ /\ part = "tables" /\ dprefix' = dprefix
       /\ \A s \in Syncs, t \in DhcpTargets : LET r == dsync'[s].batch[t] IN
             r.lost = "none" /\ r.leases = r.scopes
       /\ \A t \in DhcpTargets : dtarget'[t] # "off"
    \/ part = "links" /\ Cardinality({s \in Syncs : dsync'[s].pc # "idle"}) <= 1

Next ==
    \/ part \in PdParts /\ PdNext /\ PdBound /\ UNCHANGED <<part, dhcpVars, cmVars>>
    \/ part \in DhcpParts /\ DhcpNext /\ DhcpBound /\ UNCHANGED <<part, pdVars, cmVars>>
    \/ part = "cmdb" /\ CmNext /\ UNCHANGED <<part, pdVars, dhcpVars>>

Spec == Init /\ [][Next]_vars
=============================================================================
