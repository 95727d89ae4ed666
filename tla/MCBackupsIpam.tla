--------------------------- MODULE MCBackupsIpam ---------------------------
(***************************************************************************)
(* Instances of ConfigModule, Ipam and IpamRanges for TLC.  They share no  *)
(* state: a behaviour starts in one part and stays in it, with the         *)
(* variables of the others at their initial values.  ConfigModule and Ipam *)
(* are instantiated several times, each time with another bound, so that   *)
(* what is large in one instance is small in the next.                     *)
(***************************************************************************)
EXTENDS ConfigModule, Ipam, IpamRanges, TLC

CONSTANTS a1, a2   \* two requests

VARIABLE part   \* the part that moves

vars == <<cfgVars, ipamVars, rangesVars, part>>

Actors   == {a1, a2}
Symmetry == Permutations(Actors)

-----------------------------------------------------------------------------
(* Values of the constants of ConfigModule.                                *)

(* One host under two device ids, one of which is also sent without a host.*)
ByHost   == [id |-> "d1", host |-> "h1", padded |-> FALSE]
ByPadded == [id |-> "d2", host |-> "h1", padded |-> TRUE]
ById     == [id |-> "d1", host |-> "none", padded |-> FALSE]
MCBodies == {ByHost, ByPadded, ById}
HostOnly == {ByHost}

(* A report on a list of devices, and a run without a report on one        *)
(* backup.  The plans take byType and ids from either, so a plan of the    *)
(* report runs by type or on the list.                                     *)
ReportOnIds == [report |-> 1, byType |-> FALSE, ids |-> {"d1"}, one |-> FALSE, asked |-> {}]
PlainOnOne  == [report |-> 0, byType |-> TRUE, ids |-> {}, one |-> TRUE, asked |-> {}]
MCRuns      == {ReportOnIds, PlainOnOne}

(* A network and its halves.                                               *)
MCNets == {[lo |-> 0, size |-> 4], [lo |-> 0, size |-> 2], [lo |-> 2, size |-> 2]}

-----------------------------------------------------------------------------
ConfigParts == {"backups", "compliance"}
IpamParts   == {"aggregates", "prefixes", "singly"}

(* The aggregate of the other parts.                                       *)
OneAddress == [lo |-> 0, size |-> 1]

Init ==
    /\ CfgInit /\ IpamInit /\ RangesInit
    /\ \/ part \in ConfigParts /\ net = OneAddress
       \/ /\ \A p \in Policies : policy[p].state = "fresh"
          /\ \/ part \in IpamParts /\ net = OneAddress
             \/ part = "ranges"

(* Many stamps without reports, or one stamp less with them.               *)
ConfigBound ==
    \/ part = "backups" /\ report' = report
    \/ part = "compliance" /\ stamp' < MaxStamp

(* No prefixes; one aggregate and its prefixes; or one request at a time.  *)
IpamBound ==
    \/ part = "aggregates" /\ pref' = pref /\ \A u \in IpamUsers : ireq'[u].pc # "pref"
    \/ part = "prefixes" /\ \E a \in Aggregates : \A b \in Aggregates \ {a} : agg'[b].state = "fresh"
    \/ part = "singly" /\ Cardinality({u \in IpamUsers : ireq'[u].pc # "idle"}) <= 1

Next ==
    \/ part \in ConfigParts /\ CfgNext /\ ConfigBound /\ UNCHANGED <<part, ipamVars, rangesVars>>
    \/ part \in IpamParts /\ IpamNext /\ IpamBound /\ UNCHANGED <<part, cfgVars, rangesVars>>
    \/ part = "ranges" /\ RangesNext /\ UNCHANGED <<part, cfgVars, ipamVars>>

Spec == Init /\ [][Next]_vars
=============================================================================
