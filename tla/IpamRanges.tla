----------------------------- MODULE IpamRanges -----------------------------
(***************************************************************************)
(* The two computations of ipam_router.py on one aggregate: the addresses  *)
(* its prefixes use (_aggregate_utilization) and the ranges that are       *)
(* available (_aggregate_available_ranges).  They read the prefixes once   *)
(* and then work on their own; here the second follows the first and reads *)
(* the same prefixes.  A step is one turn of a loop.                       *)
(***************************************************************************)
EXTENDS IpamNetworks, FiniteSets

CONSTANT MaxMembers   \* bound on the rows of prefixes of the aggregate

VARIABLES
    net,      \* the aggregate
    rows,     \* for a network, the rows of its prefixes that have it
    rpc,      \* which loop is running
    todo,     \* the networks that loop has not come to
    used,     \* addresses counted
    low,      \* where the next gap begins
    gaps,     \* the gaps found, from address lo to address hi
    ranges    \* the networks reported as available

rangesVars == <<net, rows, rpc, todo, used, low, gaps, ranges>>

(* The networks of the prefixes.  A turn of a loop comes to all the rows   *)
(* of a network, which sorting leaves next to each other.                  *)
members == {b \in Blocks : rows[b] > 0}

RangesInit ==
    /\ net \in Blocks /\ rows = [b \in Blocks |-> 0]
    /\ rpc = "idle" /\ todo = {} /\ used = 0 /\ low = 0 /\ gaps = {} /\ ranges = {}

(* A prefix stays in an aggregate that changes, so it may be any network,  *)
(* and several prefixes may have the same one.                             *)
AddMember(b) ==
    /\ rpc = "idle"
    /\ Cardinality({c \in Blocks \X (1 .. MaxMembers) : c[2] <= rows[c[1]]}) < MaxMembers
    /\ rows' = [rows EXCEPT ![b] = @ + 1]
    /\ UNCHANGED <<net, rpc, todo, used, low, gaps, ranges>>

-----------------------------------------------------------------------------
(* _aggregate_utilization counts the addresses of every row, those outside *)
(* the aggregate and those of another row with the same network too.       *)

StartCount ==
    /\ rpc = "idle"
    /\ rpc' = "count" /\ todo' = members
    /\ UNCHANGED <<net, rows, used, low, gaps, ranges>>

CountMember(b) ==
    /\ rpc = "count"
    /\ used' = used + rows[b] * b.size /\ todo' = todo \ {b}
    /\ UNCHANGED <<net, rows, rpc, low, gaps, ranges>>

-----------------------------------------------------------------------------
(* _aggregate_available_ranges.                                            *)

(* Mutant: members outside the aggregate are not dropped.                  *)
AllMembers(n, S) == S

Subnets(n, S) == {b \in S : SubnetOf(b, n)}

StartGaps ==
    /\ rpc = "count" /\ todo = {}
    /\ rpc' = "gaps" /\ todo' = Subnets(net, members) /\ low' = net.lo
    /\ UNCHANGED <<net, rows, used, gaps, ranges>>

(* The order of the loop: by address, then by size.                        *)
IsFirst(b, S) == \A c \in S : b.lo < c.lo \/ (b.lo = c.lo /\ b.size <= c.size)

(* Mutant: the gap before a subnet is left out when it is one address.     *)
GapSkipsOne(a, b) == IF a + 1 < b.lo THEN {[lo |-> a, hi |-> b.lo - 1]} ELSE {}

Gap(a, b) == IF a < b.lo THEN {[lo |-> a, hi |-> b.lo - 1]} ELSE {}

(* Mutant: the last address of a subnet begins the next gap.               *)
LowAtEnd(b) == Hi(b)

(* Where the next gap begins, whatever came before b.                      *)
LowAfter(b) == Hi(b) + 1

(* IPv4Address refuses the address after the last one.                     *)
NextSubnet(b) ==
    /\ rpc = "gaps" /\ low <= Hi(net) /\ IsFirst(b, todo)
    /\ gaps' = gaps \cup Gap(low, b)
    /\ IF Hi(b) = Top THEN rpc' = "raised" /\ UNCHANGED <<todo, low>>
                      ELSE todo' = todo \ {b} /\ low' = LowAfter(b) /\ UNCHANGED rpc
    /\ UNCHANGED <<net, rows, used, ranges>>

LastGap ==
    /\ rpc = "gaps" /\ (todo = {} \/ low > Hi(net))
    /\ gaps' = gaps \cup IF low <= Hi(net) THEN {[lo |-> low, hi |-> Hi(net)]} ELSE {}
    /\ rpc' = "split"
    /\ UNCHANGED <<net, rows, todo, used, low, ranges>>

(* One turn of _address_range_to_cidrs: the largest network that starts at *)
(* the lowest address left and does not go beyond the gap.                 *)
IsLowest(g)   == \A h \in gaps : g.lo <= h.lo
Largest(b, S) == \A c \in S : c.size <= b.size

(* Mutant: the size is not doubled to all that is left.                    *)
FittingLess(g) == {b \in Blocks : b.lo = g.lo /\ Hi(b) <= g.hi /\ (b.size = 1 \/ Hi(b) < g.hi)}

Fitting(g) == {b \in Blocks : b.lo = g.lo /\ Hi(b) <= g.hi}

Rest(g, b) == IF Hi(b) < g.hi THEN {[lo |-> Hi(b) + 1, hi |-> g.hi]} ELSE {}

SplitGap(g) ==
    /\ rpc = "split" /\ IsLowest(g)
    /\ \E b \in Fitting(g) :
         /\ Largest(b, Fitting(g))
         /\ ranges' = ranges \cup {b}
         /\ gaps' = (gaps \ {g}) \cup Rest(g, b)
    /\ UNCHANGED <<net, rows, rpc, todo, used, low>>

-----------------------------------------------------------------------------
RangesNext ==
    \/ \E b \in Blocks : AddMember(b)
    \/ StartCount
    \/ \E b \in todo : CountMember(b)
    \/ StartGaps
    \/ \E b \in todo : NextSubnet(b)
    \/ LastGap
    \/ \E g \in gaps : SplitGap(g)

RangesSpec == RangesInit /\ [][RangesNext]_rangesVars

-----------------------------------------------------------------------------
AddressesIn(S) == UNION {Addresses(b) : b \in S}

Reported == AddressesIn(ranges)
Covered  == AddressesIn(members)
Finished == rpc = "split" /\ gaps = {}

(* Types; what is found lies in the aggregate.                             *)
RangesTypeOK ==
    /\ net \in Blocks /\ rows \in [Blocks -> Nat] /\ todo \subseteq members
    /\ rpc \in {"idle", "count", "gaps", "raised", "split"}
    /\ used \in Nat /\ low \in Nat
    /\ gaps \subseteq [lo : Nat, hi : Nat] /\ ranges \subseteq Blocks
    /\ \A g \in gaps : net.lo <= g.lo /\ g.lo <= g.hi /\ g.hi <= Hi(net)
    /\ \A b \in ranges : SubnetOf(b, net)
    /\ rpc = "gaps" => \A b \in todo : SubnetOf(b, net)

(* The ranges reported as available lie inside the aggregate, do not       *)
(* overlap and miss no address that no prefix covers, however the prefixes *)
(* nest or lie outside the aggregate.                                      *)
FreeIsReported ==
    Finished => /\ Addresses(net) \ Covered \subseteq Reported
                /\ Reported \subseteq Addresses(net)
                /\ \A b, c \in ranges : b = c \/ ~Overlaps(b, c)

(* What the docstring of _address_range_to_cidrs says: the list is the     *)
(* simplest one.  No network reported is part of a larger one that is      *)
(* available too, although each gap is split from its lowest address on,   *)
(* without a look at what follows.                                         *)
SimplestList ==
    Finished => \A b \in ranges, d \in Blocks :
                   SubnetOf(b, d) /\ Addresses(d) \subseteq Reported => d = b

(* When the prefixes lie inside the aggregate and apart from each other,   *)
(* the ranges are exactly the addresses left, and they and the used        *)
(* addresses of the utilisation make up the aggregate.                     *)
MembersInside == \A b \in members : SubnetOf(b, net)
MembersApart  == \A b, c \in members : IF b = c THEN rows[b] = 1 ELSE ~Overlaps(b, c)

RangesExact ==
    Finished /\ MembersInside /\ MembersApart =>
        /\ Reported = Addresses(net) \ Covered
        /\ used + Cardinality(Reported) = net.size

(* What the docstring of _aggregate_available_ranges says: the ranges that *)
(* no prefix covers (here of prefixes inside the aggregate).               *)
AvailableUncovered == Finished /\ MembersInside => Reported \cap Covered = {}
=============================================================================
