---------------------------- MODULE IpamNetworks ----------------------------
(***************************************************************************)
(* Networks as sets of addresses.  An address is a number of Width bits, a *)
(* network an aligned block of addresses (ip_network with strict=False     *)
(* drops the host bits).                                                   *)
(***************************************************************************)
EXTENDS Naturals

CONSTANT Width   \* 32 in the code

ASSUME WidthAssumption == Width \in Nat

Top == 2 ^ Width - 1

Hi(b) == b.lo + b.size - 1

Sizes  == {s \in 1 .. Top + 1 : \E k \in 0 .. Width : s = 2 ^ k}
Blocks == {b \in [lo : 0 .. Top, size : Sizes] : b.lo % b.size = 0 /\ Hi(b) <= Top}

Addresses(b) == b.lo .. Hi(b)
Overlaps(b, c) == b.lo <= Hi(c) /\ c.lo <= Hi(b)
SubnetOf(b, c) == c.lo <= b.lo /\ Hi(b) <= Hi(c)

NoNet == [lo |-> 0, size |-> 0]
=============================================================================
