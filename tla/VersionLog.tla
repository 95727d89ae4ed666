----------------------------- MODULE VersionLog -----------------------------
(***************************************************************************)
(* What the history of process definitions promises, without servers,      *)
(* requests and tables: a log of everything each definition has been, and  *)
(* the entry it is now.  An update appends an entry with the next number.  *)
(* Only a rollback, or an update that others have overtaken, may drop an   *)
(* entry, and then no other one than the entry it replaces.                *)
(***************************************************************************)
EXTENDS Naturals

CONSTANTS
    Definitions, \* what has a history
    Contents     \* what a definition can be

VARIABLES
    log,        \* the entries that can still be found: [of, version, content]
    heads,      \* of these, what each definition is now
    overtaken,  \* definitions that were updated twice at the same time
    reverted    \* definitions that were rolled back

vars == <<log, heads, overtaken, reverted>>

After(h, c) == [of |-> h.of, version |-> h.version + 1, content |-> c]

(* Numbers grow until a rollback.                                          *)
Newest(h) == h.of \notin reverted => \A e \in log : e.of = h.of => e.version <= h.version

Moves(h, e) == heads' = (heads \ {h}) \cup {e}

Init == log = {} /\ heads = {} /\ overtaken = {} /\ reverted = {}

First(d, c) ==
    LET e == [of |-> d, version |-> 1, content |-> c] IN
    /\ \A x \in log : x.of # d
    /\ log' = log \cup {e} /\ heads' = heads \cup {e}
    /\ UNCHANGED <<overtaken, reverted>>

Append(h, c) ==
    /\ Newest(h)
    /\ Moves(h, After(h, c)) /\ log' = log \cup {After(h, c)}
    /\ UNCHANGED <<overtaken, reverted>>

(* It may bring back one entry: what the update had read.                  *)
AppendOvertaken(h, c) ==
    /\ Newest(h)
    /\ Moves(h, After(h, c)) /\ After(h, c) \in log'
    /\ log \ {h} \subseteq log'
    /\ \A x, y \in log' \ (log \cup {After(h, c)}) :
          x = y /\ x.of = h.of /\ (h.of \notin reverted => x.version <= h.version)
    /\ overtaken' = overtaken \cup {h.of} /\ UNCHANGED reverted

Revert(h, e) ==
    /\ e.of = h.of
    /\ Moves(h, e) /\ e \in log'
    /\ log \ {h} \subseteq log' /\ log' \subseteq log
    /\ reverted' = reverted \cup {h.of} /\ UNCHANGED overtaken

Next ==
    \/ \E d \in Definitions, c \in Contents : First(d, c)
    \/ \E h \in heads :
          \/ \E c \in Contents : Append(h, c) \/ AppendOvertaken(h, c)
          \/ \E e \in log : Revert(h, e)

Spec == Init /\ [][Next]_vars
=============================================================================
