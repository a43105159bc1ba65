-------------------------- MODULE MCNotifications --------------------------
(* Instances of Notifications for TLC: a tab and two callers of read-all, all  *)
(* of alice; bob only receives.                                                *)
EXTENDS Notifications, TLC

CONSTANTS alice, bob

MCUserOf == [x \in Clients \cup Markers |-> alice]

Symmetry == Permutations(Markers)

\* The tab and the calls of read-all share nothing but the read marks, which
\* MarkAsRead sets as well: each is explored while the other has not begun.
Apart == \/ \A c \in Clients : c \notin room /\ page[c] = 0
         \/ \A k \in Markers : marking[k] = "none"

=============================================================================
