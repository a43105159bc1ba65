-------------------------- MODULE SessionRegistry --------------------------
(***************************************************************************)
(* What the refresh-token keys in Redis promise the rest of the server:    *)
(* a user has at most one session, a session belongs to one user, and a    *)
(* session that was replaced or closed never comes back.                   *)
(***************************************************************************)
CONSTANTS Users, Sessions, None

VARIABLES
  live,    \* the session of each user, or None
  retired  \* the sessions that are over

vars == <<live, retired>>

\* A session nobody has had, in place of the one the user has.
Open(u, s) ==
  /\ s \notin retired
  /\ \A v \in Users : live[v] # s
  /\ live' = [live EXCEPT ![u] = s]
  /\ retired' = retired \cup ({live[u]} \ {None})

Close(u) ==
  /\ live[u] # None
  /\ live' = [live EXCEPT ![u] = None]
  /\ retired' = retired \cup {live[u]}

\* Any sessions may be open to start with, one user each.
Init ==
  /\ live \in [Users -> Sessions \cup {None}]
  /\ \A u, v \in Users : live[u] = live[v] => u = v \/ live[u] = None
  /\ retired = {}

Next == \E u \in Users : Close(u) \/ \E s \in Sessions : Open(u, s)

Spec == Init /\ [][Next]_vars

=============================================================================
