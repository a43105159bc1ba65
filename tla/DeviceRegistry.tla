--------------------------- MODULE DeviceRegistry ---------------------------
(***************************************************************************)
(* What the pushsubscriptions collection promises the rest of the server:  *)
(* a device has at most one subscription and that one account, each step   *)
(* concerns one device, and a subscription that was dropped never comes    *)
(* back: who wants the device again gets a new one.                        *)
(***************************************************************************)
CONSTANTS Users, Devices, Subscriptions, None

VARIABLES
  sub,      \* the subscription of each device, or None
  account,  \* whom the device belongs to, or None
  retired   \* the subscriptions that were dropped

vars == <<sub, account, retired>>

\* A device nobody holds, under a subscription nobody has had.
Subscribe(e, u, s) ==
  /\ sub[e] = None
  /\ s \notin retired
  /\ \A f \in Devices : sub[f] # s
  /\ sub' = [sub EXCEPT ![e] = s]
  /\ account' = [account EXCEPT ![e] = u]
  /\ UNCHANGED retired

\* The browser is now somebody else's; the subscription stays.
Transfer(e, u) ==
  /\ sub[e] # None
  /\ account' = [account EXCEPT ![e] = u]
  /\ UNCHANGED <<sub, retired>>

Drop(e) ==
  /\ sub[e] # None
  /\ sub' = [sub EXCEPT ![e] = None]
  /\ account' = [account EXCEPT ![e] = None]
  /\ retired' = retired \cup {sub[e]}

Init ==
  /\ sub = [e \in Devices |-> None]
  /\ account = [e \in Devices |-> None]
  /\ retired = {}

Next ==
  \E e \in Devices :
    \/ Drop(e)
    \/ \E u \in Users : Transfer(e, u) \/ \E s \in Subscriptions : Subscribe(e, u, s)

Spec == Init /\ [][Next]_vars

=============================================================================
