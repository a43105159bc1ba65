------------------------------ MODULE MCClocks ------------------------------
(***************************************************************************)
(* An instance for TLC of the two components that have a clock.  They      *)
(* share no state, so nothing is lost by exploring each while the other    *)
(* has not begun.                                                          *)
(***************************************************************************)
EXTENDS TokenLifetimes, RateLimiter, TLC

\* Browsers differ only by name.
Symmetry == Permutations(Browsers)

F(n, u) == [n |-> n, unit |-> u]

\* The defaults, hours, a unit only one of the readers knows, none at all, text.
ManyFormats == {F(15, "m"), F(7, "d"), F(1, "h"), F(2, "w"), F(0, "d"), F(1, "?")}

\* The sensitive window outlasts one of the other's and begins in any of them.
Maxima  == [all |-> 3, sensitive |-> 2]
Lengths == [all |-> 2, sensitive |-> 3]

\* One setting differs from its default: the life of the session, or that of the
\* access token, which may then outlast it, or the prefix.
Default == [access |-> F(15, "m"), refresh |-> F(7, "d"), prefix |-> CookiePrefix]
OneChanged ==
  \/ \E f \in Formats : conf = [Default EXCEPT !.refresh = f]
  \/ conf = [Default EXCEPT !.access = F(2, "w")]
  \/ \E p \in Prefixes : conf = [Default EXCEPT !.prefix = p]

\* What the limiters do does not depend on how a sign-in begins: one will do.
Defaults == conf = Default /\ role = "user"

ClocksInit == Init /\ OneChanged /\ LInit

ClocksNext ==
  \/ LInit /\ Next /\ UNCHANGED lvars
  \/ Init /\ Defaults /\ LNext /\ UNCHANGED vars

ClocksSpec == ClocksInit /\ [][ClocksNext]_<<vars, lvars>>

=============================================================================
