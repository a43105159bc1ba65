---------------------------- MODULE RateLimiter -----------------------------
(***************************************************************************)
(* src/common/middlewares/rateLimiter.ts over time: one client, the two    *)
(* limiters its requests meet, and the fixed windows express-rate-limit's  *)
(* memory store keeps for it (external).  HttpServer has the limiters'     *)
(* place in the chain, and windows that end at any time; here is when.     *)
(*                                                                         *)
(* The counters live as long as the process, and so does this model.       *)
(***************************************************************************)
EXTENDS Integers, Sequences

Limiters == {"all", "sensitive"}  \* rateLimiter and sensitiveActionLimiter

CONSTANTS
  max,       \* of each limiter: requests per window
  windowMs,  \* of each limiter: how long a window is
  Horizon    \* bound: the last moment looked at

ASSUME LimiterAssumption ==
  /\ max \in [Limiters -> Nat] /\ windowMs \in [Limiters -> Nat]
  /\ Horizon \in Nat

VARIABLES
  clock,
  totalHits, resetTime,  \* the store's entry for the client, in each limiter
  passed                 \* history: when each limiter let a request through

lvars == <<clock, totalHits, resetTime, passed>>

Expired(l) == resetTime[l] <= clock

\* Mutant: the window is measured from the last hit.
OpenedByEveryHit(l) == clock + windowMs[l]

\* A window opens with its first hit, and later hits leave its end alone.
Opened(l) == IF Expired(l) THEN clock + windowMs[l] ELSE resetTime[l]

\* Mutant: the limiter is mounted twice, and a hit counts for two.
CountTwice(l) ==
  IF Expired(l) THEN 2
  ELSE IF totalHits[l] > max[l] THEN totalHits[l] ELSE totalHits[l] + 2

\* increment() counts the hit that opens a window, too.  A bound: the counts above
\* a limit are alike.
Count(l) ==
  IF Expired(l) THEN 1
  ELSE IF totalHits[l] > max[l] THEN totalHits[l] ELSE totalHits[l] + 1

\* Mutant: the hit is compared before it is counted.
PassesUncounted(l) == Expired(l) \/ totalHits[l] <= max[l]

Passes(l) == Count(l) <= max[l]

\* A request counts in each limiter it comes to, let through there or not.
Hit(ls) ==
  /\ totalHits' = [l \in Limiters |-> IF l \in ls THEN Count(l) ELSE totalHits[l]]
  /\ resetTime' = [l \in Limiters |-> IF l \in ls THEN Opened(l) ELSE resetTime[l]]
  /\ passed' = [l \in Limiters |->
                  IF l \in ls /\ Passes(l) THEN Append(passed[l], clock) ELSE passed[l]]
  /\ UNCHANGED clock

Request == Hit({"all"})

\* forgot-password or resend-verification: the limiter of its own comes second.
SensitiveRequest == Hit(IF Passes("all") THEN Limiters ELSE {"all"})

Tick ==
  /\ clock' \in (clock + 1)..Horizon
  /\ UNCHANGED <<totalHits, resetTime, passed>>

LInit ==
  /\ clock = 0
  /\ totalHits = [l \in Limiters |-> 0]
  /\ resetTime = [l \in Limiters |-> 0]
  /\ passed = [l \in Limiters |-> << >>]

LNext == Request \/ SensitiveRequest \/ Tick

LSpec == LInit /\ [][LNext]_lvars

-----------------------------------------------------------------------------
(* Properties *)

\* Every variable keeps its type, and counts stop above their limit.
LTypeOK ==
  /\ clock \in Nat
  /\ totalHits \in [Limiters -> Nat] /\ resetTime \in [Limiters -> Nat]
  /\ \A l \in Limiters : totalHits[l] <= max[l] + 1
  /\ passed \in [Limiters -> Seq(Nat)]

\* "limited to 5 / 15 min" (README.md:198): the windows are fixed, so a client gets
\* more than max in a span that lies across two; but as a window opens with a hit,
\* not on the clock, less than twice as many: of 2 * max requests let through, the
\* last comes at least the length of a window after the first.
SpanBudget ==
  \A l \in Limiters : \A i, j \in DOMAIN passed[l] :
    j - i >= 2 * max[l] - 1 => passed[l][j] - passed[l][i] >= windowMs[l]

\* Who would be refused has had max requests let through in the length of a window:
\* neither what was refused nor what was let through before is held against it.
NoneRefusedEarly ==
  \A l \in Limiters : ~Passes(l) =>
    /\ Len(passed[l]) >= max[l]
    /\ \A i \in DOMAIN passed[l] :
         i > Len(passed[l]) - max[l] => passed[l][i] > clock - windowMs[l]

=============================================================================
