------------------------- MODULE RateLimiterProofs --------------------------
(***************************************************************************)
(* Proofs about RateLimiter: for any limits, any lengths of the windows    *)
(* and any clock, what a client may get through in any span of time, and   *)
(* that no client is refused what its window owes it.                      *)
(***************************************************************************)
EXTENDS RateLimiter, TLAPS

\* The budget of SpanBudget, of one limiter.
Spans(s, m, w) ==
  \A i, j \in DOMAIN s : j - i >= 2 * m - 1 => s[j] - s[i] >= w

\* Moment t of one limiter, with m requests in w: it has let through s, the last
\* u of them in the window that opened at o.  The window before had at most m, and
\* its first one is what the last of this one is measured against.
Window(s, u, o, t, m, w) ==
  /\ u <= Len(s) /\ u <= m /\ o <= t
  /\ m = 0 => Len(s) = 0
  /\ \A i \in DOMAIN s :
       /\ s[i] <= t
       /\ i > Len(s) - u => s[i] >= o
       /\ i <= Len(s) - u + 1 => s[i] <= o
       /\ i <= Len(s) - u - m + 1 => s[i] <= o - w
  /\ Spans(s, m, w)

\* A request more in the history: the moments known so far stay what they were.
LEMMA Appended ==
  ASSUME NEW s \in Seq(Nat), NEW t \in Nat
  PROVE  /\ Append(s, t) \in Seq(Nat) /\ Len(s) \in Nat
         /\ DOMAIN s = 1..Len(s) /\ \A i \in 1..Len(s) : s[i] \in Nat
         /\ Len(Append(s, t)) = Len(s) + 1
         /\ DOMAIN Append(s, t) = 1..(Len(s) + 1)
         /\ Append(s, t)[Len(s) + 1] = t
         /\ \A i \in 1..Len(s) : Append(s, t)[i] = s[i]
  OBVIOUS

\* If all that was let through 2 * m - 1 or more before it is a window back, one
\* more may be.
LEMMA SpansGoOn ==
  ASSUME NEW s \in Seq(Nat), NEW t \in Nat, NEW m \in Nat, NEW w \in Nat,
         Spans(s, m, w), m > 0,
         \A i \in 1..Len(s) : i <= Len(s) - 2 * m + 2 => s[i] <= t - w
  PROVE  Spans(Append(s, t), m, w)
<1> DEFINE r == Append(s, t) n == Len(s)
<1>1. /\ n \in Nat /\ DOMAIN s = 1..n /\ \A i \in 1..n : s[i] \in Nat
      /\ DOMAIN r = 1..(n + 1) /\ r[n + 1] = t /\ \A i \in 1..n : r[i] = s[i]
  BY Appended
<1> SUFFICES ASSUME NEW i \in 1..(n + 1), NEW j \in 1..(n + 1), j - i >= 2 * m - 1
             PROVE  r[j] - r[i] >= w
  BY <1>1 DEF Spans
<1>2. i \in 1..n
  BY <1>1
<1>3. \A x, y \in 1..n : y - x >= 2 * m - 1 => s[y] - s[x] >= w
  BY <1>1 DEF Spans
<1>4. /\ r[n + 1] = t /\ r[i] = s[i] /\ s[i] \in Nat
      /\ j \in 1..n => r[j] = s[j]
  BY <1>1, <1>2
<1> HIDE DEF r, n
<1>5. CASE j \in 1..n
  BY <1>2, <1>3, <1>4, <1>5
<1>6. CASE j = n + 1
  <2>1. i <= n - 2 * m + 2
    BY <1>1, <1>2, <1>6
  <2>2. s[i] <= t - w
    BY <1>2, <2>1 DEF n
  <2> QED
    BY <1>4, <1>6, <2>2
<1> QED
  BY <1>1, <1>5, <1>6

\* Another request is let through in the window, which is not over.
LEMMA WindowGoesOn ==
  ASSUME NEW s \in Seq(Nat), NEW u \in Nat, NEW o \in Int, NEW t \in Nat,
         NEW m \in Nat, NEW w \in Nat,
         Window(s, u, o, t, m, w), 0 < u, u < m
  PROVE  Window(Append(s, t), u + 1, o, t, m, w)
<1> DEFINE r == Append(s, t) n == Len(s)
<1>1. /\ n \in Nat /\ DOMAIN s = 1..n /\ \A i \in 1..n : s[i] \in Nat
      /\ DOMAIN r = 1..(n + 1) /\ Len(r) = n + 1
      /\ r[n + 1] = t /\ \A i \in 1..n : r[i] = s[i]
  BY Appended
<1>2. /\ u <= n /\ o <= t
      /\ \A i \in 1..n : /\ s[i] <= t
                         /\ i > n - u => s[i] >= o
                         /\ i <= n - u + 1 => s[i] <= o
                         /\ i <= n - u - m + 1 => s[i] <= o - w
  BY <1>1 DEF Window
<1>3. Spans(r, m, w)
  <2>1. ASSUME NEW i \in 1..n, i <= n - 2 * m + 2 PROVE s[i] <= t - w
    <3>1. i <= n - u - m + 1 /\ s[i] \in Nat
      BY <1>1, <2>1
    <3> QED
      BY <1>2, <3>1
  <2> QED
    BY <2>1, SpansGoOn DEF Window
<1> HIDE DEF r, n
<1>4. ASSUME NEW i \in 1..(n + 1)
      PROVE  /\ r[i] <= t
             /\ i > (n + 1) - (u + 1) => r[i] >= o
             /\ i <= (n + 1) - (u + 1) + 1 => r[i] <= o
             /\ i <= (n + 1) - (u + 1) - m + 1 => r[i] <= o - w
  <2>1. CASE i \in 1..n
    BY <1>1, <1>2, <2>1
  <2>2. CASE i = n + 1
    BY <1>1, <1>2, <2>2
  <2> QED
    BY <1>1, <2>1, <2>2
<1>5. u + 1 <= n + 1 /\ u + 1 <= m /\ m # 0
  BY <1>1, <1>2
<1> QED
  BY <1>1, <1>2, <1>3, <1>4, <1>5 DEF Window, r

\* A request finds the window over, and is the first to be let through in the next.
LEMMA WindowOpens ==
  ASSUME NEW s \in Seq(Nat), NEW u \in Nat, NEW o \in Int, NEW t \in Nat,
         NEW m \in Nat, NEW w \in Nat,
         Window(s, u, o, t, m, w), o + w <= t, m > 0
  PROVE  Window(Append(s, t), 1, t, t, m, w)
<1> DEFINE r == Append(s, t) n == Len(s)
<1>1. /\ n \in Nat /\ DOMAIN s = 1..n /\ \A i \in 1..n : s[i] \in Nat
      /\ DOMAIN r = 1..(n + 1) /\ Len(r) = n + 1
      /\ r[n + 1] = t /\ \A i \in 1..n : r[i] = s[i]
  BY Appended
<1>2. /\ u <= m
      /\ \A i \in 1..n : s[i] <= t /\ (i <= n - u + 1 => s[i] <= o)
  BY <1>1 DEF Window
<1>3. ASSUME NEW i \in 1..n, i <= n - m + 1 PROVE s[i] <= t - w
  <2>1. i <= n - u + 1 /\ s[i] \in Nat
    BY <1>1, <1>2, <1>3
  <2> QED
    BY <1>2, <2>1
<1>4. Spans(r, m, w)
  <2>1. \A i \in 1..n : i <= n - 2 * m + 2 => i <= n - m + 1
    BY <1>1
  <2> QED
    BY <1>3, <2>1, SpansGoOn DEF Window
<1> HIDE DEF r, n
<1>5. ASSUME NEW i \in 1..(n + 1)
      PROVE  /\ r[i] <= t
             /\ i > (n + 1) - 1 => r[i] >= t
             /\ i <= (n + 1) - 1 - m + 1 => r[i] <= t - w
  <2>1. CASE i \in 1..n
    BY <1>1, <1>2, <1>3, <2>1
  <2>2. CASE i = n + 1
    BY <1>1, <2>2
  <2> QED
    BY <1>1, <2>1, <2>2
<1>6. 1 <= n + 1 /\ 1 <= m /\ t <= t /\ m # 0
  BY <1>1
<1> QED
  BY <1>1, <1>4, <1>5, <1>6 DEF Window, r

-----------------------------------------------------------------------------
(* The inductive invariant *)

Used(l) == IF totalHits[l] > max[l] THEN max[l] ELSE totalHits[l]

WindowInv ==
  \A l \in Limiters :
    /\ totalHits[l] = 0 => resetTime[l] = 0
    /\ Window(passed[l], Used(l), resetTime[l] - windowMs[l], clock, max[l], windowMs[l])

IInv == LTypeOK /\ WindowInv

\* What one limiter does with a request that comes to it, and with one that does not.
LEMMA HitKeepsWindow ==
  ASSUME IInv, NEW ls \in SUBSET Limiters, Hit(ls), NEW l \in Limiters
  PROVE  /\ totalHits'[l] \in Nat /\ totalHits'[l] <= max[l] + 1
         /\ resetTime'[l] \in Nat /\ passed'[l] \in Seq(Nat)
         /\ totalHits'[l] = 0 => resetTime'[l] = 0
         /\ Window(passed'[l], Used(l)', resetTime'[l] - windowMs[l], clock,
                   max[l], windowMs[l])
<1> DEFINE s == passed[l] m == max[l] w == windowMs[l] o == resetTime[l] - w
<1>0. /\ s \in Seq(Nat) /\ m \in Nat /\ w \in Nat /\ o \in Int /\ clock \in Nat
      /\ totalHits[l] \in Nat /\ resetTime[l] \in Nat /\ totalHits[l] <= m + 1
      /\ Window(s, Used(l), o, clock, m, w)
      /\ totalHits[l] = 0 => resetTime[l] = 0
  BY LimiterAssumption DEF IInv, LTypeOK, WindowInv
<1>1. CASE l \notin ls
  <2>1. UNCHANGED <<totalHits[l], resetTime[l], passed[l]>>
    BY <1>1 DEF Hit
  <2> QED
    BY <1>0, <2>1 DEF Used
<1>2. CASE l \in ls /\ Expired(l)
  <2>1. /\ totalHits'[l] = 1 /\ resetTime'[l] = clock + w
        /\ passed'[l] = IF 1 <= m THEN Append(s, clock) ELSE s
        /\ o + w <= clock
    BY <1>0, <1>2 DEF Hit, Count, Opened, Passes, Expired
  <2>2. CASE m > 0
    <3>1. Used(l)' = 1 /\ passed'[l] = Append(s, clock) /\ clock + w - w = clock
      BY <1>0, <2>1, <2>2 DEF Used
    <3>2. Window(Append(s, clock), 1, clock, clock, m, w)
      BY <1>0, <2>1, <2>2, WindowOpens DEF Used
    <3> QED
      BY <1>0, <2>1, <3>1, <3>2
  <2>3. CASE m = 0
    <3>1. Used(l)' = 0 /\ passed'[l] = s /\ clock + w - w = clock /\ Len(s) = 0
      BY <1>0, <2>1, <2>3 DEF Used, Window
    <3>2. Window(s, 0, clock, clock, m, w)
      BY <1>0, <2>3, <3>1 DEF Window, Spans
    <3> QED
      BY <1>0, <2>1, <2>3, <3>1, <3>2
  <2> QED
    BY <1>0, <2>2, <2>3
<1>3. CASE l \in ls /\ ~Expired(l)
  <2>1. /\ totalHits'[l] = IF totalHits[l] > m THEN totalHits[l] ELSE totalHits[l] + 1
        /\ resetTime'[l] = resetTime[l]
        /\ passed'[l] = IF totalHits'[l] <= m THEN Append(s, clock) ELSE s
        /\ totalHits[l] > 0
    BY <1>0, <1>3 DEF Hit, Count, Opened, Passes, Expired
  <2>2. CASE totalHits[l] < m
    <3>1. Used(l) = totalHits[l] /\ Used(l)' = totalHits[l] + 1
      BY <1>0, <2>1, <2>2 DEF Used
    <3>2. Window(Append(s, clock), totalHits[l] + 1, o, clock, m, w)
      BY <1>0, <2>1, <2>2, <3>1, WindowGoesOn
    <3> QED
      BY <1>0, <2>1, <2>2, <3>1, <3>2
  <2>3. CASE totalHits[l] >= m
    <3>1. Used(l)' = Used(l) /\ passed'[l] = s
      BY <1>0, <2>1, <2>3 DEF Used
    <3> QED
      BY <1>0, <2>1, <2>3, <3>1
  <2> QED
    BY <1>0, <2>2, <2>3
<1> QED
  BY <1>1, <1>2, <1>3

LEMMA IInvInit == LInit => IInv
<1> SUFFICES ASSUME LInit PROVE IInv
  OBVIOUS
<1>1. LTypeOK
  BY LimiterAssumption DEF LInit, LTypeOK
<1>2. ASSUME NEW l \in Limiters
      PROVE  Window(passed[l], Used(l), resetTime[l] - windowMs[l], clock, max[l],
                    windowMs[l])
  <2>1. max[l] \in Nat /\ windowMs[l] \in Nat
    BY LimiterAssumption
  <2>2. /\ passed[l] = << >> /\ Used(l) = 0 /\ clock = 0
        /\ resetTime[l] - windowMs[l] <= clock
    BY <2>1 DEF LInit, Used
  <2> QED
    BY <2>1, <2>2 DEF Window, Spans
<1> QED
  BY <1>1, <1>2 DEF IInv, WindowInv, LInit

LEMMA IInvStep == IInv /\ [LNext]_lvars => IInv'
<1> SUFFICES ASSUME IInv, [LNext]_lvars PROVE IInv'
  OBVIOUS
<1>1. ASSUME NEW ls \in SUBSET Limiters, Hit(ls) PROVE IInv'
  <2>1. clock' = clock /\ clock \in Nat
    BY <1>1 DEF Hit, IInv, LTypeOK
  <2>2. LTypeOK'
    BY <1>1, <2>1, HitKeepsWindow DEF LTypeOK, Hit
  <2>3. WindowInv'
    BY <1>1, <2>1, HitKeepsWindow DEF WindowInv
  <2> QED
    BY <2>2, <2>3 DEF IInv
<1>2. CASE Request
  BY <1>1, <1>2 DEF Request, Limiters
<1>3. CASE SensitiveRequest
  BY <1>1, <1>3 DEF SensitiveRequest, Limiters
<1>4. CASE Tick
  <2>1. clock' \in Nat /\ clock < clock' /\ UNCHANGED <<totalHits, resetTime, passed>>
    BY <1>4, LimiterAssumption DEF Tick, IInv, LTypeOK
  <2>2. ASSUME NEW l \in Limiters
        PROVE  Window(passed[l], Used(l), resetTime[l] - windowMs[l], clock', max[l],
                      windowMs[l])
    <3>1. /\ passed[l] \in Seq(Nat) /\ resetTime[l] - windowMs[l] \in Int /\ clock \in Nat
          /\ Window(passed[l], Used(l), resetTime[l] - windowMs[l], clock, max[l],
                    windowMs[l])
      BY LimiterAssumption DEF IInv, LTypeOK, WindowInv
    <3>2. \A i \in DOMAIN passed[l] : passed[l][i] \in Nat
      BY <3>1
    <3> QED
      BY <2>1, <3>1, <3>2 DEF Window
  <2>3. LTypeOK'
    BY <2>1 DEF IInv, LTypeOK
  <2>4. WindowInv'
    BY <2>1, <2>2 DEF IInv, WindowInv, Used
  <2> QED
    BY <2>3, <2>4 DEF IInv
<1>5. CASE UNCHANGED lvars
  BY <1>5 DEF lvars, IInv, LTypeOK, WindowInv, Used
<1> QED
  BY <1>2, <1>3, <1>4, <1>5 DEF LNext

LEMMA Invariance == LSpec => []IInv
<1> QED
  BY IInvInit, IInvStep, PTL DEF LSpec

-----------------------------------------------------------------------------
(* The theorems *)

\* The clock, the counts and the history keep their types.
THEOREM TypeCorrectness == LSpec => []LTypeOK
<1>1. IInv => LTypeOK
  BY DEF IInv
<1> QED
  BY <1>1, Invariance, PTL

\* For any limit and any length of its windows, fewer than twice the limit are let
\* through in any span of that length.
THEOREM BudgetOfAnySpan == LSpec => []SpanBudget
<1>1. IInv => SpanBudget
  BY DEF IInv, WindowInv, Window, Spans, SpanBudget
<1> QED
  BY <1>1, Invariance, PTL

\* A client is refused only when as many as the limit were let through in the last
\* windowMs.
THEOREM RefusedOnlyAtTheLimit == LSpec => []NoneRefusedEarly
<1>1. IInv => NoneRefusedEarly
  <2> SUFFICES ASSUME IInv, NEW l \in Limiters, ~Passes(l)
               PROVE  /\ Len(passed[l]) >= max[l]
                      /\ \A i \in DOMAIN passed[l] :
                           i > Len(passed[l]) - max[l] =>
                             passed[l][i] > clock - windowMs[l]
    BY DEF NoneRefusedEarly
  <2>1. /\ max[l] \in Nat /\ windowMs[l] \in Nat /\ clock \in Nat
        /\ totalHits[l] \in Nat /\ resetTime[l] \in Nat /\ passed[l] \in Seq(Nat)
        /\ Window(passed[l], Used(l), resetTime[l] - windowMs[l], clock, max[l],
                  windowMs[l])
    BY LimiterAssumption DEF IInv, LTypeOK, WindowInv
  <2>2. Len(passed[l]) \in Nat /\ DOMAIN passed[l] = 1..Len(passed[l])
        /\ \A i \in DOMAIN passed[l] : passed[l][i] \in Nat
    BY <2>1
  <2>3. CASE Expired(l)
    <3>1. max[l] = 0
      BY <2>1, <2>3 DEF Passes, Count
    <3> QED
      BY <2>2, <3>1
  <2>4. CASE ~Expired(l)
    <3>1. Used(l) = max[l] /\ resetTime[l] > clock
      BY <2>1, <2>4 DEF Passes, Count, Used, Expired
    <3> QED
      BY <2>1, <2>2, <3>1 DEF Window
  <2> QED
    BY <2>3, <2>4
<1> QED
  BY <1>1, Invariance, PTL

=============================================================================
