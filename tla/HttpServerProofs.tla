-------------------------- MODULE HttpServerProofs --------------------------
(***************************************************************************)
(* For any limits, any clients and every route: what ServerLifecycle      *)
(* promises under traffic, the budget of mails, what is logged of an       *)
(* answer, and whom an answer blames.                                      *)
(***************************************************************************)
EXTENDS HttpServer, ServerProofs

-----------------------------------------------------------------------------
(* The lifecycle under traffic *)

\* A step of the server is a step of its lifecycle, or leaves that alone.
LEMMA StepRefines == [HNext]_hvars => [Next]_vars
<1> SUFFICES ASSUME [HNext]_hvars PROVE [Next]_vars
  OBVIOUS
<1>1. CASE Process
  BY <1>1 DEF Process, Next, Serving
<1>2. ASSUME NEW c \in Clients, Arrive(c) \/ Answer(c) \/ Leave(c)
      PROVE  Next
  BY <1>2 DEF Arrive, Answer, Leave, Next, Serving
<1>3. ASSUME NEW c \in Clients, WindowEnds(c) \/ SensitiveWindowEnds(c)
      PROVE  UNCHANGED vars
  BY <1>3 DEF WindowEnds, SensitiveWindowEnds
<1>4. CASE UNCHANGED hvars
  BY <1>4 DEF hvars
<1> QED
  BY <1>1, <1>2, <1>3, <1>4 DEF HNext

\* What was proved of the lifecycle holds under any traffic: no handler loses a
\* store to a shutdown while its client waits, and exit code 0 means a clean end.
THEOREM DrainedUnderTraffic == HttpSpec => []DrainedFirst /\ []CleanExit
<1>1. HInit => IInv
  BY IInvInit DEF HInit
<1>2. IInv /\ [HNext]_hvars => IInv'
  BY StepRefines, IInvStep
<1>3. IInv => DrainedFirst /\ CleanExit
  BY DEF IInv, ShutInv, DrainedFirst
<1> QED
  BY <1>1, <1>2, <1>3, PTL DEF HttpSpec

-----------------------------------------------------------------------------
(* The budget of mails *)

\* The verdict is the error of a link that stops the request, if one does.
LEMMA VerdictIsALinks ==
  ASSUME NEW links, NEW k \in 1..8, links[k].stops
  PROVE  \E i \in 1..8 : Verdict(links) = links[i].error
<1> DEFINE first(i) == links[i].stops /\ \A j \in 1..(i - 1) : ~links[j].stops
<1>1. \E i \in 1..8 : first(i)
  <2> SUFFICES ASSUME \A i \in 1..8 : ~first(i) PROVE FALSE
    OBVIOUS
  <2>1. ~links[1].stops
    OBVIOUS
  <2>2. ~links[2].stops
    BY <2>1
  <2>3. ~links[3].stops
    BY <2>1, <2>2
  <2>4. ~links[4].stops
    BY <2>1, <2>2, <2>3
  <2>5. ~links[5].stops
    BY <2>1, <2>2, <2>3, <2>4
  <2>6. ~links[6].stops
    BY <2>1, <2>2, <2>3, <2>4, <2>5
  <2>7. ~links[7].stops
    BY <2>1, <2>2, <2>3, <2>4, <2>5, <2>6
  <2>8. ~links[8].stops
    BY <2>1, <2>2, <2>3, <2>4, <2>5, <2>6, <2>7
  <2> QED
    BY <2>1, <2>2, <2>3, <2>4, <2>5, <2>6, <2>7, <2>8
<1>2. (CHOOSE i \in 1..8 : first(i)) \in 1..8
  BY <1>1
<1> QED
  BY <1>2 DEF Verdict

\* The errors of the chain are those that are answered without a handler.
LEMMA LinksRefuse ==
  ASSUME NEW c, NEW r, NEW fault, NEW token
  PROVE  \A i \in 1..8 : Links(c, r, fault, token)[i].error \in Verdicts \ {"handler"}
<1> DEFINE L == Links(c, r, fault, token)
<1>1. /\ L[1].error = "Unparsable" /\ L[2].error = "Limited"
      /\ L[3].error = "NotFound" /\ L[4].error = "Limited"
      /\ L[5].error = "Undecodable" /\ L[6].error = "Unauthorized"
      /\ L[7].error = "Unauthorized" /\ L[8].error = "ZodError"
  BY DEF Links
<1> HIDE DEF L
<1>2. \A i \in 1..8 : L[i].error \in Verdicts \ {"handler"}
  BY <1>1 DEF Verdicts
<1> QED
  BY <1>2 DEF L

\* A handler is reached only when no link of the chain has stopped the request.
LEMMA HandlerPassed ==
  ASSUME NEW c, NEW r, NEW fault, NEW token,
         Verdict(Links(c, r, fault, token)) = "handler"
  PROVE  \A i \in 1..8 : ~Links(c, r, fault, token)[i].stops
  BY VerdictIsALinks, LinksRefuse

\* A mail handler runs on a count that is still within the limit, and every run
\* has moved the count.
BudgetInv ==
  /\ hits \in [Clients -> Nat] /\ sens \in [Clients -> Nat] /\ mails \in [Clients -> Nat]
  /\ \A c \in Clients : mails[c] <= sens[c] /\ mails[c] <= SensitiveMax

LEMMA BudgetStep == BudgetInv /\ [HNext]_hvars => BudgetInv'
<1> SUFFICES ASSUME BudgetInv, [HNext]_hvars PROVE BudgetInv'
  OBVIOUS
<1> USE HttpAssumption
<1>1. CASE UNCHANGED http
  BY <1>1 DEF http, BudgetInv
<1>2. ASSUME NEW c \in Clients, Arrive(c) PROVE BudgetInv'
  <2>0. PICK r \in Called, token \in {"none", "user", "admin"} :
             \E fault \in Faults(r) :
      /\ hits' = IF fault = "syntax" THEN hits ELSE [hits EXCEPT ![c] = Count(@, Max)]
      /\ sens' = IF fault = "syntax" \/ Over(hits'[c], Max) \/ ~Sensitive(r) THEN sens
                 ELSE [sens EXCEPT ![c] = Count(@, SensitiveMax)]
      /\ mails' = IF Sensitive(r) /\ Verdict(Links(c, r, fault, token)) = "handler"
                    THEN [mails EXCEPT ![c] = @ + 1] ELSE mails
    BY <1>2 DEF Arrive
  <2>1. PICK fault \in Faults(r) :
      /\ hits' = IF fault = "syntax" THEN hits ELSE [hits EXCEPT ![c] = Count(@, Max)]
      /\ sens' = IF fault = "syntax" \/ Over(hits'[c], Max) \/ ~Sensitive(r) THEN sens
                 ELSE [sens EXCEPT ![c] = Count(@, SensitiveMax)]
      /\ mails' = IF Sensitive(r) /\ Verdict(Links(c, r, fault, token)) = "handler"
                    THEN [mails EXCEPT ![c] = @ + 1] ELSE mails
    BY <2>0
  <2>2. hits' \in [Clients -> Nat]
    BY <2>1 DEF BudgetInv, Count
  <2>3. CASE Sensitive(r) /\ Verdict(Links(c, r, fault, token)) = "handler"
    <3> DEFINE L == Links(c, r, fault, token)
    <3>2. /\ fault # "syntax" /\ ~Over(hits'[c], Max) /\ ~Over(sens'[c], SensitiveMax)
      <4>1. ~L[1].stops /\ ~L[2].stops /\ ~L[4].stops
        <5> HIDE DEF L
        <5> QED
          BY <2>3, HandlerPassed DEF L
      <4> QED
        BY <4>1, <2>3 DEF Links
    <3>3. sens' = [sens EXCEPT ![c] = Count(@, SensitiveMax)]
      BY <2>1, <2>3, <3>2
    <3>4. sens'[c] = sens[c] + 1 /\ sens[c] + 1 <= SensitiveMax
      BY <3>2, <3>3 DEF Over, Count, BudgetInv
    <3>5. mails' = [mails EXCEPT ![c] = @ + 1]
      BY <2>1, <2>3
    <3> QED
      BY <2>2, <3>3, <3>4, <3>5 DEF BudgetInv, Count
  <2>4. CASE ~(Sensitive(r) /\ Verdict(Links(c, r, fault, token)) = "handler")
    <3>1. mails' = mails
      BY <2>1, <2>4
    <3>2. sens' = sens \/ sens' = [sens EXCEPT ![c] = Count(@, SensitiveMax)]
      BY <2>1
    <3> QED
      BY <2>2, <3>1, <3>2 DEF BudgetInv, Count
  <2> QED
    BY <2>3, <2>4
<1>3. ASSUME NEW c \in Clients, Answer(c) \/ Leave(c) PROVE BudgetInv'
  BY <1>3 DEF Answer, Leave, BudgetInv
<1>4. ASSUME NEW c \in Clients, WindowEnds(c) \/ SensitiveWindowEnds(c) PROVE BudgetInv'
  BY <1>4 DEF WindowEnds, SensitiveWindowEnds, BudgetInv
<1> QED
  BY <1>1, <1>2, <1>3, <1>4 DEF HNext, hvars

\* In one window a client has the two mail routes run no more often than the limit
\* says, for any limits, any number of clients and whatever else they call.
THEOREM MailsWithinBudget == HttpSpec => []MailBudget
<1>1. HInit => BudgetInv
  BY HttpAssumption DEF HInit, BudgetInv
<1>2. BudgetInv => MailBudget
  BY DEF BudgetInv, MailBudget
<1> QED
  BY <1>1, <1>2, BudgetStep, PTL DEF HttpSpec

-----------------------------------------------------------------------------
(* What a handler or a link may answer with *)

\* A route belongs to one router, so the order of the routers does not matter.
LEMMA RoutesAreApart ==
  ASSUME NEW r
  PROVE  /\ r \in DOMAIN authRoutes => r \notin DOMAIN userRoutes
         /\ r \in DOMAIN authRoutes \cup DOMAIN userRoutes =>
              r \notin DOMAIN notificationRoutes
         /\ r \in DOMAIN authRoutes \cup DOMAIN userRoutes \cup DOMAIN notificationRoutes =>
              r \notin DOMAIN pushRoutes
         /\ r \in {"ready", "live"} =>
              r \notin DOMAIN authRoutes \cup DOMAIN userRoutes
                         \cup DOMAIN notificationRoutes \cup DOMAIN pushRoutes
  BY DEF authRoutes, userRoutes, notificationRoutes, pushRoutes

\* Every way a handler may end is one that StatusOf and the loggers tell apart;
\* the live probe only succeeds, and only the ready one blames a store.
LEMMA EndingsAreKnown ==
  ASSUME NEW r
  PROVE  /\ Endings(r) \subseteq Outcomes \ {"Unparsable", "Store"}
         /\ r = "live" => Endings(r) = {"ok"}
         /\ "NotReady" \in Endings(r) => ~StoresUp
<1>1. CASE r = "ready"
  <2>1. Endings(r) = IF StoresUp THEN {"ok"} ELSE {"NotReady"}
    BY <1>1, RoutesAreApart DEF Endings
  <2> QED
    BY <1>1, <2>1 DEF Outcomes, ApiResponse, Verdicts
<1>2. CASE r \in DOMAIN authRoutes
  <2>1. Endings(r) = {authController(r)} \cup authThrows[r]
    BY <1>2, RoutesAreApart DEF Endings
  <2>2. authThrows[r] \subseteq
          {"Conflict", "DuplicateKey", "MongooseValidation", "Unauthorized",
           "Vanished", "Unsigned"}
    BY <1>2 DEF authRoutes, authThrows
  <2> QED
    BY <1>2, <2>1, <2>2, RoutesAreApart DEF authController, Outcomes, ApiResponse, Verdicts
<1>3. CASE r \in DOMAIN userRoutes
  <2>1. Endings(r) = {userController(r)} \cup userThrows[r]
    BY <1>3, RoutesAreApart DEF Endings
  <2>2. userThrows[r] \subseteq
          {"NotFound", "CastError", "MongooseValidation"}
    BY <1>3 DEF userRoutes, userThrows
  <2> QED
    BY <1>3, <2>1, <2>2, RoutesAreApart DEF userController, Outcomes, ApiResponse, Verdicts
<1>4. CASE r \in DOMAIN notificationRoutes
  <2>1. Endings(r) = {notificationController(r)} \cup notificationThrows[r]
    BY <1>4, RoutesAreApart DEF Endings
  <2>2. notificationThrows[r] \subseteq
          {"NotFound", "CastError"}
    BY <1>4 DEF notificationRoutes, notificationThrows
  <2> QED
    BY <1>4, <2>1, <2>2, RoutesAreApart DEF notificationController, Outcomes, ApiResponse, Verdicts
<1>5. CASE r \in DOMAIN pushRoutes
  <2>1. Endings(r) = {pushController(r)} \cup pushThrows[r]
    BY <1>5, RoutesAreApart DEF Endings
  <2>2. pushThrows[r] \subseteq
          {"DuplicateKey", "Vanished", "NotFound", "Forbidden", "CastError", "BSONError"}
    BY <1>5 DEF pushRoutes, pushThrows
  <2> QED
    BY <1>5, <2>1, <2>2, RoutesAreApart DEF pushController, Outcomes, ApiResponse, Verdicts
<1>6. CASE /\ r # "ready"
           /\ r \notin DOMAIN authRoutes \cup DOMAIN userRoutes
                        \cup DOMAIN notificationRoutes \cup DOMAIN pushRoutes
  <2>1. Endings(r) = {"ok"}
    BY <1>6 DEF Endings
  <2> QED
    BY <2>1 DEF Outcomes, ApiResponse, Verdicts
<1> QED
  BY <1>1, <1>2, <1>3, <1>4, <1>5, <1>6

\* The status of each ending: below 500 but for a few, and 429 and 503 only for the
\* answers that no logger sees.
LEMMA StatusesAreKnown ==
  ASSUME NEW e \in Outcomes
  PROVE  /\ StatusOf(e) \in 200..503
         /\ StatusOf(e) < 400 <=> e \in DOMAIN ApiResponse
         /\ e = "ok" => StatusOf(e) = 200
         /\ StatusOf(e) \in {429, 503} <=> e \in {"Limited", "NotReady"}
         /\ StatusOf(e) >= 500 => e \in Blamed \cup {"Store", "NotReady"}
<1>1. CASE e \in DOMAIN ApiResponse
  BY <1>1 DEF ApiResponse, StatusOf
<1>2. CASE e \in {"Limited", "NotReady"}
  BY <1>2 DEF ApiResponse, StatusOf
<1>3. CASE e \notin DOMAIN ApiResponse \cup {"Limited", "NotReady"}
  <2>1. StatusOf(e) = errorHandler(e)
    BY <1>3 DEF StatusOf
  <2>2. CASE e \in DOMAIN AppErrors
    <3>1. /\ e \in {"Unauthorized", "Forbidden", "NotFound", "Conflict"}
          /\ errorHandler(e) \in {401, 403, 404, 409}
      BY <1>3, <2>2 DEF errorHandler, AppErrors, Outcomes, Verdicts
    <3> QED
      BY <1>3, <2>1, <3>1 DEF ApiResponse
  <2>3. CASE e \in {"ZodError", "MongooseValidation", "CastError", "DuplicateKey"}
    <3>1. errorHandler(e) \in {400, 409, 422}
      BY <2>3 DEF errorHandler, AppErrors
    <3> QED
      BY <1>3, <2>1, <2>3, <3>1 DEF ApiResponse
  <2>4. CASE e \in Blamed \cup {"Store"}
    <3>1. errorHandler(e) = 500
      BY <2>4 DEF Blamed, errorHandler, AppErrors
    <3> QED
      BY <1>3, <2>1, <2>4, <3>1 DEF ApiResponse
  <2> QED
    BY <1>3, <2>2, <2>3, <2>4 DEF Outcomes, Verdicts, AppErrors, Blamed
<1> QED
  BY <1>1, <1>2, <1>3

\* What is answered is logged by errorHandler, or by requestLogger, or by neither:
\* the two look at the same ending and split the others between them.
LEMMA RepliesAreLogged ==
  ASSUME NEW r \in Routes, NEW e \in Outcomes,
         r = "live" /\ e \in DOMAIN ApiResponse => e = "ok"
  PROVE  LET a == Reply(r, e) IN
         /\ a \in [route : Routes, ending : Outcomes, status : 200..503, logged : Nat]
         /\ a.ending = e /\ a.status = StatusOf(e)
         /\ a.logged = 0 <=> \/ a.route = "live" /\ a.status = 200
                             \/ a.status \in {429, 503}
         /\ a.logged <= 1
<1> DEFINE n == (IF requestLogger(r, e) THEN 1 ELSE 0) + (IF ErrorLogged(e) THEN 1 ELSE 0)
<1>1. Reply(r, e) = [route |-> r, ending |-> e, status |-> StatusOf(e), logged |-> n]
  BY DEF Reply
<1>2. n \in Nat
  OBVIOUS
<1>3. StatusOf(e) \in 200..503
  BY StatusesAreKnown
<1>4. CASE e \in DOMAIN ApiResponse
  <2>1. /\ requestLogger(r, e) <=> r # "live"
        /\ ~ErrorLogged(e)
        /\ StatusOf(e) \notin {429, 503}
        /\ r = "live" => StatusOf(e) = 200
    BY <1>4, StatusesAreKnown DEF requestLogger, ErrorLogged, ApiResponse
  <2> QED
    BY <1>1, <1>2, <1>3, <2>1
<1>5. CASE e \in {"Limited", "NotReady"}
  <2>1. ~requestLogger(r, e) /\ ~ErrorLogged(e) /\ StatusOf(e) \in {429, 503}
    BY <1>5, StatusesAreKnown DEF requestLogger, ErrorLogged, ApiResponse
  <2> QED
    BY <1>1, <1>2, <1>3, <2>1
<1>6. CASE e \notin DOMAIN ApiResponse \cup {"Limited", "NotReady"}
  <2>1. /\ ~requestLogger(r, e) /\ ErrorLogged(e)
        /\ StatusOf(e) \notin {200, 429, 503}
    BY <1>3, <1>6, StatusesAreKnown DEF requestLogger, ErrorLogged
  <2> QED
    BY <1>1, <1>2, <1>3, <2>1
<1> QED
  BY <1>4, <1>5, <1>6

-----------------------------------------------------------------------------
(* Requests and answers *)

\* Whatever comes down the chain has a verdict.
LEMMA VerdictIsKnown ==
  ASSUME NEW c, NEW r, NEW fault, NEW token
  PROVE  Verdict(Links(c, r, fault, token)) \in Verdicts
<1> DEFINE L == Links(c, r, fault, token)
<1>1. \A i \in 1..8 : L[i].error \in Verdicts
  BY LinksRefuse
<1> SUFFICES Verdict(L) \in Verdicts
  OBVIOUS
<1> HIDE DEF L
<1>2. CASE \A i \in 1..8 : ~L[i].stops
  <2>1. Verdict(L) = "handler"
    BY <1>2 DEF Verdict
  <2> QED
    BY <2>1 DEF Verdicts
<1>3. CASE \E i \in 1..8 : L[i].stops
  <2>1. \E i \in 1..8 : Verdict(L) = L[i].error
    BY <1>3, VerdictIsALinks
  <2> QED
    BY <1>1, <2>1
<1> QED
  BY <1>2, <1>3

\* An answer rests on what stopped the request, or on how its handler ended; and
\* an answer of 500 and above on a store, or on one of the errors named in Blamed.
LEMMA AnswersAreKnown ==
  ASSUME HTypeOK, NEW c \in Clients, Answer(c)
  PROVE  /\ req[c].route \in Routes
         /\ \E e \in Outcomes :
              /\ answer' = [answer EXCEPT ![c] = Reply(req[c].route, e)]
              /\ req[c].route = "live" /\ e \in DOMAIN ApiResponse => e = "ok"
              /\ StatusOf(e) >= 500 => ~StoresUp \/ e \in Blamed
<1> DEFINE r == req[c].route
           m == req[c].met
<1>1. conn[c] = "waiting"
  BY DEF Answer, Respond, Move
<1>2. r \in Routes /\ m \in Verdicts
  BY <1>1 DEF HTypeOK
<1>3. PICK e : /\ e \in IF m # "handler" THEN {m}
                        ELSE Endings(r)
                          \cup (IF UsesStores(r) /\ ~StoresUp THEN {"Store"} ELSE {})
               /\ answer' = [answer EXCEPT ![c] = Reply(r, e)]
  BY DEF Answer
<1> HIDE DEF r, m
<1>4. CASE m # "handler"
  <2>1. e = m /\ e \in Verdicts \ {"handler"}
    BY <1>2, <1>3, <1>4
  <2>2. e \in Outcomes /\ e \notin DOMAIN ApiResponse
    BY <2>1 DEF Outcomes, Verdicts, ApiResponse
  <2>3. e \notin {"Store", "NotReady"}
    BY <2>1 DEF Verdicts
  <2>4. StatusOf(e) >= 500 => e \in Blamed
    BY <2>2, <2>3, StatusesAreKnown
  <2> QED
    BY <1>2, <1>3, <2>2, <2>4 DEF r
<1>5. CASE m = "handler" /\ e \in Endings(r)
  <2>1. /\ e \in Outcomes
        /\ r = "live" => e = "ok"
        /\ e # "Store" /\ (e = "NotReady" => ~StoresUp)
    BY <1>5, EndingsAreKnown
  <2>2. StatusOf(e) >= 500 => ~StoresUp \/ e \in Blamed
    BY <2>1, StatusesAreKnown
  <2> QED
    BY <1>2, <1>3, <2>1, <2>2 DEF r
<1>6. CASE m = "handler" /\ e = "Store" /\ ~StoresUp
  <2>1. e \in Outcomes /\ e \notin DOMAIN ApiResponse
    BY <1>6 DEF Outcomes, ApiResponse
  <2> QED
    BY <1>2, <1>3, <1>6, <2>1 DEF r
<1> QED
  BY <1>3, <1>4, <1>5, <1>6

HInv == IInv /\ HTypeOK /\ LoggedOnce

\* Nobody has asked for anything.
LEMMA HInvInit == HInit => HInv
<1> SUFFICES ASSUME HInit PROVE HInv
  OBVIOUS
<1>1. IInv
  BY IInvInit DEF HInit
<1>2. HTypeOK
  BY HttpAssumption DEF HInit, Init, HTypeOK
<1>3. LoggedOnce
  BY DEF HInit, LoggedOnce
<1> QED
  BY <1>1, <1>2, <1>3 DEF HInv

\* A request is there as long as its connection waits, and what it is answered
\* with is one of the endings, each of them logged as often as it should be.
LEMMA HInvStep == HInv /\ [HNext]_hvars => HInv'
<1> SUFFICES ASSUME HInv, [HNext]_hvars PROVE HInv'
  OBVIOUS
<1>0. IInv' /\ conn \in [Clients -> {"none", "idle", "waiting", "socket"}]
  BY StepRefines, IInvStep DEF HInv, IInv, TypeOK
<1> USE HttpAssumption DEF HInv
<1>1. CASE Process /\ UNCHANGED http
  <2>1. \A c \in Clients : conn'[c] = "waiting" <=> conn[c] = "waiting"
    <3>1. CASE Booting \/ RedisSilent \/ SignalAtBoot \/ StoreDown \/ StoreUp \/ Timeout
      BY <3>1 DEF Booting, LoadEnv, ConnectMongo, RedisSilent, ConnectRedis, SignalAtBoot,
                  StoreDown, StoreUp, Timeout, server
    <3>2. ASSUME NEW c \in Clients, Connect(c) \/ Upgrade(c)
          PROVE  \A d \in Clients : conn'[d] = "waiting" <=> conn[d] = "waiting"
      BY <1>0, <3>2 DEF Connect, Upgrade, Move
    <3>3. ASSUME NEW k \in Causes, Shutdown(k)
          PROVE  \A d \in Clients : conn'[d] = "waiting" <=> conn[d] = "waiting"
      BY <1>0, <3>3 DEF Shutdown
    <3>4. ASSUME NEW k \in Causes, Closing(k) PROVE UNCHANGED conn
      BY <3>4 DEF Closing, Closed, DisconnectMongo, DisconnectRedis, server
    <3> QED
      BY <1>1, <3>1, <3>2, <3>3, <3>4 DEF Process
  <2> QED
    BY <1>0, <1>1, <2>1 DEF http, HTypeOK, LoggedOnce
<1>2. ASSUME NEW c \in Clients, Arrive(c) PROVE HInv'
  <2>1. conn' = [conn EXCEPT ![c] = "waiting"]
    BY <1>2 DEF Arrive, Request, Move
  <2>2. PICK r \in Called, token \in {"none", "user", "admin"} :
             \E fault \in Faults(r) :
      /\ hits' = IF fault = "syntax" THEN hits ELSE [hits EXCEPT ![c] = Count(@, Max)]
      /\ sens' = IF fault = "syntax" \/ Over(hits'[c], Max) \/ ~Sensitive(r) THEN sens
                 ELSE [sens EXCEPT ![c] = Count(@, SensitiveMax)]
      /\ \E v \in Verdicts :
           /\ req' = [req EXCEPT ![c] = [route |-> r, met |-> v]]
           /\ mails' = IF Sensitive(r) /\ v = "handler"
                         THEN [mails EXCEPT ![c] = @ + 1] ELSE mails
    BY <1>2, VerdictIsKnown DEF Arrive
  <2>3. /\ hits' \in [Clients -> 0..(Max + 1)]
        /\ sens' \in [Clients -> 0..(SensitiveMax + 1)]
        /\ mails' \in [Clients -> Nat]
    BY <2>2 DEF HTypeOK, Count
  <2>4. \E v \in Verdicts : req' = [req EXCEPT ![c] = [route |-> r, met |-> v]]
    BY <2>2
  <2>5. /\ req' \in [Clients -> [route : Routes, met : Verdicts] \cup {None}]
        /\ \A d \in Clients : req'[d] # None <=> conn'[d] = "waiting"
    BY <1>0, <2>1, <2>4 DEF HTypeOK
  <2>6. answer' = [answer EXCEPT ![c] = None]
    BY <1>2 DEF Arrive
  <2> QED
    BY <1>0, <2>3, <2>5, <2>6 DEF HTypeOK, LoggedOnce
<1>3. ASSUME NEW c \in Clients, Answer(c) PROVE HInv'
  <2>1. /\ conn' = [conn EXCEPT ![c] = "idle"]
        /\ req' = [req EXCEPT ![c] = None]
        /\ UNCHANGED <<hits, sens, mails>>
    BY <1>3 DEF Answer, Respond, Move
  <2>2. PICK e \in Outcomes :
          /\ answer' = [answer EXCEPT ![c] = Reply(req[c].route, e)]
          /\ req[c].route = "live" /\ e \in DOMAIN ApiResponse => e = "ok"
    BY <1>3, AnswersAreKnown
  <2>3. req[c].route \in Routes
    BY <1>3, AnswersAreKnown
  <2> DEFINE a == Reply(req[c].route, e)
  <2>4. /\ a \in [route : Routes, ending : Outcomes, status : 200..503, logged : Nat]
        /\ a.logged = 0 <=> \/ a.route = "live" /\ a.status = 200
                            \/ a.status \in {429, 503}
        /\ a.logged <= 1
    BY <2>2, <2>3, RepliesAreLogged
  <2> HIDE DEF a
  <2>5. answer' = [answer EXCEPT ![c] = a]
    BY <2>2 DEF a
  <2>6. HTypeOK'
    BY <1>0, <2>1, <2>4, <2>5 DEF HTypeOK
  <2>7. LoggedOnce'
    BY <2>4, <2>5 DEF HTypeOK, LoggedOnce
  <2> QED
    BY <1>0, <2>6, <2>7
<1>4. ASSUME NEW c \in Clients, Leave(c) PROVE HInv'
  <2>1. conn' = [conn EXCEPT ![c] = "none"]
    BY <1>4 DEF Leave, HangUp, Move
  <2> QED
    BY <1>0, <1>4, <2>1 DEF Leave, HTypeOK, LoggedOnce
<1>5. ASSUME NEW c \in Clients, WindowEnds(c) \/ SensitiveWindowEnds(c) PROVE HInv'
  BY <1>0, <1>5 DEF WindowEnds, SensitiveWindowEnds, vars, server, HTypeOK, LoggedOnce
<1>6. CASE UNCHANGED hvars
  BY <1>0, <1>6 DEF hvars, http, vars, server, HTypeOK, LoggedOnce
<1> QED
  BY <1>1, <1>2, <1>3, <1>4, <1>5, <1>6 DEF HNext

\* The invariant holds in every state of the serving process.
LEMMA HInvariance == HttpSpec => []HInv
  BY HInvInit, HInvStep, PTL DEF HttpSpec

\* Requests, counters and answers keep their types for any clients, limits and
\* routes called, and a request is there exactly while its client waits.
THEOREM RequestsKeepTypes == HttpSpec => []HTypeOK
<1>1. HInv => HTypeOK
  BY DEF HInv
<1> QED
  BY <1>1, HInvariance, PTL

\* Whatever route is called, and wherever its request ends, what came of it is
\* logged once: by errorHandler or by requestLogger, and never by both.
THEOREM FailuresAreLoggedOnce == HttpSpec => []LoggedOnce
<1>1. HInv => LoggedOnce
  BY DEF HInv
<1> QED
  BY <1>1, HInvariance, PTL

\* While a client waits, its process runs with both stores connected, or lost: none
\* is closed yet, none is still to come.
LEMMA StoreIsDown ==
  ASSUME IInv, ~StoresUp, stage = "running", NEW c \in Clients, conn[c] = "waiting"
  PROVE  "down" \in {mongo, redis}
<1>1. mongo # "closed" /\ redis # "closed"
  BY DEF IInv, ShutInv
<1>2. mongo # "off" /\ redis \notin {"off", "silent"}
  BY DEF IInv, BootInv
<1> QED
  BY <1>1, <1>2 DEF IInv, TypeOK, StoresUp

\* An answer of 500 and above is given only when a store is down, whatever closes the
\* process meanwhile, or for one of the five errors of Blamed: so never to a client
\* for having lost a race for an index, and never from a store the process closed.
THEOREM BlameIsDeserved == HttpSpec => BlamesItself
<1> DEFINE Blame ==
      \A c \in Clients :
        answer[c] = None /\ answer'[c] # None /\ answer'[c].status >= 500 =>
          "down" \in {mongo, redis} \/ answer'[c].ending \in Blamed
<1>1. HInv /\ [HNext]_hvars => [Blame]_hvars
  <2> SUFFICES ASSUME HInv, HNext, NEW c \in Clients, answer[c] = None,
                      answer'[c] # None, answer'[c].status >= 500
      PROVE  "down" \in {mongo, redis} \/ answer'[c].ending \in Blamed
    OBVIOUS
  <2>0. answer = [d \in Clients |-> answer[d]]
    BY DEF HInv, HTypeOK
  <2>1. PICK d \in Clients : Answer(d)
    BY <2>0 DEF HNext, Arrive, Leave, WindowEnds, SensitiveWindowEnds, http
  <2>2. PICK e \in Outcomes :
          /\ answer' = [answer EXCEPT ![d] = Reply(req[d].route, e)]
          /\ StatusOf(e) >= 500 => ~StoresUp \/ e \in Blamed
    BY <2>1, AnswersAreKnown DEF HInv
  <2>3. d = c /\ answer'[c] = Reply(req[c].route, e)
    BY <2>0, <2>2
  <2>4. answer'[c].status = StatusOf(e) /\ answer'[c].ending = e
    BY <2>3 DEF Reply
  <2>5. stage = "running" /\ conn[d] = "waiting"
    BY <2>1 DEF Answer, Respond, Move
  <2>6. ~StoresUp => "down" \in {mongo, redis}
    BY <2>5, StoreIsDown DEF HInv
  <2> QED
    BY <2>2, <2>4, <2>6
<1> QED
  BY <1>1, HInvariance, PTL DEF HttpSpec, BlamesItself

=============================================================================
