----------------------------- MODULE HttpServer -----------------------------
(***************************************************************************)
(* What the process does with a request while it lives: the middleware     *)
(* chain of src/app.ts, the routes with their schemas and controllers, the *)
(* rate limiters, the error handler and the two places that log, over the  *)
(* connections and stores of ServerLifecycle.                              *)
(*                                                                         *)
(* A request arrives and is passed down the chain in one turn, up to a     *)
(* handler or the first error; the answer is a step of its own.  What the  *)
(* handlers do to the stores is in AuthService, PushSubscriptions and      *)
(* Notifications; here a handler is the set of the ways it may end.        *)
(* A client is an IP address with one connection.                          *)
(***************************************************************************)
EXTENDS ServerLifecycle, Integers, TLC

CONSTANTS
  Max,           \* requests per client and window: config.rateLimit.max
  SensitiveMax,  \* of the two routes that send mail
  Called         \* the routes clients call in this instance

VARIABLES
  req,         \* of each waiting client: its route, and the error it met or "handler"
  hits, sens,  \* of each client: the counts of the two limiters in their windows
  answer,      \* the last answer of each client
  mails        \* history: mail handlers it has started in the sensitive window

http  == <<req, hits, sens, answer, mails>>
hvars == <<vars, http>>

-----------------------------------------------------------------------------
(* Errors and their answers *)

AppErrors == [BadRequest |-> 400, Unauthorized |-> 401, Forbidden |-> 403,
              NotFound |-> 404, Conflict |-> 409, Validation |-> 422,
              TooManyRequests |-> 429, InternalServer |-> 500]

\* Mutant: a duplicate key is not told from other errors.
errorHandlerNoDuplicate(e) ==
  IF e \in DOMAIN AppErrors THEN AppErrors[e]
  ELSE CASE e \in {"ZodError", "MongooseValidation"} -> 422
         [] e = "CastError" -> 400
         [] OTHER -> 500

\* It knows nothing of a body that cannot be parsed ("Unparsable"), an id that
\* cannot be decoded ("Undecodable") or made an ObjectId of ("BSONError"), save() of
\* a document that is gone ("Vanished"), a lifetime that sign() or Redis refuses
\* ("Unsigned") and a command that failed ("Store"); a status they carry is not read.
errorHandler(e) ==
  IF e \in DOMAIN AppErrors THEN AppErrors[e]
  ELSE CASE e \in {"ZodError", "MongooseValidation"} -> 422
         [] e = "CastError" -> 400
         [] e = "DuplicateKey" -> 409
         [] OTHER -> 500

ApiResponse == [ok |-> 200, created |-> 201, noContent |-> 204]

-----------------------------------------------------------------------------
(* The modules: what stands before a handler, which parts of the request its
   schema reads, what it may throw, and how it answers when it does not *)

authRoutes ==
  [register |-> {}, login |-> {}, refresh |-> {}, logout |-> {"auth"},
   me |-> {"auth"}, change |-> {"auth"}, verify |-> {}, resend |-> {"sensitive"},
   forgot |-> {"sensitive"}, reset |-> {}]
authSchemas ==
  [r \in {"register", "login", "change", "verify", "resend", "forgot", "reset"}
     |-> {"body"}]
authThrows ==
  [register |-> {"Conflict", "DuplicateKey", "MongooseValidation", "Unsigned"},
   login |-> {"Unauthorized", "Unsigned"}, refresh |-> {"Unauthorized", "Unsigned"},
   logout |-> {},
   me |-> {"Unauthorized"}, change |-> {"Unauthorized", "Vanished"},
   verify |-> {"Unauthorized", "Vanished"}, resend |-> {}, forgot |-> {},
   reset |-> {"Unauthorized", "Vanished"}]
authController(r) == IF r = "register" THEN "created" ELSE "ok"

userRoutes ==
  [listUsers |-> {"auth", "admin"}, getUser |-> {"auth"}, updateUser |-> {"auth"},
   removeUser |-> {"auth", "admin"}]
userSchemas ==
  [listUsers |-> {"query"}, getUser |-> {"params"}, updateUser |-> {"body", "params"}]
userThrows ==
  [listUsers |-> {}, getUser |-> {"NotFound", "CastError"},
   updateUser |-> {"NotFound", "CastError", "MongooseValidation"},
   removeUser |-> {"NotFound", "CastError"}]
userController(r) == IF r = "removeUser" THEN "noContent" ELSE "ok"

notificationRoutes ==
  [listNotes |-> {"auth"}, readAll |-> {"auth"}, readOne |-> {"auth"}]
notificationSchemas == [listNotes |-> {"query"}, readOne |-> {"params"}]
notificationThrows  ==
  [listNotes |-> {}, readAll |-> {}, readOne |-> {"NotFound", "CastError"}]
notificationController(r) == "ok"

pushRoutes ==
  [vapidKey |-> {}, subscribe |-> {"auth"}, subscriptions |-> {"auth"},
   unsubscribe |-> {"auth"}, send |-> {"auth"}]
pushSchemas ==
  [subscribe |-> {"body"}, unsubscribe |-> {"params"}, send |-> {"body"}]
pushThrows ==
  [vapidKey |-> {}, subscribe |-> {"DuplicateKey", "Vanished"}, subscriptions |-> {},
   unsubscribe |-> {"NotFound", "Forbidden", "CastError"},
   send |-> {"Forbidden", "BSONError"}]
pushController(r) ==
  CASE r = "subscribe" -> "created" [] r = "unsubscribe" -> "noContent" [] OTHER -> "ok"

\* The probes; express.static; and any path that is none of these.
healthRoutes == [live |-> {}, ready |-> {}]
appRoutes    == [file |-> {}, unknown |-> {}]

Chain == authRoutes @@ userRoutes @@ healthRoutes @@ notificationRoutes @@ pushRoutes
           @@ appRoutes
Routes  == DOMAIN Chain
Schemas == authSchemas @@ userSchemas @@ notificationSchemas @@ pushSchemas

\* The routes with an id in their path.
WithId == {"getUser", "updateUser", "removeUser", "readOne", "unsubscribe"}

UsesStores(r) ==
  r \in Routes \ (DOMAIN healthRoutes \cup DOMAIN appRoutes \cup {"vapidKey"})
StoresUp      == mongo = "up" /\ redis = "up"

\* What the chain may make of a request.
Verdicts ==
  {"handler", "Unparsable", "Limited", "NotFound", "Undecodable", "Unauthorized",
   "ZodError"}

ASSUME HttpAssumption ==
  /\ Max \in Nat /\ SensitiveMax \in Nat
  /\ Called \subseteq Routes
  /\ None \notin [route : Routes, met : Verdicts]

-----------------------------------------------------------------------------
(* A request arrives *)

\* Mutant: the limiter lets one request too many through.
OverLate(n, max) == n > max + 1

\* What a limiter does with its nth request, and how far it counts: a bound, the
\* numbers above a limit are alike.
Over(n, max)   == n > max
Count(n, max)  == IF n > max THEN n ELSE n + 1

Sensitive(r)  == "sensitive" \in Chain[r]
Parts(r)      == IF r \in DOMAIN Schemas THEN Schemas[r] ELSE {}

\* What may be wrong with a request: its syntax, the encoding of its id, or a part
\* of it that a schema reads.
Faults(r) ==
  {"none", "syntax"} \cup Parts(r) \cup (IF r \in WithId THEN {"encoding"} ELSE {})

\* The chain in its order, each link with the error it gives.  rateLimit answers
\* by itself; express decodes an id as it matches the route, before authenticate;
\* authorize knows no other error than authenticate.
Links(c, r, fault, token) == <<
  [stops |-> fault = "syntax", error |-> "Unparsable"],
  [stops |-> Over(hits'[c], Max), error |-> "Limited"],
  [stops |-> r = "unknown", error |-> "NotFound"],
  [stops |-> Sensitive(r) /\ Over(sens'[c], SensitiveMax), error |-> "Limited"],
  [stops |-> fault = "encoding", error |-> "Undecodable"],
  [stops |-> "auth" \in Chain[r] /\ token = "none", error |-> "Unauthorized"],
  [stops |-> "admin" \in Chain[r] /\ token # "admin", error |-> "Unauthorized"],
  [stops |-> fault \in Parts(r), error |-> "ZodError"] >>

Verdict(links) ==
  LET first(i) == links[i].stops /\ \A j \in 1..(i - 1) : ~links[j].stops
  IN IF \A i \in 1..8 : ~links[i].stops THEN "handler"
     ELSE links[CHOOSE i \in 1..8 : first(i)].error

Arrive(c) ==
  /\ Request(c)
  /\ \E r \in Called, token \in {"none", "user", "admin"} :
     \E fault \in Faults(r) :
       /\ hits' = IF fault = "syntax" THEN hits ELSE [hits EXCEPT ![c] = Count(@, Max)]
       /\ sens' = IF fault = "syntax" \/ Over(hits'[c], Max) \/ ~Sensitive(r) THEN sens
                  ELSE [sens EXCEPT ![c] = Count(@, SensitiveMax)]
       /\ LET v == Verdict(Links(c, r, fault, token))
          IN /\ req' = [req EXCEPT ![c] = [route |-> r, met |-> v]]
             /\ mails' = IF Sensitive(r) /\ v = "handler"
                           THEN [mails EXCEPT ![c] = @ + 1] ELSE mails
  /\ answer' = [answer EXCEPT ![c] = None]

-----------------------------------------------------------------------------
(* ... and is answered *)

\* How a handler may end; a store command fails when its store is not there.
Endings(r) ==
  CASE r = "ready" -> IF StoresUp THEN {"ok"} ELSE {"NotReady"}
    [] r \in DOMAIN authRoutes -> {authController(r)} \cup authThrows[r]
    [] r \in DOMAIN userRoutes -> {userController(r)} \cup userThrows[r]
    [] r \in DOMAIN notificationRoutes -> {notificationController(r)} \cup notificationThrows[r]
    [] r \in DOMAIN pushRoutes -> {pushController(r)} \cup pushThrows[r]
    [] OTHER -> {"ok"}

StatusOf(e) ==
  CASE e \in DOMAIN ApiResponse -> ApiResponse[e]
    [] e = "Limited" -> 429
    [] e = "NotReady" -> 503
    [] OTHER -> errorHandler(e)

\* Mutant: the request logger has no level of its own for errors.
requestLoggerLoud(r, e) == e # "Unparsable" /\ r # "live"

\* It stands behind the parsers, is silent from 400 on and ignores the live probe.
requestLogger(r, e) == e # "Unparsable" /\ StatusOf(e) < 400 /\ r # "live"

\* Whatever reaches errorHandler is logged there.
ErrorLogged(e) == e \notin DOMAIN ApiResponse \cup {"Limited", "NotReady"}

Reply(r, e) ==
  [route |-> r, ending |-> e, status |-> StatusOf(e),
   logged |-> (IF requestLogger(r, e) THEN 1 ELSE 0) + (IF ErrorLogged(e) THEN 1 ELSE 0)]

\* The answer of a link of the chain, or of the handler: its own, what it threw,
\* or an error of a store it lost, which catchAsync hands on.
Answer(c) ==
  /\ Respond(c)
  /\ \E e \in IF req[c].met # "handler" THEN {req[c].met}
              ELSE Endings(req[c].route)
                \cup (IF UsesStores(req[c].route) /\ ~StoresUp THEN {"Store"} ELSE {}) :
       answer' = [answer EXCEPT ![c] = Reply(req[c].route, e)]
  /\ req' = [req EXCEPT ![c] = None]
  /\ UNCHANGED <<hits, sens, mails>>

\* Mutant: what a client asked for is kept beyond its connection.
LeaveUntidy(c) ==
  /\ HangUp(c)
  /\ UNCHANGED http

\* Nothing is followed of a handler whose client is gone.
Leave(c) ==
  /\ HangUp(c)
  /\ req' = [req EXCEPT ![c] = None]
  /\ UNCHANGED <<hits, sens, answer, mails>>

\* A window of express-rate-limit ends (external); RateLimiter says when.
WindowEnds(c) ==
  /\ stage = "running" /\ hits[c] > 0
  /\ hits' = [hits EXCEPT ![c] = 0]
  /\ UNCHANGED <<vars, req, sens, answer, mails>>

SensitiveWindowEnds(c) ==
  /\ stage = "running" /\ sens[c] > 0
  /\ sens' = [sens EXCEPT ![c] = 0]
  /\ mails' = [mails EXCEPT ![c] = 0]
  /\ UNCHANGED <<vars, req, hits, answer>>

-----------------------------------------------------------------------------
HInit ==
  /\ Init
  /\ req = [c \in Clients |-> None] /\ answer = [c \in Clients |-> None]
  /\ hits = [c \in Clients |-> 0] /\ sens = [c \in Clients |-> 0]
  /\ mails = [c \in Clients |-> 0]

\* bootstrap() and the process around it, as in ServerLifecycle.
Process ==
  \/ Booting \/ RedisSilent \/ SignalAtBoot \/ StoreDown \/ StoreUp \/ Timeout
  \/ \E c \in Clients : Connect(c) \/ Upgrade(c)
  \/ \E k \in Causes : Shutdown(k) \/ Closing(k)

HNext ==
  \/ Process /\ UNCHANGED http
  \/ \E c \in Clients :
       Arrive(c) \/ Answer(c) \/ Leave(c) \/ WindowEnds(c) \/ SensitiveWindowEnds(c)

\* No fairness is asked of the handlers: a command to a Redis that is silent has no
\* timeout, and may keep a client waiting for ever.
HttpSpec == HInit /\ [][HNext]_hvars

-----------------------------------------------------------------------------
(* Properties *)

\* What an answer may rest on: a success, a refusal, an error, or a lost store.
Outcomes ==
  DOMAIN ApiResponse \cup (Verdicts \ {"handler"}) \cup {"NotReady", "Store"}
    \cup {"Conflict", "DuplicateKey", "MongooseValidation", "Vanished", "CastError",
          "Forbidden", "BSONError", "Unsigned"}

\* Every variable keeps its type, and only who waits has a request.
HTypeOK ==
  /\ req \in [Clients -> [route : Routes, met : Verdicts] \cup {None}]
  /\ hits \in [Clients -> 0..(Max + 1)] /\ sens \in [Clients -> 0..(SensitiveMax + 1)]
  /\ mails \in [Clients -> Nat]
  /\ answer \in [Clients -> [route : Routes, ending : Outcomes, status : 200..503,
                              logged : Nat] \cup {None}]
  /\ \A c \in Clients : req[c] # None <=> conn[c] = "waiting"

\* "Stricter limiter for sensitive, email-sending auth actions" (rateLimiter.ts:13):
\* one budget for both routes, whatever else is asked, refused or answered.
MailBudget == \A c \in Clients : mails[c] <= SensitiveMax

\* "so you don't get the same failure twice" (docs/architecture.md:84), nor lose it:
\* an answer is logged once, but for the probes and what a limiter refuses.
LoggedOnce ==
  \A c \in Clients : answer[c] # None =>
    (answer[c].logged = 0 <=>
       \/ answer[c].route = "live" /\ answer[c].status = 200
       \/ answer[c].status \in {429, 503})
    /\ answer[c].logged <= 1

\* The errors answered with 500 for which no store need be away: a body or an id
\* that cannot be read, a document deleted under a save, a lifetime of the settings.
Blamed == {"Unparsable", "Undecodable", "BSONError", "Vanished", "Unsigned"}

\* Otherwise the server blames itself only when a store of its own is down: never
\* the client that lost a race (two registrations, two deletions), and never because
\* a shutdown has closed a store under its handler.
BlamesItself ==
  [][\A c \in Clients :
       answer[c] = None /\ answer'[c] # None /\ answer'[c].status >= 500 =>
         "down" \in {mongo, redis} \/ answer'[c].ending \in Blamed]_hvars

=============================================================================
