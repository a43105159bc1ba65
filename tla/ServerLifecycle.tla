-------------------------- MODULE ServerLifecycle --------------------------
(***************************************************************************)
(* The life of the process: src/config/env.ts and src/common/utils/        *)
(* webPush.ts at import, bootstrap() and shutdown() of src/server.ts, and  *)
(* the connections of Node's HTTP server (external), whose close() stops   *)
(* listening, drops idle connections and waits for the rest.               *)
(*                                                                         *)
(* socket.io shares the HTTP server, and a websocket is one of its         *)
(* connections.  Time is not measured: the 10 s timer may expire at any    *)
(* moment after it is set, and does in the end.                            *)
(***************************************************************************)
CONSTANTS
  Clients,  \* each with one connection to the server
  Causes,   \* what calls shutdown: signals, rejections, exceptions
  None

Killed == 143  \* the exit status of a process a SIGTERM ended

ASSUME LifecycleAssumption ==
  /\ "uncaughtException" \in Causes
  /\ None \notin {0, 1, Killed}

VARIABLES
  jwt, vapid,    \* the environment the process was started with
  stage, code,   \* how far the process is, and its exit code
  mongo, redis,  \* the connections to the stores
  listening,     \* the HTTP server has its listening handle
  served,        \* history: it ever had
  conn,          \* the connection of each client
  shut,          \* how far each call of shutdown is
  timer          \* the 10 s timer of a shutdown is running

stores == <<mongo, redis>>
server == <<listening, served, conn>>
vars   == <<jwt, vapid, stage, code, stores, server, shut, timer>>

Boot == {"env", "mongo", "redis"}

Exit(n) ==
  /\ stage' = "exited"
  /\ code' = n

-----------------------------------------------------------------------------
(* Boot *)

\* Every variable is parsed against the schema, which asks of the VAPID keys
\* only that they are there.  Keys that setVapidDetails refuses are logged.
LoadEnv ==
  /\ stage = "env"
  /\ \/ /\ jwt = "long" /\ vapid # "missing"
        /\ stage' = "mongo"
        /\ UNCHANGED code
     \/ /\ jwt = "short" \/ vapid = "missing"
        /\ Exit(1)
  /\ UNCHANGED <<jwt, vapid, stores, server, shut, timer>>

ConnectMongo ==
  /\ stage = "mongo"
  /\ \/ /\ mongo' = "up"
        /\ stage' = "redis"
        /\ UNCHANGED code
     \/ /\ Exit(1)
        /\ UNCHANGED mongo
  /\ UNCHANGED <<jwt, vapid, redis, server, shut, timer>>

\* Mutant: bootstrap() goes on with "connect" and not with the promise of
\* connectRedis, whose rejection is only logged.
ConnectRedisUncaught ==
  /\ stage = "redis" /\ redis = "off"
  /\ \/ /\ redis' = "up"
        /\ stage' = "running"
        /\ listening' = TRUE
        /\ served' = TRUE
     \/ /\ redis' = "down"
        /\ UNCHANGED <<stage, listening, served>>
  /\ UNCHANGED <<jwt, vapid, code, mongo, conn, shut, timer>>

\* Redis takes the connection and is silent: ioredis asks it for INFO before it is
\* ready, and no timeout is set on a command.
RedisSilent ==
  /\ stage = "redis" /\ redis = "off"
  /\ redis' = "silent"
  /\ UNCHANGED <<jwt, vapid, stage, code, mongo, server, shut, timer>>

\* After Redis comes listen(), in the same turn.  A port in use is an error
\* event nobody listens for: an uncaught exception, and so a shutdown.
ConnectRedis ==
  /\ stage = "redis" /\ redis \in {"off", "silent"}
  /\ \/ /\ redis' = "up"
        /\ stage' = "running"
        /\ \/ /\ listening' = TRUE
              /\ served' = TRUE
              /\ UNCHANGED <<shut, timer>>
           \/ /\ shut' = [shut EXCEPT !["uncaughtException"] = "closing"]
              /\ timer' = TRUE
              /\ UNCHANGED <<listening, served>>
        /\ UNCHANGED code
     \/ /\ Exit(1)
        /\ UNCHANGED <<redis, listening, served, shut, timer>>
  /\ UNCHANGED <<jwt, vapid, mongo, conn>>

\* Before bootstrap() has installed its handlers a signal just ends the process.
SignalAtBoot ==
  /\ stage \in Boot
  /\ Exit(Killed)
  /\ UNCHANGED <<jwt, vapid, stores, server, shut, timer>>

-----------------------------------------------------------------------------
(* Serving *)

Move(c, from, to) ==
  /\ stage = "running"
  /\ conn[c] \in from
  /\ conn' = [conn EXCEPT ![c] = to]
  /\ UNCHANGED <<jwt, vapid, stage, code, stores, listening, served, shut, timer>>

Connect(c) == listening /\ Move(c, {"none"}, "idle")
Request(c) == Move(c, {"idle"}, "waiting")
Respond(c) == Move(c, {"waiting"}, "idle")
Upgrade(c) == Move(c, {"idle"}, "socket")
HangUp(c)  == Move(c, {"idle", "waiting", "socket"}, "none")

\* Both drivers keep reconnecting on their own.
StoreDown ==
  /\ stage \in {"redis", "running"}
  /\ \/ mongo = "up" /\ mongo' = "down" /\ UNCHANGED redis
     \/ redis = "up" /\ redis' = "down" /\ UNCHANGED mongo
  /\ UNCHANGED <<jwt, vapid, stage, code, server, shut, timer>>

StoreUp ==
  /\ stage \in {"redis", "running"}
  /\ \/ mongo = "down" /\ mongo' = "up" /\ UNCHANGED redis
     \/ redis = "down" /\ redis' = "up" /\ UNCHANGED mongo
  /\ UNCHANGED <<jwt, vapid, stage, code, server, shut, timer>>

-----------------------------------------------------------------------------
(* Shutdown *)

\* Mutant: no escape hatch.
ShutdownWithoutTimer(k) ==
  /\ stage = "running" /\ shut[k] = "none"
  /\ shut' = [shut EXCEPT ![k] = "closing"]
  /\ listening' = FALSE
  /\ conn' = [c \in Clients |-> IF conn[c] = "idle" THEN "none" ELSE conn[c]]
  /\ UNCHANGED <<jwt, vapid, stage, code, stores, served, timer>>

\* shutdown: close() and set the timer.  A second cause goes the same way and
\* leaves one more callback waiting for the close event.
Shutdown(k) ==
  /\ stage = "running" /\ shut[k] = "none"
  /\ shut' = [shut EXCEPT ![k] = "closing"]
  /\ listening' = FALSE
  /\ conn' = [c \in Clients |-> IF conn[c] = "idle" THEN "none" ELSE conn[c]]
  /\ timer' = TRUE
  /\ UNCHANGED <<jwt, vapid, stage, code, stores, served>>

\* Mutant: the callback does not wait for the connections.
ClosedAtOnce(k) ==
  /\ stage = "running" /\ shut[k] = "closing"
  /\ shut' = [shut EXCEPT ![k] = "mongo"]
  /\ UNCHANGED <<jwt, vapid, stage, code, stores, server, timer>>

\* The close event: not listening, and no connection left.
Closed(k) ==
  /\ stage = "running" /\ shut[k] = "closing"
  /\ ~listening /\ \A c \in Clients : conn[c] = "none"
  /\ shut' = [shut EXCEPT ![k] = "mongo"]
  /\ UNCHANGED <<jwt, vapid, stage, code, stores, server, timer>>

\* Mutant: a failed disconnect does not stop the callback.
DisconnectMongoIgnored(k) ==
  /\ stage = "running" /\ shut[k] = "mongo"
  /\ shut' = [shut EXCEPT ![k] = "redis"]
  /\ mongo' \in {mongo, "closed"}
  /\ UNCHANGED <<jwt, vapid, stage, code, redis, server, timer>>

DisconnectMongo(k) ==
  /\ stage = "running" /\ shut[k] = "mongo"
  /\ \/ /\ mongo' = "closed"
        /\ shut' = [shut EXCEPT ![k] = "redis"]
        /\ UNCHANGED <<stage, code>>
     \/ /\ Exit(1)
        /\ UNCHANGED <<mongo, shut>>
  /\ UNCHANGED <<jwt, vapid, redis, server, timer>>

DisconnectRedis(k) ==
  /\ stage = "running" /\ shut[k] = "redis"
  /\ redis' = "closed"
  /\ Exit(0)
  /\ UNCHANGED <<jwt, vapid, mongo, server, shut, timer>>

\* Mutant: an exit status nobody expects.
TimeoutOddStatus ==
  /\ stage = "running" /\ timer
  /\ Exit(2)
  /\ UNCHANGED <<jwt, vapid, stores, server, shut, timer>>

Timeout ==
  /\ stage = "running" /\ timer
  /\ Exit(1)
  /\ UNCHANGED <<jwt, vapid, stores, server, shut, timer>>

-----------------------------------------------------------------------------
Init ==
  /\ jwt \in {"short", "long"}
  /\ vapid \in {"missing", "placeholder", "real"}
  /\ stage = "env" /\ code = None
  /\ mongo = "off" /\ redis = "off"
  /\ listening = FALSE /\ served = FALSE
  /\ conn = [c \in Clients |-> "none"]
  /\ shut = [k \in Causes |-> "none"]
  /\ timer = FALSE

Booting    == LoadEnv \/ ConnectMongo \/ ConnectRedis
Serving(c) == Connect(c) \/ Request(c) \/ Respond(c) \/ Upgrade(c) \/ HangUp(c)
Closing(k) == Closed(k) \/ DisconnectMongo(k) \/ DisconnectRedis(k)

Next ==
  \/ Booting \/ RedisSilent \/ SignalAtBoot
  \/ \E c \in Clients : Serving(c)
  \/ StoreDown \/ StoreUp
  \/ \E k \in Causes : Shutdown(k) \/ Closing(k)
  \/ Timeout

\* Connecting to Mongo ends, well or badly (serverSelectionTimeoutMS), connecting to
\* Redis unless that is silent (connect() rejects when the first attempt fails), and a
\* timer that was set expires.  Nothing is asked of clients, stores or disconnects.
Spec ==
  Init /\ [][Next]_vars /\ WF_vars(Booting /\ redis # "silent") /\ WF_vars(Timeout)

-----------------------------------------------------------------------------
(* Properties *)

\* Every variable keeps its type.
TypeOK ==
  /\ jwt \in {"short", "long"} /\ vapid \in {"missing", "placeholder", "real"}
  /\ stage \in Boot \cup {"running", "exited"}
  /\ code \in {None, 0, 1, Killed}
  /\ mongo \in {"off", "up", "down", "closed"}
  /\ redis \in {"off", "silent", "up", "down", "closed"}
  /\ listening \in BOOLEAN /\ served \in BOOLEAN /\ timer \in BOOLEAN
  /\ conn \in [Clients -> {"none", "idle", "waiting", "socket"}]
  /\ shut \in [Causes -> {"none", "closing", "mongo", "redis"}]

\* Exit code 0 means what it says, whatever the causes of shutdown and whenever
\* they come: both connections are closed and the server accepts no more.
CleanExit == code = 0 => mongo = "closed" /\ redis = "closed" /\ ~listening

\* The stores are not closed under a client that waits for its answer.
DrainedFirst ==
  mongo = "closed" \/ redis = "closed" => \A c \in Clients : conn[c] # "waiting"

\* "so you never hang forever" (README.md:21): once a shutdown is asked for the
\* process ends, though clients keep their websockets and stores do not answer.
ShutdownEnds == (\E k \in Causes : shut[k] # "none") ~> (stage = "exited")

\* A start ends: the process runs or has exited.  Only a Redis that takes the
\* connection and does not speak can keep it.
BootEnds == <>(stage \notin Boot \/ redis = "silent")

(* What the documentation promises and the program does not keep *)

\* "The server won't boot with placeholder secrets" (README.md:316).
NoPlaceholderBoot == served => vapid = "real"

\* A start that fails is reported as a failure (server.ts:57-59).
FailedStartFails == stage = "exited" /\ ~served => code # 0

=============================================================================
