---------------------------- MODULE ServerProofs ----------------------------
(***************************************************************************)
(* The safety of ServerLifecycle for any number of clients and any causes  *)
(* of shutdown.                                                            *)
(***************************************************************************)
EXTENDS ServerLifecycle, TLAPS

-----------------------------------------------------------------------------
(* The inductive invariant *)

\* A process that is still starting does not listen, nor is it asked to shut down;
\* it has connected to the stores by the time it runs.
BootInv ==
  /\ stage \in Boot => ~listening /\ (\A k \in Causes : shut[k] = "none") /\ code = None
  /\ stage \in {"redis", "running"} => mongo # "off"
  /\ stage = "running" => redis \notin {"off", "silent"}

\* Where each call of shutdown stands says what has been closed before, and
\* nothing but a call that stands there closes a store.
ShutInv ==
  /\ \A k \in Causes : shut[k] # "none" => ~listening
  /\ \A k \in Causes : shut[k] = "redis" => mongo = "closed"
  /\ mongo = "closed" \/ redis = "closed" =>
       \E k \in Causes : shut[k] \in {"mongo", "redis"}
  /\ \A k \in Causes : shut[k] \in {"mongo", "redis"} =>
       \A c \in Clients : conn[c] = "none"

IInv ==
  /\ TypeOK
  /\ BootInv
  /\ ShutInv
  /\ CleanExit

-----------------------------------------------------------------------------
(* The invariant holds at the start, and every step keeps it *)

\* Nothing is up and nothing is asked for.
LEMMA IInvInit == Init => IInv
  BY LifecycleAssumption DEF Init, IInv, TypeOK, BootInv, ShutInv, CleanExit, Boot

\* A shutdown stops the listening before anything else and closes the stores one
\* after the other, when no connection is left; whoever asks again finds them so.
LEMMA IInvStep == IInv /\ [Next]_vars => IInv'
<1> SUFFICES ASSUME IInv, [Next]_vars PROVE IInv'
  OBVIOUS
<1> USE LifecycleAssumption
    DEF IInv, TypeOK, BootInv, ShutInv, CleanExit, Boot, Exit, stores, server
<1>1. CASE UNCHANGED vars
  BY <1>1 DEF vars
<1>2. CASE Booting \/ RedisSilent \/ SignalAtBoot
  <2>1. CASE LoadEnv
    BY <2>1 DEF LoadEnv
  <2>2. CASE ConnectMongo
    BY <2>2 DEF ConnectMongo
  <2>3. CASE ConnectRedis
    <3>1. CASE stage' = "running" /\ listening'
      BY <2>3, <3>1 DEF ConnectRedis
    <3>2. CASE stage' = "running" /\ ~listening'
      BY <2>3, <3>2 DEF ConnectRedis
    <3>3. CASE stage' # "running"
      BY <2>3, <3>3 DEF ConnectRedis
    <3> QED
      BY <3>1, <3>2, <3>3
  <2>4. CASE SignalAtBoot
    BY <2>4 DEF SignalAtBoot, Killed
  <2>5. CASE RedisSilent
    BY <2>5 DEF RedisSilent
  <2> QED
    BY <1>2, <2>1, <2>2, <2>3, <2>4, <2>5 DEF Booting
<1>3. ASSUME NEW c \in Clients, Serving(c) PROVE IInv'
  BY <1>3 DEF Serving, Move, Connect, Request, Respond, Upgrade, HangUp
<1>4. CASE StoreDown \/ StoreUp
  BY <1>4 DEF StoreDown, StoreUp
<1>5. ASSUME NEW k \in Causes, Shutdown(k) \/ Closing(k) PROVE IInv'
  <2>1. CASE Shutdown(k)
    BY <2>1 DEF Shutdown
  <2>2. CASE Closed(k)
    BY <2>2 DEF Closed
  <2>3. CASE DisconnectMongo(k)
    BY <2>3 DEF DisconnectMongo
  <2>4. CASE DisconnectRedis(k)
    BY <2>4 DEF DisconnectRedis
  <2> QED
    BY <1>5, <2>1, <2>2, <2>3, <2>4 DEF Closing
<1>6. CASE Timeout
  BY <1>6 DEF Timeout
<1> QED
  BY <1>1, <1>2, <1>3, <1>4, <1>5, <1>6 DEF Next

\* The inductive invariant holds in every state the process reaches.
LEMMA Invariance == Spec => []IInv
  BY IInvInit, IInvStep, PTL DEF Spec

-----------------------------------------------------------------------------
(* Theorems *)

\* The process and its connections keep their types, whatever happens to them.
THEOREM TypeCorrectness == Spec => []TypeOK
<1>1. IInv => TypeOK
  BY DEF IInv
<1> QED
  BY <1>1, Invariance, PTL

\* Whatever asks for a shutdown, however often and in whatever order, exit code 0
\* is given only with both stores closed and the server no longer listening.
THEOREM ExitZeroIsClean == Spec => []CleanExit
<1>1. IInv => CleanExit
  BY DEF IInv
<1> QED
  BY <1>1, Invariance, PTL

\* No store is closed while a client waits for its answer, however many causes
\* of shutdown have each left a callback behind.
THEOREM StoresOutliveRequests == Spec => []DrainedFirst
<1>1. IInv => DrainedFirst
  BY DEF IInv, ShutInv, DrainedFirst
<1> QED
  BY <1>1, Invariance, PTL

=============================================================================
