------------------------ MODULE PushSubscriptions -------------------------
(***************************************************************************)
(* src/modules/push: device subscriptions in Mongo, registered, removed    *)
(* and sent to by concurrent calls, each one store command per step, and   *)
(* the push services (external) that deliver to an endpoint or declare it  *)
(* gone for good.                                                          *)
(*                                                                         *)
(* A document is named by the register call that created it; the endpoint  *)
(* of a register call is kept in the endpoint field of that name.          *)
(***************************************************************************)
CONSTANTS
  Calls,      \* calls of the service, each handled once
  Users,
  Endpoints,  \* what browsers subscribe with, one per browser
  None

ASSUME PushAssumption == None \notin Calls \cup Users \cup Endpoints

VARIABLES
  subs,             \* the documents in the collection
  owner, endpoint,  \* their fields
  gone,             \* endpoints the push service answers 404 or 410 for
  pc, op, user,     \* where each call stands, which it is and for whom
  target,           \* the document it loaded
  seen,             \* the owner that document had
  batch,            \* send: the documents found for the user
  sent, failed,     \* send: the two counters
  expired,          \* send: the documents reported as expired
  deleting,         \* send: the deletions issued and not yet through
  takenFrom         \* history: whose document a removal deleted

docs  == <<subs, owner, endpoint>>
call  == <<user, target, seen>>
tally == <<batch, sent, failed, expired, deleting>>
vars  == <<docs, gone, pc, op, call, tally, takenFrom>>

Terminal == {"done", "failed"}
Labels   == {"idle", "rg_save", "rg_create", "rm_delete", "sending", "cleaning"}
              \cup Terminal

Step(c, from, to) ==
  /\ pc[c] = from
  /\ pc' = [pc EXCEPT ![c] = to]

Begin(c, o, u, to) ==
  /\ Step(c, "idle", to)
  /\ op' = [op EXCEPT ![c] = o]
  /\ user' = [user EXCEPT ![c] = u]

FindByEndpoint(e) == {d \in subs : endpoint[d] = e}
FindByUser(u)     == {d \in subs : owner[d] = u}

-----------------------------------------------------------------------------
(* register *)

RegisterFind(c) ==
  /\ \E u \in Users, e \in Endpoints :
       /\ endpoint' = [endpoint EXCEPT ![c] = e]
       /\ \/ \E d \in FindByEndpoint(e) :
               /\ Begin(c, "register", u, "rg_save")
               /\ target' = [target EXCEPT ![c] = d]
               /\ seen' = [seen EXCEPT ![c] = owner[d]]
          \/ /\ FindByEndpoint(e) = {}
             /\ Begin(c, "register", u, "rg_create")
             /\ UNCHANGED <<target, seen>>
  /\ UNCHANGED <<subs, owner, gone, tally, takenFrom>>

\* Mutant: the save inserts the document when it is no longer there.
RegisterUpsert(c) ==
  /\ Step(c, "rg_save", "done")
  /\ subs' = subs \cup {target[c]}
  /\ owner' = [owner EXCEPT ![target[c]] = user[c]]
  /\ UNCHANGED <<endpoint, gone, op, call, tally, takenFrom>>

\* Mutant: the subscription is given to itself instead of to the user.
RegisterSaveWrongId(c) ==
  /\ Step(c, "rg_save", "done")
  /\ target[c] \in subs
  /\ owner' = [owner EXCEPT ![target[c]] = target[c]]
  /\ UNCHANGED <<subs, endpoint, gone, op, call, tally, takenFrom>>

\* existing.save() updates the fields that differ from those loaded, and is an
\* error when the document is gone.
RegisterSave(c) ==
  /\ pc[c] = "rg_save"
  /\ \/ /\ target[c] \in subs
        /\ Step(c, "rg_save", "done")
        /\ owner' = IF user[c] # seen[c]
                      THEN [owner EXCEPT ![target[c]] = user[c]] ELSE owner
     \/ /\ target[c] \notin subs
        /\ Step(c, "rg_save", "failed")
        /\ UNCHANGED owner
  /\ UNCHANGED <<subs, endpoint, gone, op, call, tally, takenFrom>>

\* Mutant: the endpoint field has no unique index.
RegisterCreateUnindexed(c) ==
  /\ Step(c, "rg_create", "done")
  /\ subs' = subs \cup {c}
  /\ owner' = [owner EXCEPT ![c] = user[c]]
  /\ UNCHANGED <<endpoint, gone, op, call, tally, takenFrom>>

\* The insert is refused by the unique index when another got there first.
RegisterCreate(c) ==
  /\ pc[c] = "rg_create"
  /\ \/ /\ FindByEndpoint(endpoint[c]) = {}
        /\ Step(c, "rg_create", "done")
        /\ subs' = subs \cup {c}
        /\ owner' = [owner EXCEPT ![c] = user[c]]
     \/ /\ FindByEndpoint(endpoint[c]) # {}
        /\ Step(c, "rg_create", "failed")
        /\ UNCHANGED <<subs, owner>>
  /\ UNCHANGED <<endpoint, gone, op, call, tally, takenFrom>>

(* remove *)

RemoveFind(c) ==
  /\ \E u \in Users, d \in Calls :
       \/ /\ d \in subs /\ owner[d] = u
          /\ Begin(c, "remove", u, "rm_delete")
          /\ target' = [target EXCEPT ![c] = d]
       \/ /\ d \notin subs \/ owner[d] # u
          /\ Begin(c, "remove", u, "failed")
          /\ UNCHANGED target
  /\ UNCHANGED <<docs, gone, seen, tally, takenFrom>>

\* Mutant: the subscriptions of the owner are deleted, not the one loaded.
RemoveDeleteAll(c) ==
  /\ Step(c, "rm_delete", "done")
  /\ subs' = subs \ FindByUser(user[c])
  /\ UNCHANGED <<owner, endpoint, gone, op, call, tally, takenFrom>>

\* deleteById: by id alone, and no error when there is nothing to delete.
RemoveDelete(c) ==
  /\ Step(c, "rm_delete", "done")
  /\ subs' = subs \ {target[c]}
  /\ takenFrom' = IF target[c] \in subs
                    THEN [takenFrom EXCEPT ![c] = owner[target[c]]] ELSE takenFrom
  /\ UNCHANGED <<owner, endpoint, gone, op, call, tally>>

(* send *)

SendFind(c) ==
  /\ \E u \in Users :
       /\ Begin(c, "send", u, IF FindByUser(u) = {} THEN "done" ELSE "sending")
       /\ batch' = [batch EXCEPT ![c] = FindByUser(u)]
  /\ UNCHANGED <<docs, gone, target, seen, sent, failed, expired, deleting, takenFrom>>

\* The documents whose push has not been answered; the rest are in one of the
\* three results.
Unanswered(c) == {d \in batch[c] : d \notin expired[c] /\ d \notin sent[c] \cup failed[c]}

\* Mutant: any failure to deliver is taken for an expired endpoint.
PushAnswerAnyFailure(c, d) ==
  /\ pc[c] = "sending" /\ d \in Unanswered(c)
  /\ \/ /\ endpoint[d] \notin gone
        /\ sent' = [sent EXCEPT ![c] = @ \cup {d}]
        /\ UNCHANGED expired
     \/ /\ expired' = [expired EXCEPT ![c] = @ \cup {d}]
        /\ UNCHANGED sent
  /\ UNCHANGED <<docs, gone, pc, op, call, batch, failed, deleting, takenFrom>>

\* sendWebPush: delivered, refused with 404 or 410, or any other failure.  The
\* document may have been re-assigned or removed since it was found.
PushAnswer(c, d) ==
  /\ pc[c] = "sending" /\ d \in Unanswered(c)
  /\ \/ /\ endpoint[d] \notin gone
        /\ sent' = [sent EXCEPT ![c] = @ \cup {d}]
        /\ UNCHANGED <<failed, expired>>
     \/ /\ endpoint[d] \in gone
        /\ expired' = [expired EXCEPT ![c] = @ \cup {d}]
        /\ UNCHANGED <<sent, failed>>
     \/ /\ failed' = [failed EXCEPT ![c] = @ \cup {d}]
        /\ UNCHANGED <<sent, expired>>
  /\ UNCHANGED <<docs, gone, pc, op, call, batch, deleting, takenFrom>>

\* After the last answer every deletion is issued at once.
SendCleanup(c) ==
  /\ pc[c] = "sending" /\ Unanswered(c) = {}
  /\ Step(c, "sending", IF expired[c] = {} THEN "done" ELSE "cleaning")
  /\ deleting' = [deleting EXCEPT ![c] = expired[c]]
  /\ UNCHANGED <<docs, gone, op, call, batch, sent, failed, expired, takenFrom>>

\* One of them takes effect, whether or not another has failed the call.
SendDelete(c, d) ==
  /\ d \in deleting[c]
  /\ deleting' = [deleting EXCEPT ![c] = @ \ {d}]
  /\ subs' = subs \ {d}
  /\ pc' = IF pc[c] = "cleaning" /\ deleting[c] = {d}
             THEN [pc EXCEPT ![c] = "done"] ELSE pc
  /\ UNCHANGED <<owner, endpoint, gone, op, call, batch, sent, failed, expired,
                 takenFrom>>

\* One of them rejects: Promise.all rejects, the others stay issued.
SendDeleteRejected(c, d) ==
  /\ d \in deleting[c]
  /\ deleting' = [deleting EXCEPT ![c] = @ \ {d}]
  /\ pc' = [pc EXCEPT ![c] = "failed"]
  /\ UNCHANGED <<docs, gone, op, call, batch, sent, failed, expired, takenFrom>>

-----------------------------------------------------------------------------
(* What happens around the calls *)

\* A store command other than a deletion of send rejects.
Fail(c) ==
  /\ pc[c] \in {"rg_save", "rg_create", "rm_delete"}
  /\ pc' = [pc EXCEPT ![c] = "failed"]
  /\ UNCHANGED <<docs, gone, op, call, tally, takenFrom>>

\* The browser unsubscribes; the endpoint never works again.
EndpointGone(e) ==
  /\ e \notin gone
  /\ gone' = gone \cup {e}
  /\ UNCHANGED <<docs, pc, op, call, tally, takenFrom>>

-----------------------------------------------------------------------------
Init ==
  /\ subs = {}
  /\ owner = [c \in Calls |-> None]
  /\ endpoint = [c \in Calls |-> None]
  /\ gone = {}
  /\ pc = [c \in Calls |-> "idle"]
  /\ op = [c \in Calls |-> None]
  /\ user = [c \in Calls |-> None]
  /\ target = [c \in Calls |-> None]
  /\ seen = [c \in Calls |-> None]
  /\ batch = [c \in Calls |-> {}]
  /\ sent = [c \in Calls |-> {}]
  /\ failed = [c \in Calls |-> {}]
  /\ expired = [c \in Calls |-> {}]
  /\ deleting = [c \in Calls |-> {}]
  /\ takenFrom = [c \in Calls |-> None]

Register(c) == RegisterFind(c) \/ RegisterSave(c) \/ RegisterCreate(c)
Remove(c)   == RemoveFind(c) \/ RemoveDelete(c)
Send(c)     ==
  \/ SendFind(c) \/ SendCleanup(c)
  \/ \E d \in Calls : PushAnswer(c, d) \/ SendDelete(c, d) \/ SendDeleteRejected(c, d)

Next ==
  \/ \E c \in Calls : Register(c) \/ Remove(c) \/ Send(c) \/ Fail(c)
  \/ \E e \in Endpoints : EndpointGone(e)

Spec == Init /\ [][Next]_vars

-----------------------------------------------------------------------------
(* Properties *)

\* Documents and calls are what their names say, and every call stands at a
\* known await.
TypeOK ==
  /\ subs \subseteq Calls
  /\ owner \in [Calls -> Users \cup {None}]
  /\ endpoint \in [Calls -> Endpoints \cup {None}]
  /\ gone \subseteq Endpoints
  /\ pc \in [Calls -> Labels]
  /\ op \in [Calls -> {"register", "remove", "send", None}]
  /\ user \in [Calls -> Users \cup {None}]
  /\ target \in [Calls -> Calls \cup {None}]
  /\ seen \in [Calls -> Users \cup {None}]
  /\ batch \in [Calls -> SUBSET Calls]
  /\ sent \in [Calls -> SUBSET Calls]
  /\ failed \in [Calls -> SUBSET Calls]
  /\ expired \in [Calls -> SUBSET Calls]
  /\ deleting \in [Calls -> SUBSET Calls]
  /\ takenFrom \in [Calls -> Users \cup {None}]

\* A device belongs to one account at a time: however many registrations of an
\* endpoint find nothing and insert, one document comes of it.
UniqueEndpoint == \A d, e \in subs : endpoint[d] = endpoint[e] => d = e

\* A send forgets no device that still works: its deletions go by ids found and
\* answered earlier, while owners and documents change under it, and yet what
\* they delete is always a subscription whose endpoint is gone for good.
SendDropsOnlyGone ==
  [][\A c \in Calls : \A d \in deleting[c] :
       d \in subs /\ SendDelete(c, d) => endpoint[d] \in gone]_vars

\* A subscription that was removed, or dropped by a send that ran to its end, is
\* not brought back by a registration that had loaded it before.
RemovedStaysRemoved ==
  \A c \in Calls : pc[c] = "done" =>
    /\ op[c] = "remove" => target[c] \notin subs
    /\ op[c] = "send" => expired[c] \cap subs = {}

\* The document of an endpoint, and its owner.
DocumentOf(e) ==
  IF FindByEndpoint(e) = {} THEN None ELSE CHOOSE d \in FindByEndpoint(e) : TRUE
OwnerOf(e) == IF FindByEndpoint(e) = {} THEN None ELSE owner[DocumentOf(e)]

Registry == INSTANCE DeviceRegistry WITH
  Devices <- Endpoints, Subscriptions <- Calls,
  sub     <- [e \in Endpoints |-> DocumentOf(e)],
  account <- [e \in Endpoints |-> OwnerOf(e)],
  retired <- {d \in Calls \ subs : owner[d] # None}

\* The collection is a registry of devices: whatever the calls have loaded before
\* they write, each write subscribes a free device, hands one over, drops one, or
\* changes nothing, and no id that was deleted is ever a device's again.
ImplementsDevices == Registry!Spec

(* What the documentation promises and the handlers do not keep *)

\* "You can only remove your own push subscriptions" (push.service.ts:52).
OwnerOnlyRemoval ==
  \A c \in Calls : pc[c] = "done" /\ op[c] = "remove" => takenFrom[c] \in {user[c], None}

=============================================================================
