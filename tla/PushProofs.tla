----------------------------- MODULE PushProofs -----------------------------
(***************************************************************************)
(* The safety of PushSubscriptions for any number of calls, users and      *)
(* endpoints, and that it implements DeviceRegistry.                       *)
(***************************************************************************)
EXTENDS PushSubscriptions, TLAPS

-----------------------------------------------------------------------------
(* The inductive invariant *)

\* A document is there, or was once, because its registration has ended; what it
\* has in its fields was asked for.
DocInv ==
  /\ \A d \in subs : owner[d] \in Users /\ endpoint[d] \in Endpoints
  /\ \A d \in Calls : owner[d] # None => op[d] = "register" /\ pc[d] = "done"
  /\ \A c \in Calls : pc[c] \in {"rg_save", "rg_create"} =>
       op[c] = "register" /\ user[c] \in Users /\ endpoint[c] \in Endpoints

\* What a call has loaded was registered once, whatever became of it since.
LoadedInv ==
  \A c \in Calls :
    /\ \A d \in batch[c] : pc[d] = "done"
    /\ op[c] = "remove" /\ pc[c] \in {"rm_delete", "done"} =>
         target[c] \in Calls /\ pc[target[c]] = "done"
    /\ pc[c] = "rm_delete" => op[c] = "remove"

\* A send reports among what it found, deletes among what it reported, and
\* nothing but a send does either.
SendInv ==
  \A c \in Calls :
    /\ expired[c] \subseteq batch[c]
    /\ deleting[c] \subseteq expired[c]
    /\ pc[c] = "idle" => expired[c] = {}
    /\ pc[c] \in {"sending", "cleaning"} \/ deleting[c] # {} => op[c] = "send"
    /\ pc[c] \in {"idle", "sending", "done"} => deleting[c] = {}
    /\ \A d \in expired[c] : endpoint[d] \in gone

\* A removal or a send that has ended left nothing of what it was to delete; a
\* send on its way there has a deletion issued for whatever is left.
RemovedInv ==
  \A c \in Calls :
    /\ op[c] = "remove" /\ pc[c] = "done" => target[c] \notin subs
    /\ op[c] = "send" /\ pc[c] = "done" => expired[c] \cap subs = {}
    /\ op[c] = "send" /\ pc[c] = "cleaning" => expired[c] \cap subs \subseteq deleting[c]

IInv ==
  /\ TypeOK
  /\ DocInv
  /\ LoadedInv
  /\ SendInv
  /\ RemovedInv
  /\ UniqueEndpoint

-----------------------------------------------------------------------------
(* The invariant holds at the start, and every step keeps each part of it *)

\* There is no document and no call has started.
LEMMA IInvInit == Init => IInv
  BY PushAssumption DEF Init, IInv, TypeOK, DocInv, LoadedInv, SendInv, RemovedInv,
     UniqueEndpoint, Labels, Terminal

\* Every step keeps the types.
LEMMA TypeStep == IInv /\ [Next]_vars => TypeOK'
<1> SUFFICES ASSUME IInv, [Next]_vars PROVE TypeOK'
  OBVIOUS
<1> USE PushAssumption
    DEF IInv, Step, Begin, FindByEndpoint, FindByUser, docs, call, tally,
        TypeOK, Labels, Terminal
<1>1. CASE UNCHANGED vars
  BY <1>1 DEF vars
<1>2. ASSUME NEW c \in Calls, Register(c) \/ Remove(c) \/ Fail(c) PROVE TypeOK'
  <2>1. CASE Register(c)
    BY <2>1 DEF Register, RegisterFind, RegisterSave, RegisterCreate
  <2>2. CASE Remove(c)
    BY <2>2 DEF Remove, RemoveFind, RemoveDelete
  <2>3. CASE Fail(c)
    BY <2>3 DEF Fail
  <2> QED
    BY <1>2, <2>1, <2>2, <2>3
<1>3. ASSUME NEW c \in Calls, Send(c) PROVE TypeOK'
  <2>1. CASE SendFind(c)
    BY <2>1 DEF SendFind
  <2>2. CASE SendCleanup(c)
    BY <2>2 DEF SendCleanup, Unanswered
  <2>3. ASSUME NEW d \in Calls, PushAnswer(c, d) PROVE TypeOK'
    BY <2>3 DEF PushAnswer, Unanswered
  <2>4. ASSUME NEW d \in Calls, SendDelete(c, d) PROVE TypeOK'
    BY <2>4 DEF SendDelete
  <2>5. ASSUME NEW d \in Calls, SendDeleteRejected(c, d) PROVE TypeOK'
    BY <2>5 DEF SendDeleteRejected
  <2> QED
    BY <1>3, <2>1, <2>2, <2>3, <2>4, <2>5 DEF Send
<1>4. ASSUME NEW e \in Endpoints, EndpointGone(e) PROVE TypeOK'
  BY <1>4 DEF EndpointGone
<1> QED
  BY <1>1, <1>2, <1>3, <1>4 DEF Next

\* A document comes with the end of its registration, which is where that stays.
LEMMA DocStep == IInv /\ [Next]_vars => DocInv'
<1> SUFFICES ASSUME IInv, [Next]_vars PROVE DocInv'
  OBVIOUS
<1> USE PushAssumption
    DEF IInv, Step, Begin, FindByEndpoint, FindByUser, docs, call, tally,
        TypeOK, DocInv, SendInv
<1>1. CASE UNCHANGED vars
  BY <1>1 DEF vars
<1>2. ASSUME NEW c \in Calls, Register(c) \/ Remove(c) \/ Fail(c) PROVE DocInv'
  <2>1. CASE Register(c)
    BY <2>1 DEF Register, RegisterFind, RegisterSave, RegisterCreate
  <2>2. CASE Remove(c)
    BY <2>2 DEF Remove, RemoveFind, RemoveDelete
  <2>3. CASE Fail(c)
    BY <2>3 DEF Fail
  <2> QED
    BY <1>2, <2>1, <2>2, <2>3
<1>3. ASSUME NEW c \in Calls, Send(c) PROVE DocInv'
  <2>1. CASE SendFind(c)
    BY <2>1 DEF SendFind
  <2>2. CASE SendCleanup(c)
    BY <2>2 DEF SendCleanup, Unanswered
  <2>3. ASSUME NEW d \in Calls, PushAnswer(c, d) PROVE DocInv'
    BY <2>3 DEF PushAnswer, Unanswered
  <2>4. ASSUME NEW d \in Calls, SendDelete(c, d) PROVE DocInv'
    BY <2>4 DEF SendDelete
  <2>5. ASSUME NEW d \in Calls, SendDeleteRejected(c, d) PROVE DocInv'
    BY <2>5 DEF SendDeleteRejected
  <2> QED
    BY <1>3, <2>1, <2>2, <2>3, <2>4, <2>5 DEF Send
<1>4. ASSUME NEW e \in Endpoints, EndpointGone(e) PROVE DocInv'
  BY <1>4 DEF EndpointGone
<1> QED
  BY <1>1, <1>2, <1>3, <1>4 DEF Next

\* Calls load documents, and a registration that has ended does not start again.
LEMMA LoadedStep == IInv /\ [Next]_vars => LoadedInv'
<1> SUFFICES ASSUME IInv, [Next]_vars PROVE LoadedInv'
  OBVIOUS
<1> USE PushAssumption
    DEF IInv, Step, Begin, FindByEndpoint, FindByUser, docs, call, tally,
        TypeOK, DocInv, LoadedInv, SendInv
<1>1. CASE UNCHANGED vars
  BY <1>1 DEF vars
<1>2. ASSUME NEW c \in Calls, Register(c) \/ Remove(c) \/ Fail(c) PROVE LoadedInv'
  <2>1. CASE Register(c)
    BY <2>1 DEF Register, RegisterFind, RegisterSave, RegisterCreate
  <2>2. CASE Remove(c)
    BY <2>2 DEF Remove, RemoveFind, RemoveDelete
  <2>3. CASE Fail(c)
    BY <2>3 DEF Fail
  <2> QED
    BY <1>2, <2>1, <2>2, <2>3
<1>3. ASSUME NEW c \in Calls, Send(c) PROVE LoadedInv'
  <2>1. CASE SendFind(c)
    BY <2>1 DEF SendFind
  <2>2. CASE SendCleanup(c)
    BY <2>2 DEF SendCleanup, Unanswered
  <2>3. ASSUME NEW d \in Calls, PushAnswer(c, d) PROVE LoadedInv'
    BY <2>3 DEF PushAnswer, Unanswered
  <2>4. ASSUME NEW d \in Calls, SendDelete(c, d) PROVE LoadedInv'
    BY <2>4 DEF SendDelete
  <2>5. ASSUME NEW d \in Calls, SendDeleteRejected(c, d) PROVE LoadedInv'
    BY <2>5 DEF SendDeleteRejected
  <2> QED
    BY <1>3, <2>1, <2>2, <2>3, <2>4, <2>5 DEF Send
<1>4. ASSUME NEW e \in Endpoints, EndpointGone(e) PROVE LoadedInv'
  BY <1>4 DEF EndpointGone
<1> QED
  BY <1>1, <1>2, <1>3, <1>4 DEF Next

\* An endpoint that is gone stays gone, and belongs to its document for good.
LEMMA SendStep == IInv /\ [Next]_vars => SendInv'
<1> SUFFICES ASSUME IInv, [Next]_vars PROVE SendInv'
  OBVIOUS
<1> USE PushAssumption
    DEF IInv, Step, Begin, FindByEndpoint, FindByUser, docs, call, tally,
        TypeOK, DocInv, LoadedInv, SendInv
<1>1. CASE UNCHANGED vars
  BY <1>1 DEF vars
<1>2. ASSUME NEW c \in Calls, Register(c) \/ Remove(c) \/ Fail(c) PROVE SendInv'
  <2>1. CASE Register(c)
    BY <2>1 DEF Register, RegisterFind, RegisterSave, RegisterCreate
  <2>2. CASE Remove(c)
    BY <2>2 DEF Remove, RemoveFind, RemoveDelete
  <2>3. CASE Fail(c)
    BY <2>3 DEF Fail
  <2> QED
    BY <1>2, <2>1, <2>2, <2>3
<1>3. ASSUME NEW c \in Calls, Send(c) PROVE SendInv'
  <2>1. CASE SendFind(c)
    BY <2>1 DEF SendFind
  <2>2. CASE SendCleanup(c)
    BY <2>2 DEF SendCleanup, Unanswered
  <2>3. ASSUME NEW d \in Calls, PushAnswer(c, d) PROVE SendInv'
    BY <2>3 DEF PushAnswer, Unanswered
  <2>4. ASSUME NEW d \in Calls, SendDelete(c, d) PROVE SendInv'
    BY <2>4 DEF SendDelete
  <2>5. ASSUME NEW d \in Calls, SendDeleteRejected(c, d) PROVE SendInv'
    BY <2>5 DEF SendDeleteRejected
  <2> QED
    BY <1>3, <2>1, <2>2, <2>3, <2>4, <2>5 DEF Send
<1>4. ASSUME NEW e \in Endpoints, EndpointGone(e) PROVE SendInv'
  BY <1>4 DEF EndpointGone
<1> QED
  BY <1>1, <1>2, <1>3, <1>4 DEF Next

\* A document that was loaded once can only go: no registration makes it again.
LEMMA RemovedStep == IInv /\ [Next]_vars => RemovedInv'
<1> SUFFICES ASSUME IInv, [Next]_vars PROVE RemovedInv'
  OBVIOUS
<1> USE PushAssumption
    DEF IInv, Step, Begin, FindByEndpoint, FindByUser, docs, call, tally,
        TypeOK, DocInv, LoadedInv, SendInv, RemovedInv
<1>1. CASE UNCHANGED vars
  BY <1>1 DEF vars
<1>2. ASSUME NEW c \in Calls, Register(c) \/ Remove(c) \/ Fail(c) PROVE RemovedInv'
  <2>1. CASE Register(c)
    BY <2>1 DEF Register, RegisterFind, RegisterSave, RegisterCreate
  <2>2. CASE Remove(c)
    BY <2>2 DEF Remove, RemoveFind, RemoveDelete
  <2>3. CASE Fail(c)
    BY <2>3 DEF Fail
  <2> QED
    BY <1>2, <2>1, <2>2, <2>3
<1>3. ASSUME NEW c \in Calls, Send(c) PROVE RemovedInv'
  <2>1. CASE SendFind(c)
    BY <2>1 DEF SendFind
  <2>2. CASE SendCleanup(c)
    BY <2>2 DEF SendCleanup, Unanswered
  <2>3. ASSUME NEW d \in Calls, PushAnswer(c, d) PROVE RemovedInv'
    BY <2>3 DEF PushAnswer, Unanswered
  <2>4. ASSUME NEW d \in Calls, SendDelete(c, d) PROVE RemovedInv'
    BY <2>4 DEF SendDelete
  <2>5. ASSUME NEW d \in Calls, SendDeleteRejected(c, d) PROVE RemovedInv'
    BY <2>5 DEF SendDeleteRejected
  <2> QED
    BY <1>3, <2>1, <2>2, <2>3, <2>4, <2>5 DEF Send
<1>4. ASSUME NEW e \in Endpoints, EndpointGone(e) PROVE RemovedInv'
  BY <1>4 DEF EndpointGone
<1> QED
  BY <1>1, <1>2, <1>3, <1>4 DEF Next

\* An insert finds no document of its endpoint, and endpoints of documents stay.
LEMMA UniqueStep == IInv /\ [Next]_vars => UniqueEndpoint'
<1> SUFFICES ASSUME IInv, [Next]_vars PROVE UniqueEndpoint'
  OBVIOUS
<1> USE PushAssumption
    DEF IInv, Step, Begin, FindByEndpoint, FindByUser, docs, call, tally,
        TypeOK, DocInv, UniqueEndpoint
<1>1. CASE UNCHANGED vars
  BY <1>1 DEF vars
<1>2. ASSUME NEW c \in Calls, Register(c) \/ Remove(c) \/ Fail(c) PROVE UniqueEndpoint'
  <2>1. CASE Register(c)
    BY <2>1 DEF Register, RegisterFind, RegisterSave, RegisterCreate
  <2>2. CASE Remove(c)
    BY <2>2 DEF Remove, RemoveFind, RemoveDelete
  <2>3. CASE Fail(c)
    BY <2>3 DEF Fail
  <2> QED
    BY <1>2, <2>1, <2>2, <2>3
<1>3. ASSUME NEW c \in Calls, Send(c) PROVE UniqueEndpoint'
  <2>1. CASE SendFind(c)
    BY <2>1 DEF SendFind
  <2>2. CASE SendCleanup(c)
    BY <2>2 DEF SendCleanup, Unanswered
  <2>3. ASSUME NEW d \in Calls, PushAnswer(c, d) PROVE UniqueEndpoint'
    BY <2>3 DEF PushAnswer, Unanswered
  <2>4. ASSUME NEW d \in Calls, SendDelete(c, d) PROVE UniqueEndpoint'
    BY <2>4 DEF SendDelete
  <2>5. ASSUME NEW d \in Calls, SendDeleteRejected(c, d) PROVE UniqueEndpoint'
    BY <2>5 DEF SendDeleteRejected
  <2> QED
    BY <1>3, <2>1, <2>2, <2>3, <2>4, <2>5 DEF Send
<1>4. ASSUME NEW e \in Endpoints, EndpointGone(e) PROVE UniqueEndpoint'
  BY <1>4 DEF EndpointGone
<1> QED
  BY <1>1, <1>2, <1>3, <1>4 DEF Next

\* The inductive invariant holds in every state the calls reach.
LEMMA Invariance == Spec => []IInv
<1>1. IInv /\ [Next]_vars => IInv'
  BY TypeStep, DocStep, LoadedStep, SendStep, RemovedStep, UniqueStep DEF IInv
<1> QED
  BY <1>1, IInvInit, PTL DEF Spec

-----------------------------------------------------------------------------
(* Theorems *)

\* Documents and calls keep their types for any number of either.
THEOREM TypeCorrectness == Spec => []TypeOK
<1>1. IInv => TypeOK
  BY DEF IInv
<1> QED
  BY <1>1, Invariance, PTL

\* However many registrations of a browser overlap, one document comes of them,
\* and it has one owner.
THEOREM EndpointsAreUnique == Spec => []UniqueEndpoint
<1>1. IInv => UniqueEndpoint
  BY DEF IInv
<1> QED
  BY <1>1, Invariance, PTL

\* What a removal or a completed send took away no registration brings back.
THEOREM RemovalIsFinal == Spec => []RemovedStaysRemoved
<1>1. IInv => RemovedStaysRemoved
  BY DEF IInv, RemovedInv, RemovedStaysRemoved
<1> QED
  BY <1>1, Invariance, PTL

\* A send deletes only subscriptions whose endpoint is gone for good, however the
\* documents it found have changed hands since.
THEOREM OnlyGoneDropped == Spec => SendDropsOnlyGone
<1>1. ASSUME IInv
      PROVE  [\A c \in Calls : \A d \in deleting[c] :
                d \in subs /\ SendDelete(c, d) => endpoint[d] \in gone]_vars
  BY <1>1 DEF IInv, SendInv
<1> QED
  BY <1>1, Invariance, PTL DEF Spec, SendDropsOnlyGone

-----------------------------------------------------------------------------
(* Refinement *)

\* What the mapping makes of a collection in which endpoints are unique: the
\* document of an endpoint is the one that has it.
MappingInv ==
  /\ \A d \in subs : DocumentOf(endpoint[d]) = d /\ OwnerOf(endpoint[d]) = owner[d]
  /\ \A e \in Endpoints : (\A d \in subs : endpoint[d] # e) =>
       DocumentOf(e) = None /\ OwnerOf(e) = None

\* No two documents share an endpoint, so there is nothing to choose from.
LEMMA DocumentsOfEndpoints == IInv => MappingInv
<1> SUFFICES ASSUME IInv PROVE MappingInv
  OBVIOUS
<1>1. ASSUME NEW d \in subs
      PROVE  DocumentOf(endpoint[d]) = d /\ OwnerOf(endpoint[d]) = owner[d]
  <2>1. FindByEndpoint(endpoint[d]) = {d}
    BY DEF IInv, UniqueEndpoint, FindByEndpoint
  <2>2. DocumentOf(endpoint[d]) = d
    BY <2>1 DEF DocumentOf
  <2> QED
    BY <2>1, <2>2 DEF OwnerOf
<1>2. ASSUME NEW e \in Endpoints, \A d \in subs : endpoint[d] # e
      PROVE  DocumentOf(e) = None /\ OwnerOf(e) = None
  <2>1. FindByEndpoint(e) = {}
    BY <1>2 DEF FindByEndpoint
  <2> QED
    BY <2>1 DEF DocumentOf, OwnerOf
<1> QED
  BY <1>1, <1>2 DEF MappingInv

\* A deletion drops the device of the document, if it is still there.
LEMMA DeletionDrops ==
  ASSUME IInv, IInv', NEW d \in Calls, subs' = subs \ {d}, UNCHANGED <<owner, endpoint>>
  PROVE  [Registry!Next]_(Registry!vars)
<1> USE PushAssumption
<1>0. /\ subs \subseteq Calls
      /\ \A x \in subs : owner[x] # None /\ endpoint[x] \in Endpoints
  BY DEF IInv, TypeOK, DocInv
<1>1. MappingInv /\ MappingInv'
  BY DocumentsOfEndpoints, PTL
<1>3. CASE d \in subs
  <2>1. PICK e \in Endpoints : e = endpoint[d]
    BY <1>0, <1>3
  <2>2. \A f \in Endpoints :
          /\ DocumentOf(f)' = IF f = e THEN None ELSE DocumentOf(f)
          /\ OwnerOf(f)' = IF f = e THEN None ELSE OwnerOf(f)
    BY <1>0, <1>1, <1>3, <2>1 DEF IInv, UniqueEndpoint, MappingInv
  <2>3. {x \in Calls \ subs' : owner'[x] # None}
          = {x \in Calls \ subs : owner[x] # None} \cup {d}
    BY <1>0, <1>3
  <2>4. DocumentOf(e) = d /\ d # None
    BY <1>1, <1>3, <2>1 DEF MappingInv
  <2>5. Registry!Drop(e)
    BY <2>2, <2>3, <2>4 DEF Registry!Drop
  <2> QED
    BY <2>5 DEF Registry!Next
<1>4. CASE d \notin subs
  <2>1. subs' = subs
    BY <1>4
  <2>2. \A e \in Endpoints : DocumentOf(e)' = DocumentOf(e) /\ OwnerOf(e)' = OwnerOf(e)
    BY <1>1, <2>1 DEF MappingInv
  <2> QED
    BY <2>1, <2>2 DEF Registry!vars
<1> QED
  BY <1>3, <1>4

\* What leaves the documents alone leaves the registry alone.
LEMMA RegistryStutters ==
  ASSUME IInv, IInv', UNCHANGED <<subs, owner>>,
         \A d \in subs : endpoint'[d] = endpoint[d]
  PROVE  UNCHANGED Registry!vars
<1>1. MappingInv /\ MappingInv'
  BY DocumentsOfEndpoints, PTL
<1>2. \A d \in subs : endpoint[d] \in Endpoints
  BY DEF IInv, DocInv
<1>3. \A e \in Endpoints : DocumentOf(e)' = DocumentOf(e) /\ OwnerOf(e)' = OwnerOf(e)
  BY <1>1, <1>2 DEF MappingInv
<1> QED
  BY <1>3 DEF Registry!vars

\* A registration that finds its browser hands the device over, or finds it is too
\* late: the document has gone, or has been given away and back.
LEMMA SaveTransfers ==
  ASSUME IInv, IInv', NEW c \in Calls, RegisterSave(c)
  PROVE  [Registry!Next]_(Registry!vars)
<1> USE PushAssumption
<1>0. /\ subs \subseteq Calls /\ subs' = subs /\ endpoint' = endpoint
      /\ \A x \in subs : owner[x] # None /\ endpoint[x] \in Endpoints
      /\ owner \in [Calls -> Users \cup {None}]
  BY DEF IInv, TypeOK, DocInv, RegisterSave
<1>1. MappingInv /\ MappingInv'
  BY DocumentsOfEndpoints, PTL
<1>2. CASE owner' = owner
  BY <1>0, <1>2, RegistryStutters
<1>3. CASE owner' # owner
  <2>1. /\ target[c] \in subs /\ user[c] \in Users
        /\ owner' = [owner EXCEPT ![target[c]] = user[c]]
    BY <1>3 DEF RegisterSave, Step, IInv, DocInv
  <2>2. PICK d \in subs, u \in Users : d = target[c] /\ u = user[c]
    BY <2>1
  <2>3. PICK e \in Endpoints : e = endpoint[d]
    BY <1>0, <2>2
  <2>4. owner' = [owner EXCEPT ![d] = u]
    BY <2>1, <2>2
  <2>5. \A f \in Endpoints :
          /\ DocumentOf(f)' = DocumentOf(f)
          /\ OwnerOf(f)' = IF f = e THEN u ELSE OwnerOf(f)
    BY <1>0, <1>1, <2>3, <2>4 DEF IInv, UniqueEndpoint, MappingInv
  <2>6. {x \in Calls \ subs' : owner'[x] # None} = {x \in Calls \ subs : owner[x] # None}
    BY <1>0, <2>2, <2>4
  <2>7. DocumentOf(e) = d /\ d # None
    BY <1>0, <1>1, <2>3 DEF MappingInv
  <2>8. Registry!Transfer(e, u)
    BY <2>5, <2>6, <2>7 DEF Registry!Transfer
  <2> QED
    BY <2>8 DEF Registry!Next
<1> QED
  BY <1>2, <1>3

\* A registration that found nothing subscribes the device, unless another has.
LEMMA CreateSubscribes ==
  ASSUME IInv, IInv', NEW c \in Calls, RegisterCreate(c)
  PROVE  [Registry!Next]_(Registry!vars)
<1> USE PushAssumption
<1>0. /\ subs \subseteq Calls /\ endpoint' = endpoint
      /\ \A x \in subs : x # c /\ endpoint[x] \in Endpoints
      /\ owner \in [Calls -> Users \cup {None}] /\ owner[c] = None
  BY DEF IInv, TypeOK, DocInv, RegisterCreate, Step
<1>1. MappingInv /\ MappingInv'
  BY DocumentsOfEndpoints, PTL
<1>2. CASE UNCHANGED <<subs, owner>>
  BY <1>0, <1>2, RegistryStutters
<1>3. CASE ~UNCHANGED <<subs, owner>>
  <2>1. /\ \A x \in subs : endpoint[x] # endpoint[c]
        /\ endpoint[c] \in Endpoints /\ user[c] \in Users
        /\ subs' = subs \cup {c}
        /\ owner' = [owner EXCEPT ![c] = user[c]]
    BY <1>3 DEF RegisterCreate, Step, FindByEndpoint, IInv, DocInv
  <2>2. PICK e \in Endpoints, u \in Users : e = endpoint[c] /\ u = user[c]
    BY <2>1
  <2>3. owner' = [owner EXCEPT ![c] = u]
    BY <2>1, <2>2
  <2>4. \A f \in Endpoints :
          /\ DocumentOf(f)' = IF f = e THEN c ELSE DocumentOf(f)
          /\ OwnerOf(f)' = IF f = e THEN u ELSE OwnerOf(f)
    BY <1>0, <1>1, <2>1, <2>2, <2>3 DEF MappingInv
  <2>5. {x \in Calls \ subs' : owner'[x] # None} = {x \in Calls \ subs : owner[x] # None}
    BY <1>0, <2>1, <2>3
  <2>6. DocumentOf(e) = None /\ \A f \in Endpoints : DocumentOf(f) # c
    <3>1. DocumentOf(e) = None
      BY <1>1, <2>1, <2>2 DEF MappingInv
    <3>2. ASSUME NEW f \in Endpoints PROVE DocumentOf(f) # c
      <4>1. CASE \E x \in subs : endpoint[x] = f
        BY <1>0, <1>1, <4>1 DEF MappingInv
      <4>2. CASE \A x \in subs : endpoint[x] # f
        BY <1>1, <4>2 DEF MappingInv
      <4> QED
        BY <4>1, <4>2
    <3> QED
      BY <3>1, <3>2
  <2>7. c \notin {x \in Calls \ subs : owner[x] # None}
    BY <1>0
  <2>8. Registry!Subscribe(e, u, c)
    BY <2>4, <2>5, <2>6, <2>7 DEF Registry!Subscribe
  <2> QED
    BY <2>8 DEF Registry!Next
<1> QED
  BY <1>2, <1>3

\* Every step of a call is a step of the registry, or leaves it alone.
LEMMA StepRefines ==
  ASSUME IInv, IInv', [Next]_vars
  PROVE  [Registry!Next]_(Registry!vars)
<1> USE DEF docs
<1>1. CASE UNCHANGED vars
  BY <1>1, RegistryStutters DEF vars
<1>2. ASSUME NEW c \in Calls, RegisterFind(c)
      PROVE  UNCHANGED Registry!vars
  <2>1. /\ UNCHANGED <<subs, owner>>
        /\ pc[c] = "idle" /\ \E e \in Endpoints : endpoint' = [endpoint EXCEPT ![c] = e]
    BY <1>2 DEF RegisterFind, Begin, Step
  <2>2. \A d \in subs : d # c /\ d \in Calls
    BY <2>1, PushAssumption DEF IInv, TypeOK, DocInv
  <2>3. \A d \in subs : endpoint'[d] = endpoint[d]
    BY <2>1, <2>2 DEF IInv, TypeOK
  <2> QED
    BY <2>1, <2>3, RegistryStutters
<1>3. ASSUME NEW c \in Calls, RegisterSave(c) \/ RegisterCreate(c)
      PROVE  [Registry!Next]_(Registry!vars)
  BY <1>3, SaveTransfers, CreateSubscribes
<1>4. ASSUME NEW c \in Calls, RemoveDelete(c)
      PROVE  [Registry!Next]_(Registry!vars)
  <2>1. target[c] \in Calls
    BY <1>4 DEF RemoveDelete, Step, IInv, LoadedInv
  <2>2. PICK d \in Calls : d = target[c]
    BY <2>1
  <2>3. subs' = subs \ {d} /\ UNCHANGED <<owner, endpoint>>
    BY <1>4, <2>2 DEF RemoveDelete
  <2> QED
    BY <2>3, DeletionDrops
<1>5. ASSUME NEW c \in Calls, NEW d \in Calls, SendDelete(c, d)
      PROVE  [Registry!Next]_(Registry!vars)
  BY <1>5, DeletionDrops DEF SendDelete
<1>6. ASSUME NEW c \in Calls,
             \/ RemoveFind(c) \/ SendFind(c) \/ SendCleanup(c) \/ Fail(c)
             \/ \E d \in Calls : PushAnswer(c, d) \/ SendDeleteRejected(c, d)
      PROVE  UNCHANGED Registry!vars
  <2>1. UNCHANGED docs
    BY <1>6 DEF RemoveFind, SendFind, SendCleanup, Fail, PushAnswer, SendDeleteRejected
  <2> QED
    BY <2>1, RegistryStutters
<1>7. ASSUME NEW e \in Endpoints, EndpointGone(e) PROVE UNCHANGED Registry!vars
  BY <1>7, RegistryStutters DEF EndpointGone
<1> QED
  BY <1>1, <1>2, <1>3, <1>4, <1>5, <1>6, <1>7 DEF Next, Register, Remove, Send

\* The collection implements a registry in which a device is one account's at a
\* time and a subscription, once dropped, is over: for any number of calls, each
\* writing what it made of documents it loaded any number of steps before.
THEOREM RegistryRefinement == Spec => ImplementsDevices
<1>1. Init => Registry!Init
  <2> SUFFICES ASSUME Init PROVE Registry!Init
    OBVIOUS
  <2>1. \A e \in Endpoints : DocumentOf(e) = None /\ OwnerOf(e) = None
    BY DEF Init, DocumentOf, OwnerOf, FindByEndpoint
  <2>2. {d \in Calls \ subs : owner[d] # None} = {}
    BY DEF Init
  <2> QED
    BY <2>1, <2>2 DEF Registry!Init
<1>2. IInv /\ IInv' /\ [Next]_vars => [Registry!Next]_(Registry!vars)
  BY StepRefines
<1> QED
  BY <1>1, <1>2, Invariance, PTL DEF Spec, ImplementsDevices, Registry!Spec

=============================================================================
