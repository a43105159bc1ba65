--------------------------- MODULE Notifications ---------------------------
(***************************************************************************)
(* src/modules/notification and src/sockets: a notification is written to  *)
(* Mongo, then emitted to the sockets in the recipient's room; clients     *)
(* connect, read their list page by page, and mark notifications read.     *)
(*                                                                         *)
(* create() stamps a notification with a time to the millisecond: two may   *)
(* share it, and they need not reach the collection in its order.          *)
(***************************************************************************)
EXTENDS Integers, FiniteSets
CONSTANTS
  MaxNotes,  \* notifications created: a bound for TLC
  Users,
  Clients,   \* browser tabs: a socket and a reader of the list
  Markers,   \* calls of markAllAsRead
  UserOf,    \* whose tab or call each of those is
  Limit,     \* page size
  None

ASSUME NotificationAssumption ==
  /\ MaxNotes \in Nat /\ Limit \in Nat \ {0}
  /\ UserOf \in [Clients \cup Markers -> Users]
  /\ None \notin Users

Notes == 1..MaxNotes

VARIABLES
  recipient, at,  \* of each notification: whom for, and where create() is
  createdAt,      \* and its stamp, 0 before it has one
  stored, read,   \* the documents in the collection; those with isRead
  room,           \* the clients whose socket is in its user's room
  got,            \* what a client's socket has received
  page, listed,   \* the pages a client has asked for, what was on them
  ended,          \* its last page was not full
  base, early,    \* history: stored when it asked for the first; room before
  marking, marked, owed  \* a markAllAsRead: under way, modified, yet to visit

notes   == <<recipient, at, createdAt, stored, read>>
clients == <<room, got, page, listed, ended, base, early>>
markers == <<marking, marked, owed>>
vars    == <<notes, clients, markers>>

Of(u) == {n \in stored : recipient[n] = u}

-----------------------------------------------------------------------------
(* create *)

\* The milliseconds that matter: the one of the notification before, or a later.
Moments(n) == IF n = 1 THEN {1} ELSE {createdAt[n - 1], createdAt[n - 1] + 1}

\* Mongoose stamps createdAt and sends the insert.
Create(n) ==
  /\ at[n] = "none" /\ \A m \in 1..(n - 1) : at[m] # "none"
  /\ \E u \in Users : recipient' = [recipient EXCEPT ![n] = u]
  /\ \E t \in Moments(n) : createdAt' = [createdAt EXCEPT ![n] = t]
  /\ at' = [at EXCEPT ![n] = "insert"]
  /\ UNCHANGED <<stored, read, clients, markers>>

Insert(n) ==
  /\ at[n] = "insert"
  /\ \/ /\ at' = [at EXCEPT ![n] = "emit"]
        /\ stored' = stored \cup {n}
     \/ /\ at' = [at EXCEPT ![n] = "failed"]
        /\ UNCHANGED stored
  /\ UNCHANGED <<recipient, createdAt, read, clients, markers>>

\* Mutant: emit goes first, while the document is on its way.
EmitFirst(n) ==
  /\ at[n] = "insert"
  /\ at' = [at EXCEPT ![n] = "emit"]
  /\ got' = [c \in Clients |-> IF c \in room /\ UserOf[c] = recipient[n]
                                 THEN got[c] \cup {n} ELSE got[c]]
  /\ UNCHANGED <<recipient, createdAt, stored, read, room, page, listed, ended, base,
                 early, markers>>

InsertLast(n) ==
  /\ at[n] = "emit"
  /\ at' = [at EXCEPT ![n] = "done"]
  /\ stored' = stored \cup {n}
  /\ UNCHANGED <<recipient, createdAt, read, clients, markers>>

MisorderedCreating(n) == Create(n) \/ EmitFirst(n) \/ InsertLast(n)

\* emit, to whoever is in the room now; the web push goes off on its own.
Emit(n) ==
  /\ at[n] = "emit"
  /\ at' = [at EXCEPT ![n] = "done"]
  /\ got' = [c \in Clients |-> IF c \in room /\ UserOf[c] = recipient[n]
                                 THEN got[c] \cup {n} ELSE got[c]]
  /\ UNCHANGED <<recipient, createdAt, stored, read, room, page, listed, ended, base,
                 early, markers>>

Creating(n) == Create(n) \/ Insert(n) \/ Emit(n)

-----------------------------------------------------------------------------
(* sockets *)

Connect(c) ==
  /\ c \notin room
  /\ room' = room \cup {c}
  /\ UNCHANGED <<notes, got, page, listed, ended, base, early, markers>>

\* What is emitted while the socket is away is not sent again.
Disconnect(c) ==
  /\ c \in room
  /\ room' = room \ {c}
  /\ early' = early \ {c}
  /\ UNCHANGED <<notes, got, page, listed, ended, base, markers>>

-----------------------------------------------------------------------------
(* list *)

\* How many of S must stand before n when the newest come first.
Newer(S, n) == {m \in S : createdAt[m] > createdAt[n]}
Rank(S, n)  == Cardinality(Newer(S, n))

\* sort({ createdAt: -1 }) gives each of S a place, and says nothing of two with
\* one createdAt: each query may put them either way round.
Sorted(S) ==
  {place \in [S -> 0 .. Cardinality(S) - 1] :
     /\ \A m, n \in S : place[m] = place[n] => m = n
     /\ \A m, n \in S : createdAt[m] > createdAt[n] => place[m] < place[n]}

\* skip (p - 1) * limit of them, take limit.
Slice(S, place, p) == {n \in S : place[n] \in (p - 1) * Limit .. p * Limit - 1}

\* Mutant: the list is of the unread only.
UnreadPages(u, p) ==
  {Slice(Of(u) \ read, place, p) : place \in Sorted(Of(u) \ read)}

\* findMany: what a page of the user's list may hold.
Pages(u, p) == {Slice(Of(u), place, p) : place \in Sorted(Of(u))}

\* The client asks for the next page.
List(c) ==
  /\ ~ended[c]
  /\ \E items \in Pages(UserOf[c], page[c] + 1) :
       /\ listed' = [listed EXCEPT ![c] = @ \cup items]
       /\ ended' = [ended EXCEPT ![c] = Cardinality(items) < Limit]
  /\ page' = [page EXCEPT ![c] = @ + 1]
  /\ base' = IF page[c] = 0 THEN [base EXCEPT ![c] = Of(UserOf[c])] ELSE base
  /\ early' = IF page[c] = 0 /\ c \in room THEN early \cup {c} ELSE early
  /\ UNCHANGED <<notes, room, got, markers>>

-----------------------------------------------------------------------------
(* read marks *)

\* Mutant: the update is an upsert, and leaves a mark without a notification.
MarkAsReadUpsert(n) ==
  /\ read' = read \cup {n}
  /\ UNCHANGED <<recipient, at, createdAt, stored, clients, markers>>

\* findByIdAndUpdate, of any notification there is.
MarkAsRead(n) ==
  /\ n \in stored
  /\ read' = read \cup {n}
  /\ UNCHANGED <<recipient, at, createdAt, stored, clients, markers>>

\* updateMany visits at least what was there when it started ...
MarkAll(k) ==
  /\ marking[k] = "none"
  /\ marking' = [marking EXCEPT ![k] = "running"]
  /\ owed' = [owed EXCEPT ![k] = Of(UserOf[k]) \ read]
  /\ UNCHANGED <<notes, clients, marked>>

\* Mutant: the filter asks for the recipient only.
MarkAllVisitAny(k) ==
  \E n \in Of(UserOf[k]) :
    /\ marking[k] = "running"
    /\ read' = read \cup {n}
    /\ marked' = [marked EXCEPT ![k] = @ \cup {n}]
    /\ UNCHANGED <<recipient, at, createdAt, stored, clients, marking, owed>>

\* ... one document at a time, each if it is still unread when it is its turn.
MarkAllVisit(k) ==
  \E n \in Of(UserOf[k]) \ read :
    /\ marking[k] = "running"
    /\ read' = read \cup {n}
    /\ marked' = [marked EXCEPT ![k] = @ \cup {n}]
    /\ UNCHANGED <<recipient, at, createdAt, stored, clients, marking, owed>>

MarkAllDone(k) ==
  /\ marking[k] = "running" /\ owed[k] \subseteq read
  /\ marking' = [marking EXCEPT ![k] = "done"]
  /\ UNCHANGED <<notes, clients, marked, owed>>

-----------------------------------------------------------------------------
Init ==
  /\ recipient = [n \in Notes |-> None]
  /\ at = [n \in Notes |-> "none"]
  /\ createdAt = [n \in Notes |-> 0]
  /\ stored = {} /\ read = {}
  /\ room = {} /\ early = {}
  /\ got = [c \in Clients |-> {}]
  /\ page = [c \in Clients |-> 0]
  /\ listed = [c \in Clients |-> {}]
  /\ ended = [c \in Clients |-> FALSE]
  /\ base = [c \in Clients |-> {}]
  /\ marking = [k \in Markers |-> "none"]
  /\ marked = [k \in Markers |-> {}]
  /\ owed = [k \in Markers |-> {}]

Client(c) == Connect(c) \/ Disconnect(c) \/ List(c)
Marker(k) == MarkAll(k) \/ MarkAllVisit(k) \/ MarkAllDone(k)

Next ==
  \/ \E n \in Notes : Creating(n) \/ MarkAsRead(n)
  \/ \E c \in Clients : Client(c)
  \/ \E k \in Markers : Marker(k)

Spec == Init /\ [][Next]_vars

-----------------------------------------------------------------------------
(* Properties *)

\* Every variable keeps its type.
TypeOK ==
  /\ recipient \in [Notes -> Users \cup {None}]
  /\ at \in [Notes -> {"none", "insert", "emit", "done", "failed"}]
  /\ createdAt \in [Notes -> Nat]
  /\ stored \subseteq Notes /\ read \subseteq stored
  /\ room \subseteq Clients /\ early \subseteq Clients
  /\ got \in [Clients -> SUBSET Notes] /\ listed \in [Clients -> SUBSET Notes]
  /\ base \in [Clients -> SUBSET Notes]
  /\ page \in [Clients -> Nat] /\ ended \in [Clients -> BOOLEAN]
  /\ marking \in [Markers -> {"none", "running", "done"}]
  /\ marked \in [Markers -> SUBSET Notes] /\ owed \in [Markers -> SUBSET Notes]

\* Another notification of the same user has the same createdAt.
Tied(n) == \E m \in Of(recipient[n]) \ {n} : createdAt[m] = createdAt[n]

\* A client that connects its socket and then reads its list to the end knows
\* every notification of its user that is alone on its createdAt: one that is not
\* on the pages was stored after they were read, and is emitted after that.
NothingMissed ==
  \A c \in early : ended[c] =>
    \A n \in Notes : at[n] = "done" /\ recipient[n] = UserOf[c] =>
      n \in got[c] \cup listed[c] \/ Tied(n)

\* Turning pages skips nothing that was there when the first one was read and is
\* alone on its createdAt, whatever is created, arrives late or is marked read in
\* between. (Of two that share it, each page may put the other one first.)
PagesSkipNothing ==
  \A c \in Clients : ended[c] => \A n \in base[c] : n \in listed[c] \/ Tied(n)

\* The modifiedCounts answered to concurrent callers of read-all add up: no
\* notification is counted by two.
ModifiedOnce == \A j, k \in Markers : j # k => marked[j] \cap marked[k] = {}

=============================================================================
