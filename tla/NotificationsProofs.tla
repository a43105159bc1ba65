------------------------ MODULE NotificationsProofs ------------------------
(***************************************************************************)
(* The safety of Notifications for any number of notifications, users,     *)
(* tabs and callers of read-all, and any page size.                        *)
(***************************************************************************)
EXTENDS Notifications, FiniteSetTheorems, TLAPS

-----------------------------------------------------------------------------
(* Places in a list that is sorted newest first *)

\* How many stand before a notification is a number.
LEMMA RankIsNat ==
  ASSUME NEW S, IsFiniteSet(S), NEW n
  PROVE  IsFiniteSet(Newer(S, n)) /\ Rank(S, n) \in Nat
<1>1. Newer(S, n) \in SUBSET S
  BY DEF Newer
<1>2. IsFiniteSet(Newer(S, n))
  BY <1>1, FS_Subset
<1> QED
  BY <1>2, FS_CardinalityType DEF Rank

\* Whatever order a query gives to ties, it leaves no place empty.
LEMMA PlacesAreTaken ==
  ASSUME NEW S, IsFiniteSet(S), NEW place \in Sorted(S),
         NEW k \in 0 .. Cardinality(S) - 1
  PROVE  \E m \in S : place[m] = k
<1> DEFINE R == 0 .. Cardinality(S) - 1
<1>1. Cardinality(S) \in Nat
  BY FS_CardinalityType
<1>2. IsFiniteSet(R) /\ Cardinality(R) = Cardinality(S)
  BY <1>1, FS_Interval
<1>3. place \in Injection(S, R)
  BY DEF Sorted, Injection, IsInjective
<1> HIDE DEF R
<1>4. place \in Surjection(S, R)
  BY <1>2, <1>3, FS_Injection
<1> QED
  BY <1>4 DEF Surjection, R

\* A notification that is alone on its createdAt has one place in every order.
LEMMA UntiedHasOnePlace ==
  ASSUME NEW S, IsFiniteSet(S), \A m \in S : createdAt[m] \in Nat,
         NEW place \in Sorted(S), NEW n \in S,
         \A m \in S \ {n} : createdAt[m] # createdAt[n]
  PROVE  place[n] = Rank(S, n)
<1> DEFINE N == Newer(S, n)
           R == 0 .. place[n] - 1
           f == [m \in N |-> place[m]]
<1>1. /\ \A m \in S : place[m] \in 0 .. Cardinality(S) - 1
      /\ Cardinality(S) \in Nat
  BY FS_CardinalityType DEF Sorted
<1>2. \A m \in S : place[m] \in Nat
  BY <1>1
<1>3. \A m \in N : m \in S /\ place[m] < place[n]
  BY DEF Newer, Sorted
<1>4. f \in [N -> R]
  BY <1>2, <1>3
<1>5. \A x \in N, y \in N : f[x] = f[y] => x = y
  BY <1>3 DEF Sorted
<1>6. \A k \in R : \E m \in N : f[m] = k
  <2> SUFFICES ASSUME NEW k \in R PROVE \E m \in N : f[m] = k
    OBVIOUS
  <2>1. k \in 0 .. Cardinality(S) - 1 /\ k < place[n]
    BY <1>1
  <2>2. PICK m \in S : place[m] = k
    BY <2>1, PlacesAreTaken
  <2>3. m # n /\ ~(place[n] < place[m])
    BY <1>2, <2>1, <2>2
  <2>4. ~(createdAt[n] > createdAt[m])
    BY <2>3 DEF Sorted
  <2>5. createdAt[m] > createdAt[n]
    BY <2>3, <2>4
  <2> QED
    BY <2>2, <2>5 DEF Newer
<1>7. ExistsBijection(N, R)
  BY <1>4, <1>5, <1>6 DEF ExistsBijection, Bijection, Injection, Surjection, IsInjective
<1>8. IsFiniteSet(R) /\ Cardinality(R) = place[n]
  BY <1>2, FS_Interval
<1>9. IsFiniteSet(N) /\ Rank(S, n) = Cardinality(N)
  BY RankIsNat DEF Rank
<1> HIDE DEF N, R, f
<1>10. Cardinality(N) = Cardinality(R)
  BY <1>7, <1>8, <1>9, FS_Bijection
<1> QED
  BY <1>8, <1>9, <1>10

\* A page with something beyond it is full.
LEMMA PageIsFull ==
  ASSUME NEW S, IsFiniteSet(S), NEW place \in Sorted(S), NEW n \in S,
         NEW a \in Nat, NEW b \in Nat, a < b, b <= place[n]
  PROVE  Cardinality({m \in S : place[m] \in a .. b - 1}) >= b - a
<1> DEFINE P == {m \in S : place[m] \in a .. b - 1}
           R == a .. b - 1
           f == [m \in P |-> place[m]]
<1>1. f \in [P -> R]
  OBVIOUS
<1>2. \A k \in R : \E m \in P : f[m] = k
  <2> SUFFICES ASSUME NEW k \in R PROVE \E m \in P : f[m] = k
    OBVIOUS
  <2>1. place[n] \in 0 .. Cardinality(S) - 1 /\ Cardinality(S) \in Nat
    BY FS_CardinalityType DEF Sorted
  <2>2. k \in 0 .. Cardinality(S) - 1
    BY <2>1
  <2> QED
    BY <2>2, PlacesAreTaken
<1>3. f \in Surjection(P, R)
  BY <1>1, <1>2 DEF Surjection
<1>4. Cardinality(R) = b - a
  BY FS_Interval
<1>5. P \in SUBSET S
  OBVIOUS
<1> HIDE DEF P, R, f
<1>6. IsFiniteSet(P)
  BY <1>5, FS_Subset
<1>7. Cardinality(R) <= Cardinality(P) /\ Cardinality(P) \in Nat
  BY <1>3, <1>6, FS_Surjection, FS_CardinalityType
<1> QED
  BY <1>4, <1>7 DEF P

-----------------------------------------------------------------------------
(* The inductive invariant *)

\* What is stored has a recipient for good, and is stored before it is emitted.
CreateInv ==
  /\ \A n \in stored : at[n] \in {"emit", "done"}
  /\ \A n \in Notes : at[n] \in {"emit", "done"} => n \in stored

\* Each notification of the first page's time is listed, still ahead, or tied.
PageInv ==
  \A c \in Clients :
    /\ base[c] \subseteq Of(UserOf[c])
    /\ page[c] = 0 => base[c] = {}
    /\ \A n \in base[c] :
         \/ n \in listed[c]
         \/ Rank(Of(UserOf[c]), n) >= page[c] * Limit
         \/ Tied(n)

\* A tab that was connected before it read its list was sent whatever had not
\* been stored by then.
SocketInv ==
  \A c \in early :
    /\ c \in room /\ page[c] > 0
    /\ \A n \in Notes : at[n] = "done" /\ recipient[n] = UserOf[c] =>
         n \in got[c] \cup base[c]

\* What a read-all has counted is read.
MarkInv == \A k \in Markers : marked[k] \subseteq read

IInv ==
  /\ TypeOK
  /\ CreateInv
  /\ PageInv
  /\ SocketInv
  /\ PagesSkipNothing
  /\ MarkInv
  /\ ModifiedOnce

-----------------------------------------------------------------------------
(* The invariant holds at the start, and every step keeps each part of it *)

\* Nothing is created, read or asked for.
LEMMA IInvInit == Init => IInv
  BY DEF Init, IInv, TypeOK, CreateInv, PageInv, SocketInv, PagesSkipNothing,
         MarkInv, ModifiedOnce, Of

\* Lists are finite sets of numbers.
LEMMA ListsAreFinite ==
  ASSUME TypeOK, NEW u
  PROVE  Of(u) \in SUBSET Notes /\ IsFiniteSet(Of(u))
<1>1. Notes \in SUBSET Nat /\ IsFiniteSet(Notes)
  BY NotificationAssumption, FS_Interval DEF Notes
<1>2. Of(u) \in SUBSET Notes
  BY DEF TypeOK, Of
<1> QED
  BY <1>1, <1>2, FS_Subset

\* Every step keeps the types.
LEMMA TypeStep == IInv /\ [Next]_vars => TypeOK'
<1> SUFFICES ASSUME IInv, [Next]_vars PROVE TypeOK'
  OBVIOUS
<1> USE NotificationAssumption
    DEF IInv, TypeOK, notes, clients, markers
<1>1. CASE UNCHANGED vars
  BY <1>1 DEF vars
<1>2. ASSUME NEW n \in Notes, Creating(n) \/ MarkAsRead(n) PROVE TypeOK'
  <2>1. CASE Create(n)
    <3>1. n # 1 => n - 1 \in Notes
      BY DEF Notes
    <3>2. \A t \in Moments(n) : t \in Nat
      BY <3>1 DEF Moments
    <3> QED
      BY <2>1, <3>2 DEF Create
  <2>2. CASE Insert(n)
    BY <2>2 DEF Insert
  <2>3. CASE Emit(n)
    BY <2>3 DEF Emit
  <2>4. CASE MarkAsRead(n)
    BY <2>4 DEF MarkAsRead
  <2> QED
    BY <1>2, <2>1, <2>2, <2>3, <2>4 DEF Creating
<1>3. ASSUME NEW c \in Clients, Client(c) PROVE TypeOK'
  <2>1. CASE Connect(c) \/ Disconnect(c)
    BY <2>1 DEF Connect, Disconnect
  <2>2. CASE List(c)
    <3>1. PICK items \in Pages(UserOf[c], page[c] + 1) :
             /\ listed' = [listed EXCEPT ![c] = @ \cup items]
             /\ ended' = [ended EXCEPT ![c] = Cardinality(items) < Limit]
      BY <2>2 DEF List
    <3>2. Of(UserOf[c]) \subseteq Notes /\ items \subseteq Notes
      BY DEF Of, Pages, Slice
    <3>3. (Cardinality(items) < Limit) \in BOOLEAN
      OBVIOUS
    <3> QED
      BY <2>2, <3>1, <3>2, <3>3 DEF List
  <2> QED
    BY <1>3, <2>1, <2>2 DEF Client
<1>4. ASSUME NEW k \in Markers, Marker(k) PROVE TypeOK'
  BY <1>4 DEF Marker, MarkAll, MarkAllVisit, MarkAllDone, Of
<1> QED
  BY <1>1, <1>2, <1>3, <1>4 DEF Next

\* A document is there from its insert on, and emitted after it.
LEMMA CreateStep == IInv /\ [Next]_vars => CreateInv'
<1> SUFFICES ASSUME IInv, [Next]_vars PROVE CreateInv'
  OBVIOUS
<1> USE DEF IInv, TypeOK, CreateInv, notes, clients, markers
<1>1. CASE UNCHANGED vars
  BY <1>1 DEF vars
<1>2. ASSUME NEW n \in Notes, Creating(n) \/ MarkAsRead(n) PROVE CreateInv'
  BY <1>2 DEF Creating, Create, Insert, Emit, MarkAsRead
<1>3. ASSUME NEW c \in Clients, Client(c) PROVE CreateInv'
  BY <1>3 DEF Client, Connect, Disconnect, List
<1>4. ASSUME NEW k \in Markers, Marker(k) PROVE CreateInv'
  BY <1>4 DEF Marker, MarkAll, MarkAllVisit, MarkAllDone
<1> QED
  BY <1>1, <1>2, <1>3, <1>4 DEF Next

\* No step takes a notification off a list, or changes whose and when it is.
LEMMA ListsGrow ==
  ASSUME IInv, [Next]_vars
  PROVE  /\ stored \subseteq stored'
         /\ \A n \in stored : createdAt'[n] = createdAt[n] /\ recipient'[n] = recipient[n]
<1> USE DEF IInv, TypeOK, CreateInv, notes, clients, markers
<1> DEFINE Goal == /\ stored \subseteq stored'
                   /\ \A n \in stored : /\ createdAt'[n] = createdAt[n]
                                        /\ recipient'[n] = recipient[n]
<1>1. CASE UNCHANGED vars
  BY <1>1 DEF vars
<1>2. ASSUME NEW n \in Notes, Creating(n) \/ MarkAsRead(n) PROVE Goal
  BY <1>2 DEF Creating, Create, Insert, Emit, MarkAsRead
<1>3. ASSUME NEW c \in Clients, Client(c) PROVE Goal
  BY <1>3 DEF Client, Connect, Disconnect, List
<1>4. ASSUME NEW k \in Markers, Marker(k) PROVE Goal
  BY <1>4 DEF Marker, MarkAll, MarkAllVisit, MarkAllDone
<1> QED
  BY <1>1, <1>2, <1>3, <1>4 DEF Next

\* What arrives moves nothing to the front, and a tie remains one.
LEMMA RankGrows ==
  ASSUME IInv, [Next]_vars, NEW u, NEW n \in Of(u)
  PROVE  /\ n \in Of(u)'
         /\ Rank(Of(u), n) \in Nat /\ Rank(Of(u), n)' \in Nat
         /\ Rank(Of(u), n) <= Rank(Of(u), n)'
         /\ Tied(n) => Tied(n)'
<1>1. /\ stored \subseteq stored'
      /\ \A m \in stored : createdAt'[m] = createdAt[m] /\ recipient'[m] = recipient[m]
  BY ListsGrow
<1>2. \A v : Of(v) \subseteq Of(v)' /\ Of(v) \subseteq stored
  BY <1>1 DEF Of
<1>3. n \in stored /\ n \in Of(u)'
  BY <1>2
<1>4. Newer(Of(u), n) \in SUBSET Newer(Of(u), n)'
  BY <1>1, <1>2, <1>3 DEF Newer
<1>5. IsFiniteSet(Of(u)) /\ IsFiniteSet(Of(u)')
  <2>1. Of(u) \in SUBSET Notes /\ Of(u)' \in SUBSET Notes
    BY TypeStep DEF IInv, TypeOK, Of
  <2>2. IsFiniteSet(Notes)
    BY NotificationAssumption, FS_Interval DEF Notes
  <2> QED
    BY <2>1, <2>2, FS_Subset
<1>6. IsFiniteSet(Newer(Of(u), n)) /\ IsFiniteSet(Newer(Of(u), n)')
  <2>1. Newer(Of(u), n) \in SUBSET Of(u) /\ Newer(Of(u), n)' \in SUBSET Of(u)'
    BY DEF Newer
  <2> QED
    BY <1>5, <2>1, FS_Subset
<1>7. /\ Rank(Of(u), n) = Cardinality(Newer(Of(u), n))
      /\ Rank(Of(u), n)' = Cardinality(Newer(Of(u), n)')
  BY DEF Rank
<1>8. Tied(n) => Tied(n)'
  BY <1>1, <1>2, <1>3 DEF Tied
<1> HIDE DEF Of
<1> QED
  BY <1>3, <1>4, <1>6, <1>7, <1>8, FS_Subset, FS_CardinalityType

\* The page that is asked for takes what has come to its places; the rest of what
\* was there at the start stands further back, and that page is full.
LEMMA ListTakes ==
  ASSUME IInv, NEW c \in Clients, List(c), NEW n \in base'[c], ~Tied(n)
  PROVE  /\ n \in listed'[c] \/ Rank(Of(UserOf[c]), n) >= page'[c] * Limit
         /\ ended'[c] => n \in listed'[c]
<1> DEFINE L == Of(UserOf[c])
           a == page[c] * Limit
           b == (page[c] + 1) * Limit
<1>1. PICK items \in Pages(UserOf[c], page[c] + 1) :
         /\ listed' = [listed EXCEPT ![c] = @ \cup items]
         /\ ended' = [ended EXCEPT ![c] = Cardinality(items) < Limit]
  BY DEF List
<1>2. PICK place \in Sorted(L) : items = Slice(L, place, page[c] + 1)
  BY DEF Pages
<1>3. /\ page'[c] = page[c] + 1
      /\ listed'[c] = listed[c] \cup items
      /\ ended'[c] = (Cardinality(items) < Limit)
      /\ base'[c] = IF page[c] = 0 THEN L ELSE base[c]
  BY <1>1 DEF List, IInv, TypeOK
<1>4. page[c] \in Nat /\ Limit \in Nat \ {0}
  BY NotificationAssumption DEF IInv, TypeOK
<1>5. a \in Nat /\ b \in Nat /\ b = a + Limit /\ (page[c] = 0 => a = 0)
  BY <1>4
<1>6. L \in SUBSET Notes /\ IsFiniteSet(L)
  BY ListsAreFinite DEF IInv, TypeOK, Of
<1>7. items = {m \in L : place[m] \in a .. b - 1}
  BY <1>2, <1>4 DEF Slice
<1>8. n \in L
  BY <1>3 DEF IInv, PageInv
<1>9. place[n] = Rank(L, n) /\ Rank(L, n) \in Nat
  <2>1. \A m \in L : createdAt[m] \in Nat
    BY <1>6 DEF IInv, TypeOK
  <2>2. recipient[n] = UserOf[c]
    BY <1>8 DEF Of
  <2>3. \A m \in L \ {n} : createdAt[m] # createdAt[n]
    BY <2>2 DEF Tied
  <2> HIDE DEF L
  <2> QED
    BY <1>2, <1>6, <1>8, <2>1, <2>3, RankIsNat, UntiedHasOnePlace
<1> HIDE DEF a, b
<1>10. n \in listed[c] \/ Rank(L, n) >= a
  <2>1. CASE page[c] = 0
    BY <1>5, <1>9, <2>1
  <2>2. CASE page[c] # 0
    BY <1>3, <2>2 DEF IInv, PageInv, L, a
  <2> QED
    BY <2>1, <2>2
<1> HIDE DEF L
<1>11. n \in listed'[c] \/ Rank(L, n) >= b
  BY <1>3, <1>5, <1>7, <1>8, <1>9, <1>10
<1>12. ASSUME Rank(L, n) >= b PROVE ~ended'[c]
  <2>1. a < b /\ b <= place[n] /\ b - a = Limit
    BY <1>4, <1>5, <1>9, <1>12
  <2>2. Cardinality(items) >= b - a
    BY <1>2, <1>5, <1>6, <1>7, <1>8, <2>1, PageIsFull
  <2>3. items \in SUBSET L
    BY <1>7
  <2>4. Cardinality(items) \in Nat
    BY <1>6, <2>3, FS_Subset, FS_CardinalityType
  <2>5. ~(Cardinality(items) < Limit)
    BY <1>4, <2>1, <2>2, <2>4
  <2> QED
    BY <1>3, <2>5
<1> QED
  BY <1>3, <1>11, <1>12 DEF L, b

\* What is listed, ahead of the reader or tied stays so until the list ends.
LEMMA PageStep == IInv /\ [Next]_vars => PageInv' /\ PagesSkipNothing'
<1> SUFFICES ASSUME IInv, [Next]_vars, NEW c \in Clients
    PROVE  /\ base'[c] \subseteq Of(UserOf[c])'
           /\ page'[c] = 0 => base'[c] = {}
           /\ \A n \in base'[c] :
                \/ n \in listed'[c]
                \/ Rank(Of(UserOf[c]), n)' >= page'[c] * Limit
                \/ Tied(n)'
           /\ ended'[c] => \A n \in base'[c] : n \in listed'[c] \/ Tied(n)'
  BY DEF PageInv, PagesSkipNothing
<1>1. base[c] \subseteq Of(UserOf[c]) /\ page[c] * Limit \in Nat
  BY NotificationAssumption DEF IInv, TypeOK, PageInv
<1>2. \A n \in Of(UserOf[c]) :
        /\ n \in Of(UserOf[c])'
        /\ Rank(Of(UserOf[c]), n) \in Nat /\ Rank(Of(UserOf[c]), n)' \in Nat
        /\ Rank(Of(UserOf[c]), n) <= Rank(Of(UserOf[c]), n)'
        /\ Tied(n) => Tied(n)'
  BY RankGrows
<1>3. CASE /\ page'[c] = page[c] /\ listed'[c] = listed[c]
           /\ ended'[c] = ended[c] /\ base'[c] = base[c]
  <2>1. base'[c] \subseteq Of(UserOf[c])'
    BY <1>1, <1>2, <1>3
  <2>2. page'[c] = 0 => base'[c] = {}
    BY <1>3 DEF IInv, PageInv
  <2>3. ASSUME NEW n \in base'[c]
        PROVE  /\ n \in listed'[c] \/ Rank(Of(UserOf[c]), n)' >= page'[c] * Limit \/ Tied(n)'
               /\ ended'[c] => n \in listed'[c] \/ Tied(n)'
    <3>1. n \in listed[c] \/ Rank(Of(UserOf[c]), n) >= page[c] * Limit \/ Tied(n)
      BY <1>3 DEF IInv, PageInv
    <3>2. ended[c] => n \in listed[c] \/ Tied(n)
      BY <1>3 DEF IInv, PagesSkipNothing
    <3>3. n \in Of(UserOf[c])
      BY <1>1, <1>3
    <3> QED
      BY <1>1, <1>2, <1>3, <3>1, <3>2, <3>3
  <2> QED
    BY <2>1, <2>2, <2>3
<1>4. CASE List(c)
  <2>1. UNCHANGED <<stored, recipient, createdAt>>
    BY <1>4 DEF List, notes
  <2>2. /\ Of(UserOf[c])' = Of(UserOf[c])
        /\ \A n : Rank(Of(UserOf[c]), n)' = Rank(Of(UserOf[c]), n)
        /\ \A n : Tied(n)' <=> Tied(n)
    BY <2>1 DEF Of, Rank, Newer, Tied
  <2>3. page'[c] = page[c] + 1 /\ page[c] \in Nat
    BY <1>4 DEF List, IInv, TypeOK
  <2>4. base'[c] \subseteq Of(UserOf[c])
    BY <1>4 DEF List, IInv, TypeOK, PageInv
  <2>5. ASSUME NEW n \in base'[c], ~Tied(n)
        PROVE  /\ n \in listed'[c] \/ Rank(Of(UserOf[c]), n) >= page'[c] * Limit
               /\ ended'[c] => n \in listed'[c]
    BY <1>4, <2>5, ListTakes
  <2> QED
    BY <2>2, <2>3, <2>4, <2>5
<1>5. \/ UNCHANGED <<page, listed, ended, base>>
      \/ \E d \in Clients : List(d)
  <2> USE DEF notes, clients, markers
  <2>1. CASE UNCHANGED vars
    BY <2>1 DEF vars
  <2>2. ASSUME NEW n \in Notes, Creating(n) \/ MarkAsRead(n)
        PROVE  UNCHANGED <<page, listed, ended, base>>
    BY <2>2 DEF Creating, Create, Insert, Emit, MarkAsRead
  <2>3. ASSUME NEW d \in Clients, Connect(d) \/ Disconnect(d)
        PROVE  UNCHANGED <<page, listed, ended, base>>
    BY <2>3 DEF Connect, Disconnect
  <2>4. ASSUME NEW k \in Markers, Marker(k) PROVE UNCHANGED <<page, listed, ended, base>>
    BY <2>4 DEF Marker, MarkAll, MarkAllVisit, MarkAllDone
  <2> QED
    BY <2>1, <2>2, <2>3, <2>4 DEF Next, Client
<1>6. ASSUME NEW d \in Clients, List(d), d # c
      PROVE  /\ page'[c] = page[c] /\ listed'[c] = listed[c]
             /\ ended'[c] = ended[c] /\ base'[c] = base[c]
  BY <1>6 DEF List, IInv, TypeOK
<1> QED
  BY <1>3, <1>4, <1>5, <1>6

\* A tab is sent everything from its first page until it disconnects.
LEMMA SocketStep == IInv /\ [Next]_vars => SocketInv'
<1> SUFFICES ASSUME IInv, [Next]_vars PROVE SocketInv'
  OBVIOUS
<1> USE DEF IInv, TypeOK, SocketInv, notes, clients, markers
<1>1. CASE UNCHANGED vars
  BY <1>1 DEF vars
<1>2. ASSUME NEW n \in Notes, Creating(n) \/ MarkAsRead(n) PROVE SocketInv'
  <2>1. CASE Create(n)
    BY <2>1 DEF Create
  <2>2. CASE Insert(n)
    BY <2>2 DEF Insert
  <2>3. CASE Emit(n)
    BY <2>3 DEF Emit
  <2>4. CASE MarkAsRead(n)
    BY <2>4 DEF MarkAsRead
  <2> QED
    BY <1>2, <2>1, <2>2, <2>3, <2>4 DEF Creating
<1>3. ASSUME NEW c \in Clients, Client(c) PROVE SocketInv'
  <2>1. CASE Connect(c) \/ Disconnect(c)
    BY <2>1 DEF Connect, Disconnect
  <2>2. CASE List(c)
    <3>1. \A n \in Notes : at[n] = "done" /\ recipient[n] = UserOf[c] => n \in Of(UserOf[c])
      BY DEF CreateInv, Of
    <3> QED
      BY <2>2, <3>1 DEF List
  <2> QED
    BY <1>3, <2>1, <2>2 DEF Client
<1>4. ASSUME NEW k \in Markers, Marker(k) PROVE SocketInv'
  BY <1>4 DEF Marker, MarkAll, MarkAllVisit, MarkAllDone
<1> QED
  BY <1>1, <1>2, <1>3, <1>4 DEF Next

\* A notification is counted when it becomes read, and that is once.
LEMMA MarkStep == IInv /\ [Next]_vars => MarkInv' /\ ModifiedOnce'
<1> SUFFICES ASSUME IInv, [Next]_vars PROVE MarkInv' /\ ModifiedOnce'
  OBVIOUS
<1> USE DEF IInv, TypeOK, MarkInv, ModifiedOnce, notes, clients, markers
<1>1. CASE UNCHANGED vars
  BY <1>1 DEF vars
<1>2. ASSUME NEW n \in Notes, Creating(n) \/ MarkAsRead(n) PROVE MarkInv' /\ ModifiedOnce'
  BY <1>2 DEF Creating, Create, Insert, Emit, MarkAsRead
<1>3. ASSUME NEW c \in Clients, Client(c) PROVE MarkInv' /\ ModifiedOnce'
  BY <1>3 DEF Client, Connect, Disconnect, List
<1>4. ASSUME NEW k \in Markers, Marker(k) PROVE MarkInv' /\ ModifiedOnce'
  BY <1>4 DEF Marker, MarkAll, MarkAllVisit, MarkAllDone, Of
<1> QED
  BY <1>1, <1>2, <1>3, <1>4 DEF Next

\* The inductive invariant holds in every state the service reaches.
LEMMA Invariance == Spec => []IInv
<1>1. IInv /\ [Next]_vars => IInv'
  BY TypeStep, CreateStep, PageStep, SocketStep, MarkStep DEF IInv
<1> QED
  BY <1>1, IInvInit, PTL DEF Spec

-----------------------------------------------------------------------------
(* Theorems *)

\* Notifications, tabs and callers keep their types for any number of them.
THEOREM TypeCorrectness == Spec => []TypeOK
<1>1. IInv => TypeOK
  BY DEF IInv
<1> QED
  BY <1>1, Invariance, PTL

\* For every page size, and whatever order each query gives to notifications of one
\* createdAt, turning the pages to the end shows each notification that was there when
\* the first page was read and shares its createdAt with none.
THEOREM PagesAreComplete == Spec => []PagesSkipNothing
<1>1. IInv => PagesSkipNothing
  BY DEF IInv
<1> QED
  BY <1>1, Invariance, PTL

\* A tab that connects before it reads its list misses nothing that is created for
\* its user and is alone on its createdAt, however many creations overlap.
THEOREM NothingIsMissed == Spec => []NothingMissed
<1>1. IInv => NothingMissed
  BY DEF IInv, SocketInv, PagesSkipNothing, NothingMissed, TypeOK
<1> QED
  BY <1>1, Invariance, PTL

\* The counts of any number of concurrent calls of read-all add up.
THEOREM CountsAddUp == Spec => []ModifiedOnce
<1>1. IInv => ModifiedOnce
  BY DEF IInv
<1> QED
  BY <1>1, Invariance, PTL

=============================================================================
