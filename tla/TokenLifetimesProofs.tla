------------------------ MODULE TokenLifetimesProofs ------------------------
(***************************************************************************)
(* The deadlines of TokenLifetimes for every pair of configured lifetimes, *)
(* any number of browsers and any passage of time.                         *)
(***************************************************************************)
EXTENDS TokenLifetimes, TLAPS

-----------------------------------------------------------------------------
(* The two readings of a lifetime *)

\* Both readers give whole seconds.
LEMMA LifetimesAreNat ==
  ASSUME NEW f \in Formats
  PROVE  JwtSeconds(f) \in Nat /\ parseExpiryToSeconds(f) \in Nat
<1>1. f \in [n : Nat, unit : Units]
  BY LifetimesAssumption
<1>2. f.n \in Nat /\ f.n \div 1000 \in Nat /\ f.unit \in Units
  BY <1>1
<1>3. \A u \in DOMAIN Multiplier : Multiplier[u] \in Nat
  BY DEF Multiplier
<1>4. \A u \in DOMAIN JwtUnit : JwtUnit[u] \in Nat
  BY DEF JwtUnit
<1>5. \A m \in Nat : f.n * m \in Nat
  BY <1>2
<1> QED
  BY <1>2, <1>3, <1>4, <1>5 DEF JwtSeconds, parseExpiryToSeconds

\* They agree on the four units that parseExpiryToSeconds knows.
LEMMA ReadersAgree ==
  ASSUME NEW f \in Formats, f.unit \in {"s", "m", "h", "d"}
  PROVE  JwtSeconds(f) = parseExpiryToSeconds(f)
  BY LifetimesAssumption DEF JwtSeconds, parseExpiryToSeconds, Multiplier, JwtUnit

-----------------------------------------------------------------------------
(* The inductive invariant *)

\* An admin's token carries a role that was read while the account was an admin, as
\* does the call that is about to issue one.
AdminInv ==
  /\ ~IsAdmin => demoted # None /\ demoted <= now
  /\ \A t \in access : t.role = "admin" =>
       IsAdmin \/ t.end <= demoted + t.took + AccessLife
  /\ \A b \in Browsers : call[b] # None =>
       /\ call[b].since <= now
       /\ call[b].role = "admin" => IsAdmin \/ call[b].since <= demoted

\* Nothing is issued to an account that is signed out, except by who may sign in, and
\* nothing it holds opens its session again.
EndedInv ==
  /\ \A t \in access : t.end <= now + AccessLife
  /\ ended = None => live
  /\ ended # None =>
       /\ jti = None \/ ~live
       /\ ended <= now
       /\ \A t \in access : t.end <= ended + AccessLife
       /\ \A b \in Browsers : call[b] # None =>
            call[b].entry \/ (call[b].at = "find" /\ ~live)

\* The deadlines set with a cookie, and the key that belongs to the last of them.
CookieInv ==
  \A b \in Browsers : cookie[b] # None =>
    /\ cookie[b].jti <= issued
    /\ cookie[b].exp = cookie[b].since + JwtSeconds(conf.refresh)
    /\ cookie[b].maxAge = cookie[b].since + parseExpiryToSeconds(conf.refresh)
    /\ SignedIn(b) => jti = issued /\ ttl = cookie[b].maxAge

IInv == TypeOK /\ AdminInv /\ EndedInv /\ CookieInv

-----------------------------------------------------------------------------
(* The invariant holds at the start, and every step keeps it *)

\* No token is out, and the account is as it was registered.
LEMMA IInvInit == Init => IInv
<1> SUFFICES ASSUME Init PROVE IInv
  OBVIOUS
<1>1. TypeOK /\ AdminInv /\ EndedInv
  BY LifetimesAssumption
     DEF Init, TypeOK, AdminInv, EndedInv, IsAdmin
<1>2. CookieInv
  BY DEF Init, CookieInv
<1> QED
  BY <1>1, <1>2 DEF IInv

\* Tokens keep the invariant, whether a login or an accepted refresh asks for them,
\* and whatever has become of the account since it was read.
LEMMA IssueKeeps ==
  ASSUME IInv, NEW b \in Browsers, IssueTokens(b)
  PROVE  IInv'
<1> DEFINE J == JwtSeconds(conf.refresh)
           P == parseExpiryToSeconds(conf.refresh)
           t0 == [by |-> b, role |-> call[b].role, end |-> now + AccessLife,
                  took |-> now - call[b].since]
           k0 == [jti |-> issued', since |-> now, exp |-> now + J, maxAge |-> now + P]
<1>1. conf.access \in Formats /\ conf.refresh \in Formats
  BY DEF IInv, TypeOK
<1>2. AccessLife \in Nat /\ J \in Nat /\ P \in Nat
  BY <1>1, LifetimesAreNat DEF AccessLife
<1>3. /\ issued' = issued + 1 /\ jti' = issued' /\ ttl' = now + P
      /\ access' = access \cup {t0}
      /\ cookie' = [cookie EXCEPT ![b] = k0]
      /\ call' = [call EXCEPT ![b] = None]
      /\ ended' = IF ~call[b].entry THEN ended ELSE IF live THEN None ELSE now
      /\ UNCHANGED <<conf, now, live, role, demoted>>
      /\ AccessLife' = AccessLife /\ J' = J /\ P' = P
  BY DEF IssueTokens, AccessLife
<1>0. /\ call[b].at = "issue" /\ call[b].role \in Roles /\ call[b].since \in Nat
      /\ call[b].since <= now /\ call[b].entry \in BOOLEAN
      /\ call[b].role = "admin" => IsAdmin \/ call[b].since <= demoted
      /\ ended # None => call[b].entry
  BY DEF IssueTokens, IInv, TypeOK, AdminInv, EndedInv
<1> HIDE DEF J, P
<1>4. /\ now \in Nat /\ issued \in Nat /\ issued' \in Nat
      /\ now + AccessLife \in Nat /\ now + J \in Nat /\ now + P \in Nat
      /\ now - call[b].since \in Nat
      /\ \A t \in access : t.end \in Nat /\ t.took \in Nat
      /\ demoted \in Nat \cup {None} /\ ended \in Nat \cup {None}
  BY <1>0, <1>2, <1>3 DEF IInv, TypeOK
<1>5. TypeOK'
  <2>1. t0 \in [by : Browsers, role : Roles, end : Nat, took : Nat]
    BY <1>0, <1>4
  <2>2. k0 \in [jti : Nat, since : Nat, exp : Nat, maxAge : Nat]
    BY <1>4
  <2>3. cookie' \in
          [Browsers -> [jti : Nat, since : Nat, exp : Nat, maxAge : Nat] \cup {None}]
    BY <1>3, <2>2 DEF IInv, TypeOK
  <2>4. ended' \in Nat \cup {None}
    BY <1>3, <1>4
  <2> HIDE DEF t0, k0
  <2> QED
    BY <1>3, <1>4, <2>1, <2>3, <2>4 DEF IInv, TypeOK
<1>6. AdminInv'
  <2>1. ~IsAdmin => demoted # None /\ demoted <= now
    BY DEF IInv, AdminInv
  <2>2. ASSUME NEW t \in access', t.role = "admin", ~IsAdmin
        PROVE  t.end <= demoted + t.took + AccessLife
    <3>1. CASE t \in access
      BY <2>2, <3>1 DEF IInv, AdminInv
    <3>2. CASE t = t0
      BY <1>0, <1>2, <1>4, <2>1, <2>2, <3>2
    <3> QED
      BY <1>3, <3>1, <3>2
  <2>3. ASSUME NEW c \in Browsers, call'[c] # None
        PROVE  /\ call'[c].since <= now
               /\ call'[c].role = "admin" => IsAdmin \/ call'[c].since <= demoted
    <3>1. call'[c] = call[c]
      BY <1>3, <2>3 DEF IInv, TypeOK
    <3> QED
      BY <2>3, <3>1 DEF IInv, AdminInv
  <2>4. IsAdmin' = IsAdmin
    BY <1>3 DEF IsAdmin
  <2> QED
    BY <1>3, <2>1, <2>2, <2>3, <2>4 DEF AdminInv
<1>7. EndedInv'
  <2>1. \A t \in access' : t.end <= now + AccessLife
    BY <1>3, <1>4 DEF IInv, EndedInv
  <2>2. ended' = None => live
    BY <1>3, <1>4, LifetimesAssumption DEF IInv, EndedInv
  <2>3. ended' # None => ended' = now /\ ~live
    BY <1>0, <1>3
  <2>4. ASSUME NEW c \in Browsers, call'[c] # None, ended' # None
        PROVE  call'[c].entry \/ (call'[c].at = "find" /\ ~live)
    <3>1. ended # None \/ ~live
      BY <2>3, <2>4
    <3>2. ended # None
      BY <3>1 DEF IInv, EndedInv
    <3>3. call'[c] = call[c]
      BY <1>3, <2>4 DEF IInv, TypeOK
    <3> QED
      BY <2>4, <3>2, <3>3 DEF IInv, EndedInv
  <2> QED
    BY <1>2, <1>3, <1>4, <2>1, <2>2, <2>3, <2>4 DEF EndedInv
<1>8. CookieInv'
  <2> SUFFICES ASSUME NEW c \in Browsers, cookie'[c] # None
      PROVE  /\ cookie'[c].jti <= issued'
             /\ cookie'[c].exp = cookie'[c].since + J
             /\ cookie'[c].maxAge = cookie'[c].since + P
             /\ SignedIn(c)' => jti' = issued' /\ ttl' = cookie'[c].maxAge
    BY <1>3 DEF CookieInv, J, P
  <2>1. CASE c = b
    <3>1. cookie'[c] = k0
      BY <1>3, <2>1 DEF IInv, TypeOK
    <3> QED
      BY <1>3, <1>4, <3>1
  <2>2. CASE c # b
    <3>1. cookie'[c] = cookie[c]
      BY <1>3, <2>2 DEF IInv, TypeOK
    <3>2. cookie[c].jti \in Nat /\ cookie[c].jti <= issued
      BY <3>1 DEF IInv, TypeOK, CookieInv
    <3>3. ~SignedIn(c)'
      BY <1>3, <1>4, <3>1, <3>2 DEF SignedIn
    <3>4. cookie[c].exp = cookie[c].since + J /\ cookie[c].maxAge = cookie[c].since + P
      BY <3>1 DEF IInv, CookieInv, J, P
    <3> QED
      BY <1>3, <1>4, <3>1, <3>2, <3>3, <3>4
  <2> QED
    BY <2>1, <2>2
<1> QED
  BY <1>5, <1>6, <1>7, <1>8 DEF IInv

\* A sign-out dates the end of the session unless it has one, and marks the calls
\* that have overtaken it.
LEMMA SignOutKeeps ==
  ASSUME IInv, SignOut
  PROVE  /\ ended' \in Nat /\ ended' # None /\ ended' <= now
         /\ \A t \in access : t.end <= ended' + AccessLife
         /\ call' \in [Browsers -> [at : {"issue"}, role : Roles, since : Nat, entry : BOOLEAN]
                        \cup [at : {"find"}, role : {None}, since : Nat, entry : BOOLEAN]
                        \cup {None}]
         /\ \A b \in Browsers : call'[b] # None =>
              /\ call[b] # None /\ call'[b].entry
              /\ call'[b].since = call[b].since /\ call'[b].role = call[b].role
<1>1. now \in Nat /\ ended \in Nat \cup {None} /\ None \notin Int
  BY LifetimesAssumption DEF IInv, TypeOK
<1>2. ended' = IF ended = None THEN now ELSE ended
  BY DEF SignOut
<1>3. ended' \in Nat /\ ended' # None /\ ended' <= now
  BY <1>1, <1>2 DEF IInv, EndedInv
<1>4. \A t \in access : t.end <= ended' + AccessLife
  BY <1>2 DEF IInv, EndedInv
<1> DEFINE I == [at : {"issue"}, role : Roles, since : Nat, entry : BOOLEAN]
           W == [at : {"find"}, role : {None}, since : Nat, entry : BOOLEAN]
<1>5. ASSUME NEW b \in Browsers
      PROVE  /\ call'[b] \in I \cup W \cup {None}
             /\ call'[b] # None =>
                  /\ call[b] # None /\ call'[b].entry
                  /\ call'[b].since = call[b].since /\ call'[b].role = call[b].role
  <2>1. call'[b] = IF call[b] = None THEN None ELSE [call[b] EXCEPT !.entry = TRUE]
    BY DEF SignOut
  <2>2. call[b] \in I \cup W \cup {None}
    BY DEF IInv, TypeOK
  <2>3. CASE call[b] = None
    BY <2>1, <2>3
  <2>4. CASE call[b] # None /\ call[b] \in I
    BY <2>1, <2>4
  <2>5. CASE call[b] # None /\ call[b] \in W
    BY <2>1, <2>5
  <2> QED
    BY <2>2, <2>3, <2>4, <2>5
<1>6. call' = [b \in Browsers |->
                IF call[b] = None THEN None ELSE [call[b] EXCEPT !.entry = TRUE]]
  BY DEF SignOut
<1> QED
  BY <1>3, <1>4, <1>5, <1>6

\* A call that reads the key or the account keeps the invariant, and so does one that
\* is refused: what it has read is as old as the call, and it gets past the account
\* only while that is there.
LEMMA CallKeeps ==
  ASSUME IInv, NEW b \in Browsers,
         LoginFind(b) \/ RefreshGet(b) \/ RefreshFind(b) \/ Refuse(b)
  PROVE  IInv'
<1> DEFINE I == [at : {"issue"}, role : Roles, since : Nat, entry : BOOLEAN]
           W == [at : {"find"}, role : {None}, since : Nat, entry : BOOLEAN]
<1>1. UNCHANGED <<conf, now, live, role, jti, ttl, cookie, access, issued, ended, demoted>>
  BY DEF LoginFind, RefreshGet, RefreshFind, Refuse, store
<1>2. now \in Nat /\ role \in Roles /\ call \in [Browsers -> I \cup W \cup {None}]
  BY DEF IInv, TypeOK
<1>3. PICK r \in I \cup W \cup {None} :
         /\ call' = [call EXCEPT ![b] = r]
         /\ r # None =>
              /\ r.since <= now
              /\ r.role = "admin" => IsAdmin
              /\ ended # None => r.entry \/ (r.at = "find" /\ ~live)
  <2>1. CASE LoginFind(b)
    <3> DEFINE w == Found(role, TRUE)
    <3>1. call' = [call EXCEPT ![b] = w] /\ live
      BY <2>1 DEF LoginFind
    <3>2. w \in I /\ w.since <= now /\ w.entry /\ (w.role = "admin" => IsAdmin)
      BY <1>2, <3>1 DEF Found, IsAdmin
    <3> HIDE DEF w
    <3> QED
      BY <3>1, <3>2
  <2>2. CASE RefreshGet(b)
    <3> DEFINE w == [at |-> "find", role |-> None, since |-> now, entry |-> FALSE]
    <3>1. w \in W /\ call' = [call EXCEPT ![b] = w]
      BY <1>2, <2>2 DEF RefreshGet
    <3>2. jti # None
      BY <2>2, LifetimesAssumption DEF RefreshGet, SessionFound, CookieSent, IInv, TypeOK
    <3>3. ended # None => ~live
      BY <3>2 DEF IInv, EndedInv
    <3>4. w.since <= now /\ w.role # "admin" /\ w.at = "find"
      BY <1>2, LifetimesAssumption DEF Roles
    <3> HIDE DEF w
    <3> QED
      BY <3>1, <3>3, <3>4
  <2>3. CASE RefreshFind(b)
    <3>1. call[b] # None /\ call[b].at = "find" /\ live
      BY <2>3 DEF RefreshFind
    <3>2. call[b].entry \in BOOLEAN
      BY <1>2, <3>1
    <3> DEFINE w == Found(role, call[b].entry)
    <3>3. call' = [call EXCEPT ![b] = w]
      BY <2>3 DEF RefreshFind
    <3>4. ended # None => call[b].entry
      BY <3>1 DEF IInv, EndedInv
    <3>5. /\ w \in I /\ w.since <= now /\ (w.role = "admin" => IsAdmin)
          /\ ended # None => w.entry
      BY <1>2, <3>1, <3>2, <3>4 DEF Found, IsAdmin
    <3> HIDE DEF w
    <3> QED
      BY <3>3, <3>5
  <2>4. CASE Refuse(b)
    BY <2>4 DEF Refuse
  <2> QED
    BY <2>1, <2>2, <2>3, <2>4
<1>4. \A c \in Browsers : call'[c] = IF c = b THEN r ELSE call[c]
  BY <1>2, <1>3
<1>5. call' \in [Browsers -> I \cup W \cup {None}]
  BY <1>2, <1>3
<1>6. TypeOK'
  BY <1>1, <1>5 DEF IInv, TypeOK
<1>7. AdminInv'
  BY <1>1, <1>3, <1>4 DEF IInv, AdminInv, IsAdmin, AccessLife
<1>8. EndedInv'
  BY <1>1, <1>3, <1>4 DEF IInv, EndedInv, AccessLife
<1>9. CookieInv'
  BY <1>1 DEF IInv, CookieInv, SignedIn
<1> QED
  BY <1>6, <1>7, <1>8, <1>9 DEF IInv

\* What is issued goes to who may have it, and whatever else happens only takes away,
\* or lets time pass.
LEMMA IInvStep == IInv /\ [Next]_vars => IInv'
<1> SUFFICES ASSUME IInv, [Next]_vars PROVE IInv'
  OBVIOUS
<1>0. /\ AccessLife \in Nat
      /\ now \in Nat
      /\ \A t \in access : t.end \in Nat /\ t.took \in Nat
      /\ demoted \in Nat \cup {None} /\ ended \in Nat \cup {None}
      /\ \A b \in Browsers : call[b] # None => call[b].since \in Nat
      /\ None \notin Int
  BY LifetimesAreNat, LifetimesAssumption DEF IInv, TypeOK, AccessLife
<1>1. CASE UNCHANGED vars
  BY <1>1 DEF vars, store, IInv, TypeOK, AdminInv, EndedInv, CookieInv,
              IsAdmin, AccessLife, SignedIn
<1>2. ASSUME NEW b \in Browsers, LoginFind(b) \/ RefreshGet(b) \/ RefreshFind(b) \/ Refuse(b)
      PROVE  IInv'
  BY <1>2, CallKeeps
<1>3. ASSUME NEW b \in Browsers, IssueTokens(b) PROVE IInv'
  BY <1>3, IssueKeeps
<1>4. ASSUME NEW b \in Browsers, Logout(b) PROVE IInv'
  <2>0. SignOut /\ UNCHANGED <<conf, now, live, role, access, demoted>>
    BY <1>4 DEF Logout
  <2>1. TypeOK'
    <3>1. cookie' \in
            [Browsers -> [jti : Nat, since : Nat, exp : Nat, maxAge : Nat] \cup {None}]
      BY <1>4 DEF Logout, IInv, TypeOK
    <3> QED
      BY <1>4, <2>0, <3>1, SignOutKeeps DEF Logout, IInv, TypeOK
  <2>2. AdminInv'
    BY <2>0, SignOutKeeps DEF IInv, AdminInv, IsAdmin, AccessLife
  <2>3. EndedInv'
    BY <1>4, <2>0, SignOutKeeps DEF Logout, IInv, EndedInv, AccessLife
  <2>4. CookieInv'
    BY <1>0, <1>4, <2>0, SignOutKeeps DEF Logout, IInv, TypeOK, CookieInv, SignedIn
  <2> QED
    BY <2>1, <2>2, <2>3, <2>4 DEF IInv
<1>5. CASE Revoke \/ Delete
  <2>0. /\ SignOut /\ live
        /\ UNCHANGED <<conf, now, role, ttl, cookie, access, issued>>
        /\ \/ jti' = None /\ live' = live /\ demoted' = demoted
           \/ jti' = jti /\ live' = FALSE /\ demoted' = IF IsAdmin THEN now ELSE demoted
    BY <1>5 DEF Revoke, Delete, store
  <2>1. TypeOK'
    BY <1>0, <2>0, SignOutKeeps DEF IInv, TypeOK
  <2>2. AdminInv'
    <3>1. \/ IsAdmin' = IsAdmin /\ demoted' = demoted
          \/ IsAdmin /\ ~IsAdmin' /\ demoted' = now
          \/ ~IsAdmin /\ ~IsAdmin' /\ demoted' = demoted
      BY <2>0 DEF IsAdmin
    <3>2. ~IsAdmin' => demoted' # None /\ demoted' <= now
      BY <1>0, <3>1 DEF IInv, AdminInv
    <3>3. ASSUME NEW t \in access, t.role = "admin"
          PROVE  IsAdmin' \/ t.end <= demoted' + t.took + AccessLife
      <4>1. t.end <= now + AccessLife
        BY DEF IInv, EndedInv
      <4>2. IsAdmin \/ t.end <= demoted + t.took + AccessLife
        BY <3>3 DEF IInv, AdminInv
      <4> QED
        BY <1>0, <3>1, <4>1, <4>2
    <3>4. ASSUME NEW b \in Browsers, call'[b] # None
          PROVE  /\ call'[b].since <= now
                 /\ call'[b].role = "admin" => IsAdmin' \/ call'[b].since <= demoted'
      <4>1. /\ call[b] # None /\ call'[b].since = call[b].since
            /\ call'[b].role = call[b].role
        BY <2>0, <3>4, SignOutKeeps
      <4>2. call[b].since <= now /\ (call[b].role = "admin" => IsAdmin \/ call[b].since <= demoted)
        BY <4>1 DEF IInv, AdminInv
      <4> QED
        BY <3>1, <4>1, <4>2
    <3> QED
      BY <2>0, <3>2, <3>3, <3>4 DEF AdminInv, AccessLife
  <2>3. EndedInv'
    BY <2>0, SignOutKeeps DEF IInv, EndedInv, AccessLife
  <2>4. CookieInv'
    BY <1>0, <2>0, SignOutKeeps DEF IInv, CookieInv, SignedIn
  <2> QED
    BY <2>1, <2>2, <2>3, <2>4 DEF IInv
<1>6. CASE SetRole
  <2>1. TypeOK'
    BY <1>0, <1>6 DEF SetRole, store, IInv, TypeOK, Roles
  <2>2. AdminInv'
    BY <1>0, <1>6
       DEF SetRole, store, IInv, TypeOK, AdminInv, EndedInv, IsAdmin, AccessLife
  <2>3. EndedInv'
    BY <1>0, <1>6 DEF SetRole, store, IInv, EndedInv, AccessLife
  <2>4. CookieInv'
    BY <1>6 DEF SetRole, store, IInv, CookieInv, SignedIn
  <2> QED
    BY <2>1, <2>2, <2>3, <2>4 DEF IInv
<1>7. CASE Advance
  <2>0. now' \in Nat /\ now' > now
    <3>1. \A d \in Deadlines : d \in Nat
      BY <1>0 DEF Deadlines, IInv, TypeOK
    <3> QED
      BY <1>0, <1>7, <3>1 DEF Advance
  <2>1. TypeOK'
    BY <1>7, <2>0 DEF Advance, store, IInv, TypeOK
  <2>2. AdminInv' /\ EndedInv'
    BY <1>0, <1>7, <2>0
       DEF Advance, store, IInv, AdminInv, EndedInv, IsAdmin, AccessLife
  <2>3. CookieInv'
    BY <1>7 DEF Advance, store, IInv, CookieInv, SignedIn
  <2> QED
    BY <2>1, <2>2, <2>3 DEF IInv
<1> QED
  BY <1>1, <1>2, <1>3, <1>4, <1>5, <1>6, <1>7 DEF Next, Signing

\* The inductive invariant holds in every state the program reaches.
LEMMA Invariance == Spec => []IInv
  BY IInvInit, IInvStep, PTL DEF Spec

-----------------------------------------------------------------------------
(* Theorems *)

\* The clock, the stores, the cookies and the tokens keep their types, for every
\* pair of lifetimes.
THEOREM TypeCorrectness == Spec => []TypeOK
<1>1. IInv => TypeOK
  BY DEF IInv
<1> QED
  BY <1>1, Invariance, PTL

\* Whatever the lifetimes, an admin's power outlives the role by less than the life of
\* one access token and the time its issue took, and no refresh carries it on.
THEOREM AdminPowerIsBounded == Spec => []PowerBounded
<1>1. IInv => PowerBounded
  <2> SUFFICES ASSUME IInv, NEW t \in access, authenticate(t), authorize(t, "admin"),
                      ~IsAdmin
      PROVE  now < demoted + t.took + AccessLife
    BY DEF PowerBounded
  <2>1. t.end <= demoted + t.took + AccessLife /\ now < t.end
    BY DEF IInv, AdminInv, authenticate, authorize
  <2>2. now \in Nat /\ t.end \in Nat /\ t.took \in Nat /\ demoted \in Nat /\ AccessLife \in Nat
    BY LifetimesAreNat DEF IInv, TypeOK, AdminInv, AccessLife
  <2> QED
    BY <2>1, <2>2
<1> QED
  BY <1>1, Invariance, PTL

\* Access ends for good within the life of one access token after the account has
\* been signed out or deleted, unless it is signed in again or a refresh that had read
\* the key before issues its tokens after.
THEOREM SignedOutIsBounded == Spec => []SignedOutBounded
<1>1. IInv => SignedOutBounded
  <2> SUFFICES ASSUME IInv, ended # None
      PROVE  /\ \A b \in Browsers : ~RefreshAccepted(b)
             /\ \A t \in access : authenticate(t) => now < ended + AccessLife
    BY DEF SignedOutBounded
  <2>1. ASSUME NEW b \in Browsers PROVE ~RefreshAccepted(b)
    BY LifetimesAssumption
       DEF IInv, EndedInv, TypeOK, RefreshAccepted, SessionFound, CookieSent
  <2>2. ASSUME NEW t \in access, authenticate(t) PROVE now < ended + AccessLife
    <3>1. now \in Nat /\ t.end \in Nat /\ ended \in Nat /\ AccessLife \in Nat
      BY LifetimesAreNat DEF IInv, TypeOK, AccessLife
    <3> QED
      BY <2>2, <3>1 DEF IInv, EndedInv, authenticate
  <2> QED
    BY <2>1, <2>2
<1> QED
  BY <1>1, Invariance, PTL

\* For every lifetime that both readers understand, and the documented prefix, the
\* JWT, the Redis key and the cookie end in the same second.
THEOREM SessionsLastAsConfigured == Spec => []SessionLasts
<1>1. IInv => SessionLasts
  <2> SUFFICES ASSUME IInv, Agree, NEW b \in Browsers, SignedIn(b)
      PROVE  RefreshAccepted(b) <=> Lasts(b)
    BY DEF SessionLasts
  <2>1. JwtSeconds(conf.refresh) = parseExpiryToSeconds(conf.refresh)
    BY ReadersAgree DEF IInv, TypeOK, Agree
  <2>2. /\ cookie[b] # None /\ cookie[b].jti = issued /\ jti = issued /\ live
        /\ cookie[b].exp = cookie[b].since + JwtSeconds(conf.refresh)
        /\ cookie[b].maxAge = cookie[b].since + JwtSeconds(conf.refresh)
        /\ ttl = cookie[b].maxAge
    BY <2>1 DEF IInv, CookieInv, EndedInv, SignedIn
  <2> QED
    BY <2>2 DEF RefreshAccepted, SessionFound, CookieSent, Lasts, Agree
<1> QED
  BY <1>1, Invariance, PTL

=============================================================================
