------------------------- MODULE AuthServiceProofs -------------------------
(***************************************************************************)
(* The session invariant of AuthService for any number of requests,        *)
(* accounts and addresses, and the refinement of SessionRegistry.          *)
(***************************************************************************)
EXTENDS AuthService, TLAPS

-----------------------------------------------------------------------------
(* The inductive invariant *)

\* Request u made its account, if it ever makes one.
Known(u) == pc[u] \notin {"idle", "rg_create"}

Issued == {"respond", "done", "failed"}

\* Only an account that exists is named by a field, a key or a handler.
AccountInv ==
  /\ \A u \in Requests : status[u] = "live" => Known(u)
  /\ \A q \in Requests : sub[q] # None => Known(sub[q])
  /\ \A t \in Requests : verifyKey[t] # None => Known(verifyKey[t])
  /\ \A t \in Requests : resetKey[t] # None => Known(resetKey[t])

\* A handler past its first command knows its account, and at three of the
\* awaits it is bound to be one that issues tokens.
HandlerInv ==
  /\ \A r \in Requests :
       pc[r] \notin {"idle", "rg_create"} \cup Terminal => sub[r] # None
  /\ \A r \in Requests :
       pc[r] \in {"lg_compare", "fr_user", "issue"} =>
         op[r] \in {"register", "login", "refresh"}

\* What is going to be issued will be as fresh as what is issued.
CarryInv == \A r \in Requests : Carrying(r) => Fresh(r)

\* The session in force was issued to its user, and is not one that is over.
SessionInv ==
  \A u \in Requests : refresh[u] # None =>
    /\ sub[refresh[u]] = u
    /\ pc[refresh[u]] \in Issued
    /\ refresh[u] \notin spent
    /\ Fresh(refresh[u])

\* Between the save and the DEL of change-password or reset-password.
UnrevokedInv ==
  \A c \in unrevoked : pc[c] \in {"cp_revoke", "rp_key", "rp_revoke", "failed"}

TokenInv ==
  /\ \A j \in spent : pc[j] \in Issued
  /\ \A j \in cookies : pc[j] = "done" /\ sub[j] # None

IInv ==
  /\ TypeOK
  /\ AccountInv
  /\ HandlerInv
  /\ CarryInv
  /\ SessionInv
  /\ UnrevokedInv
  /\ TokenInv

-----------------------------------------------------------------------------
(* The invariant holds at the start, and every step keeps each part of it *)

\* The accounts of the past, with a session each and nothing else in flight.
LEMMA IInvInit == Init => IInv
<1> SUFFICES ASSUME Init PROVE IInv
  OBVIOUS
<1> USE AuthAssumption DEF Init
<1>1. TypeOK
  BY DEF TypeOK, Labels, Terminal, AllOps
<1>2. AccountInv /\ HandlerInv /\ UnrevokedInv /\ TokenInv
  BY DEF AccountInv, HandlerInv, UnrevokedInv, TokenInv, Known, Issued, Terminal
<1>3. CarryInv /\ SessionInv
  BY DEF CarryInv, SessionInv, Carrying, Fresh, Issued
<1> QED
  BY <1>1, <1>2, <1>3 DEF IInv

\* Every step keeps the types.  (VerifySave is the one step that writes a
\* Boolean; the rest of the type invariant is first-order.)
LEMMA TypeStep == IInv /\ [Next]_vars => TypeOK'
<1> SUFFICES ASSUME IInv, [Next]_vars PROVE TypeOK'
  OBVIOUS
<1> USE AuthAssumption
    DEF IInv, Step, Begin, Compare, SavePassword, SetRefresh, Revoke, FindByEmail,
        HasAccess, users, redis, clients, locals, history,
        HandlerInv, TypeOK, Labels, Terminal, AllOps
<1>1. CASE UNCHANGED vars
  BY <1>1 DEF vars
<1>2. ASSUME NEW r \in Requests, Act(r) PROVE TypeOK'
  <2>1. CASE Registration(r)
    BY <2>1 DEF Registration, RegisterFind, RegisterCreate, ResendFind,
                     SetVerifyKey, MailVerifyToken
  <2>2. CASE Session(r)
    BY <2>2 DEF Session, LoginFind, LoginCompare, RefreshGet, RefreshUser,
                     IssueTokens, Respond, Logout
  <2>3. CASE PasswordChange(r)
    BY <2>3 DEF PasswordChange, ChangeFind, ChangeCompare, ChangeSave,
                     ChangeRevoke
  <2>4. CASE PasswordReset(r)
    BY <2>4 DEF PasswordReset, ForgotFind, SetResetKey, MailResetToken,
                     ResetGet, ResetUser, ResetSave, ResetDelKey, ResetRevoke
  <2>5. CASE Verification(r)
    <3>1. CASE VerifySave(r)
      <4>1. verified' \in [Requests -> BOOLEAN]
        BY <3>1 DEF VerifySave
      <4> QED
        BY <3>1, <4>1 DEF VerifySave
    <3>2. CASE VerifyGet(r) \/ VerifyUser(r) \/ VerifyNotify(r) \/ VerifyDelKey(r)
      BY <3>2 DEF VerifyGet, VerifyUser, VerifyNotify, VerifyDelKey
    <3> QED
      BY <2>5, <3>1, <3>2 DEF Verification
  <2>6. CASE Environment(r)
    BY <2>6 DEF Environment, Fail, DeleteUser, ExpireRefresh,
                     ExpireVerifyKey, ExpireResetKey
  <2> QED
    BY <1>2, <2>1, <2>2, <2>3, <2>4, <2>5, <2>6 DEF Act
<1> QED
  BY <1>1, <1>2 DEF Next

\* Keys and handlers name accounts that exist: an id comes from a document, an
\* issued token or a key, never from a request that has not created its account.
LEMMA AccountStep == IInv /\ [Next]_vars => AccountInv'
<1> SUFFICES ASSUME IInv, [Next]_vars PROVE AccountInv'
  OBVIOUS
<1> USE AuthAssumption
    DEF IInv, Step, Begin, Compare, SavePassword, SetRefresh, Revoke, FindByEmail,
        HasAccess, users, redis, clients, locals, history,
        TypeOK, AccountInv, TokenInv, Known, Terminal
<1>1. CASE UNCHANGED vars
  BY <1>1 DEF vars
<1>2. ASSUME NEW r \in Requests, Act(r) PROVE AccountInv'
  <2>1. CASE Registration(r)
    BY <2>1 DEF Registration, RegisterFind, RegisterCreate, ResendFind,
                     SetVerifyKey, MailVerifyToken
  <2>2. CASE Session(r)
    BY <2>2 DEF Session, LoginFind, LoginCompare, RefreshGet, RefreshUser,
                     IssueTokens, Respond, Logout
  <2>3. CASE PasswordChange(r)
    BY <2>3 DEF PasswordChange, ChangeFind, ChangeCompare, ChangeSave,
                     ChangeRevoke
  <2>4. CASE PasswordReset(r)
    BY <2>4 DEF PasswordReset, ForgotFind, SetResetKey, MailResetToken,
                     ResetGet, ResetUser, ResetSave, ResetDelKey, ResetRevoke
  <2>5. CASE Verification(r)
    BY <2>5 DEF Verification, VerifyGet, VerifyUser, VerifySave,
                     VerifyNotify, VerifyDelKey
  <2>6. CASE Environment(r)
    BY <2>6 DEF Environment, Fail, DeleteUser, ExpireRefresh,
                     ExpireVerifyKey, ExpireResetKey
  <2> QED
    BY <1>2, <2>1, <2>2, <2>3, <2>4, <2>5, <2>6 DEF Act
<1> QED
  BY <1>1, <1>2 DEF Next

\* A handler past its first command knows whom it works for.
LEMMA HandlerStep == IInv /\ [Next]_vars => HandlerInv'
<1> SUFFICES ASSUME IInv, [Next]_vars PROVE HandlerInv'
  OBVIOUS
<1> USE AuthAssumption
    DEF IInv, Step, Begin, Compare, SavePassword, SetRefresh, Revoke, FindByEmail,
        HasAccess, users, redis, clients, locals, history,
        TypeOK, HandlerInv, AccountInv, TokenInv, Terminal
<1>1. CASE UNCHANGED vars
  BY <1>1 DEF vars
<1>2. ASSUME NEW r \in Requests, Act(r) PROVE HandlerInv'
  <2>1. CASE Registration(r)
    BY <2>1 DEF Registration, RegisterFind, RegisterCreate, ResendFind,
                     SetVerifyKey, MailVerifyToken
  <2>2. CASE Session(r)
    BY <2>2 DEF Session, LoginFind, LoginCompare, RefreshGet, RefreshUser,
                     IssueTokens, Respond, Logout
  <2>3. CASE PasswordChange(r)
    BY <2>3 DEF PasswordChange, ChangeFind, ChangeCompare, ChangeSave,
                     ChangeRevoke
  <2>4. CASE PasswordReset(r)
    BY <2>4 DEF PasswordReset, ForgotFind, SetResetKey, MailResetToken,
                     ResetGet, ResetUser, ResetSave, ResetDelKey, ResetRevoke
  <2>5. CASE Verification(r)
    BY <2>5 DEF Verification, VerifyGet, VerifyUser, VerifySave,
                     VerifyNotify, VerifyDelKey
  <2>6. CASE Environment(r)
    BY <2>6 DEF Environment, Fail, DeleteUser, ExpireRefresh,
                     ExpireVerifyKey, ExpireResetKey
  <2> QED
    BY <1>2, <2>1, <2>2, <2>3, <2>4, <2>5, <2>6 DEF Act
<1> QED
  BY <1>1, <1>2 DEF Next

\* An authority in flight is fresh or excused: a save that makes it stale is
\* unfinished until the DEL, and the DEL that ends the save puts it in late.
LEMMA CarryStep == IInv /\ [Next]_vars => CarryInv'
<1> SUFFICES ASSUME IInv, [Next]_vars PROVE CarryInv'
  OBVIOUS
<1> USE AuthAssumption
    DEF IInv, Step, Begin, Compare, SavePassword, SetRefresh, Revoke, FindByEmail,
        HasAccess, users, redis, clients, locals, history,
        TypeOK, AccountInv, HandlerInv, CarryInv, SessionInv, UnrevokedInv, TokenInv,
        Carrying, Fresh, Unfinished, Known, Issued, Terminal
<1>1. CASE UNCHANGED vars
  BY <1>1 DEF vars
<1>2. ASSUME NEW r \in Requests, Act(r) PROVE CarryInv'
  <2>1. CASE Registration(r)
    BY <2>1 DEF Registration, RegisterFind, RegisterCreate, ResendFind,
                     SetVerifyKey, MailVerifyToken
  <2>2. CASE Session(r)
    BY <2>2 DEF Session, LoginFind, LoginCompare, RefreshGet, RefreshUser,
                     IssueTokens, Respond, Logout
  <2>3. CASE PasswordChange(r)
    BY <2>3 DEF PasswordChange, ChangeFind, ChangeCompare, ChangeSave,
                     ChangeRevoke
  <2>4. CASE PasswordReset(r)
    BY <2>4 DEF PasswordReset, ForgotFind, SetResetKey, MailResetToken,
                     ResetGet, ResetUser, ResetSave, ResetDelKey, ResetRevoke
  <2>5. CASE Verification(r)
    BY <2>5 DEF Verification, VerifyGet, VerifyUser, VerifySave,
                     VerifyNotify, VerifyDelKey
  <2>6. CASE Environment(r)
    BY <2>6 DEF Environment, Fail, DeleteUser, ExpireRefresh,
                     ExpireVerifyKey, ExpireResetKey
  <2> QED
    BY <1>2, <2>1, <2>2, <2>3, <2>4, <2>5, <2>6 DEF Act
<1> QED
  BY <1>1, <1>2 DEF Next

\* The session in force: IssueTokens puts an authority in flight in its place,
\* a save is unfinished until the DEL takes the session away.
LEMMA SessionStep == IInv /\ [Next]_vars => SessionInv'
<1> SUFFICES ASSUME IInv, [Next]_vars PROVE SessionInv'
  OBVIOUS
<1> USE AuthAssumption
    DEF IInv, Step, Begin, Compare, SavePassword, SetRefresh, Revoke, FindByEmail,
        HasAccess, users, redis, clients, locals, history,
        TypeOK, AccountInv, HandlerInv, CarryInv, SessionInv, UnrevokedInv, TokenInv,
        Carrying, Fresh, Unfinished, Known, Issued, Terminal
<1>1. CASE UNCHANGED vars
  BY <1>1 DEF vars
<1>2. ASSUME NEW r \in Requests, Act(r) PROVE SessionInv'
  <2>1. CASE Registration(r)
    BY <2>1 DEF Registration, RegisterFind, RegisterCreate, ResendFind,
                     SetVerifyKey, MailVerifyToken
  <2>2. CASE Session(r)
    BY <2>2 DEF Session, LoginFind, LoginCompare, RefreshGet, RefreshUser,
                     IssueTokens, Respond, Logout
  <2>3. CASE PasswordChange(r)
    BY <2>3 DEF PasswordChange, ChangeFind, ChangeCompare, ChangeSave,
                     ChangeRevoke
  <2>4. CASE PasswordReset(r)
    BY <2>4 DEF PasswordReset, ForgotFind, SetResetKey, MailResetToken,
                     ResetGet, ResetUser, ResetSave, ResetDelKey, ResetRevoke
  <2>5. CASE Verification(r)
    BY <2>5 DEF Verification, VerifyGet, VerifyUser, VerifySave,
                     VerifyNotify, VerifyDelKey
  <2>6. CASE Environment(r)
    BY <2>6 DEF Environment, Fail, DeleteUser, ExpireRefresh,
                     ExpireVerifyKey, ExpireResetKey
  <2> QED
    BY <1>2, <2>1, <2>2, <2>3, <2>4, <2>5, <2>6 DEF Act
<1> QED
  BY <1>1, <1>2 DEF Next

\* A save is taken off the list of unrevoked ones no later than its handler ends.
LEMMA UnrevokedStep == IInv /\ [Next]_vars => UnrevokedInv'
<1> SUFFICES ASSUME IInv, [Next]_vars PROVE UnrevokedInv'
  OBVIOUS
<1> USE AuthAssumption
    DEF IInv, Step, Begin, Compare, SavePassword, SetRefresh, Revoke, FindByEmail,
        HasAccess, users, redis, clients, locals, history,
        TypeOK, UnrevokedInv, HandlerInv, Terminal
<1>1. CASE UNCHANGED vars
  BY <1>1 DEF vars
<1>2. ASSUME NEW r \in Requests, Act(r) PROVE UnrevokedInv'
  <2>1. CASE Registration(r)
    BY <2>1 DEF Registration, RegisterFind, RegisterCreate, ResendFind,
                     SetVerifyKey, MailVerifyToken
  <2>2. CASE Session(r)
    BY <2>2 DEF Session, LoginFind, LoginCompare, RefreshGet, RefreshUser,
                     IssueTokens, Respond, Logout
  <2>3. CASE PasswordChange(r)
    BY <2>3 DEF PasswordChange, ChangeFind, ChangeCompare, ChangeSave,
                     ChangeRevoke
  <2>4. CASE PasswordReset(r)
    BY <2>4 DEF PasswordReset, ForgotFind, SetResetKey, MailResetToken,
                     ResetGet, ResetUser, ResetSave, ResetDelKey, ResetRevoke
  <2>5. CASE Verification(r)
    BY <2>5 DEF Verification, VerifyGet, VerifyUser, VerifySave,
                     VerifyNotify, VerifyDelKey
  <2>6. CASE Environment(r)
    BY <2>6 DEF Environment, Fail, DeleteUser, ExpireRefresh,
                     ExpireVerifyKey, ExpireResetKey
  <2> QED
    BY <1>2, <2>1, <2>2, <2>3, <2>4, <2>5, <2>6 DEF Act
<1> QED
  BY <1>1, <1>2 DEF Next

\* What is over and what clients hold was issued.
LEMMA TokenStep == IInv /\ [Next]_vars => TokenInv'
<1> SUFFICES ASSUME IInv, [Next]_vars PROVE TokenInv'
  OBVIOUS
<1> USE AuthAssumption
    DEF IInv, Step, Begin, Compare, SavePassword, SetRefresh, Revoke, FindByEmail,
        HasAccess, users, redis, clients, locals, history,
        TypeOK, HandlerInv, TokenInv, SessionInv, AccountInv, Known, Issued, Terminal
<1>1. CASE UNCHANGED vars
  BY <1>1 DEF vars
<1>2. ASSUME NEW r \in Requests, Act(r) PROVE TokenInv'
  <2>1. CASE Registration(r)
    BY <2>1 DEF Registration, RegisterFind, RegisterCreate, ResendFind,
                     SetVerifyKey, MailVerifyToken
  <2>2. CASE Session(r)
    BY <2>2 DEF Session, LoginFind, LoginCompare, RefreshGet, RefreshUser,
                     IssueTokens, Respond, Logout
  <2>3. CASE PasswordChange(r)
    BY <2>3 DEF PasswordChange, ChangeFind, ChangeCompare, ChangeSave,
                     ChangeRevoke
  <2>4. CASE PasswordReset(r)
    BY <2>4 DEF PasswordReset, ForgotFind, SetResetKey, MailResetToken,
                     ResetGet, ResetUser, ResetSave, ResetDelKey, ResetRevoke
  <2>5. CASE Verification(r)
    BY <2>5 DEF Verification, VerifyGet, VerifyUser, VerifySave,
                     VerifyNotify, VerifyDelKey
  <2>6. CASE Environment(r)
    BY <2>6 DEF Environment, Fail, DeleteUser, ExpireRefresh,
                     ExpireVerifyKey, ExpireResetKey
  <2> QED
    BY <1>2, <2>1, <2>2, <2>3, <2>4, <2>5, <2>6 DEF Act
<1> QED
  BY <1>1, <1>2 DEF Next

\* Every step keeps the inductive invariant as a whole.
LEMMA IInvStep == IInv /\ [Next]_vars => IInv'
  BY TypeStep, AccountStep, HandlerStep, CarryStep, SessionStep, UnrevokedStep,
     TokenStep DEF IInv

\* The inductive invariant holds in every state the handlers reach.
LEMMA Invariance == Spec => []IInv
  BY IInvInit, IInvStep, PTL DEF Spec

-----------------------------------------------------------------------------
(* Theorems *)

\* For every set of requests, accounts and addresses, every variable of the
\* handlers and the stores keeps its type.
THEOREM TypeCorrectness == Spec => []TypeOK
<1>1. IInv => TypeOK
  BY DEF IInv
<1> QED
  BY <1>1, Invariance, PTL

\* A refresh token resting on a replaced password is accepted only while the
\* change that replaced it is unfinished, or if the login or refresh behind it
\* was already past its check when the session was revoked.
THEOREM SessionFreshness == Spec => []NoStaleSession
<1>1. IInv => NoStaleSession
  BY DEF IInv, SessionInv, NoStaleSession
<1> QED
  BY <1>1, Invariance, PTL

\* However old the cookies and however late the handlers, refresh accepts no
\* jti that was rotated out, logged out, revoked or has expired.
THEOREM RotationIsFinal == Spec => SpentNeverAccepted
<1>1. ASSUME IInv, [Next]_vars
      PROVE  [\A r \in Requests : pc[r] = "idle" /\ pc'[r] = "fr_user"
                                    => tok'[r] \notin spent]_vars
  <2> SUFFICES ASSUME NEW q \in Requests, Act(q),
                      NEW r \in Requests, pc[r] = "idle", pc'[r] = "fr_user"
               PROVE  tok'[r] \notin spent
    BY <1>1 DEF Next
  <2>1. RefreshGet(r)
    BY <1>1 DEF IInv, TypeOK, Act, Step, Begin, Compare, SavePassword, Terminal,
       Registration, RegisterFind, RegisterCreate, ResendFind, SetVerifyKey,
       MailVerifyToken, Session, LoginFind, LoginCompare, RefreshGet, RefreshUser,
       IssueTokens, Respond, Logout, PasswordChange, ChangeFind, ChangeCompare,
       ChangeSave, ChangeRevoke, PasswordReset, ForgotFind, SetResetKey,
       MailResetToken, ResetGet, ResetUser, ResetSave, ResetDelKey, ResetRevoke,
       Verification, VerifyGet, VerifyUser, VerifySave, VerifyNotify, VerifyDelKey,
       Environment, Fail, DeleteUser, ExpireRefresh, ExpireVerifyKey, ExpireResetKey
  <2>2. PICK t \in cookies : refresh[sub[t]] = t /\ tok' = [tok EXCEPT ![r] = t]
    BY <1>1, <2>1 DEF RefreshGet, Begin, Step, IInv, TypeOK
  <2>3. sub[t] \in Requests /\ refresh[sub[t]] # None
    BY <1>1, <2>2, AuthAssumption DEF IInv, TypeOK, TokenInv
  <2> QED
    BY <1>1, <2>2, <2>3 DEF IInv, TypeOK, SessionInv
<1> QED
  BY <1>1, Invariance, PTL DEF Spec, SpentNeverAccepted

\* What the handlers write to refresh_token:<user> is what a registry of single
\* sessions does: they open sessions nobody has had, and close what is open.
THEOREM RegistryRefinement == Spec => ImplementsRegistry
<1>1. Init => Registry!Init
  BY AuthAssumption DEF Init, Registry!Init
<1>2. ASSUME IInv, [Next]_vars PROVE [Registry!Next]_(Registry!vars)
  <2> USE <1>2 DEF Registry!vars
  <2>1. ASSUME NEW u \in Requests, SetRefresh(u, None)
        PROVE  [Registry!Next]_(Registry!vars)
    <3>1. CASE refresh[u] = None
      <4>1. refresh' = refresh
        BY <2>1, <3>1 DEF SetRefresh, IInv, TypeOK
      <4>2. spent' = spent
        BY <2>1, <3>1 DEF SetRefresh
      <4> QED
        BY <4>1, <4>2
    <3>2. CASE refresh[u] # None
      BY <2>1, <3>2 DEF SetRefresh, Registry!Next, Registry!Close
    <3> QED
      BY <3>1, <3>2
  <2>2. ASSUME NEW r \in Requests, IssueTokens(r) PROVE Registry!Next
    <3>1. sub[r] \in Requests
      BY <2>2 DEF IssueTokens, Step, IInv, TypeOK, HandlerInv, Terminal
    <3>2. r \notin spent /\ \A v \in Requests : refresh[v] # r
      BY <2>2, AuthAssumption DEF IssueTokens, Step, IInv, TypeOK, TokenInv,
         SessionInv, Issued
    <3> QED
      BY <2>2, <3>1, <3>2 DEF IssueTokens, SetRefresh, Registry!Next, Registry!Open
  <2>3. ASSUME NEW r \in Requests, Act(r), ~ IssueTokens(r)
        PROVE  \/ UNCHANGED <<refresh, spent>>
               \/ \E u \in Requests : SetRefresh(u, None)
    BY <2>3 DEF IInv, TypeOK, HandlerInv, Act, Step, Compare, SavePassword, Terminal,
       Revoke, redis, history,
       Registration, RegisterFind, RegisterCreate, ResendFind, SetVerifyKey,
       MailVerifyToken, Session, LoginFind, LoginCompare, RefreshGet, RefreshUser,
       Respond, Logout, PasswordChange, ChangeFind, ChangeCompare,
       ChangeSave, ChangeRevoke, PasswordReset, ForgotFind, SetResetKey,
       MailResetToken, ResetGet, ResetUser, ResetSave, ResetDelKey, ResetRevoke,
       Verification, VerifyGet, VerifyUser, VerifySave, VerifyNotify, VerifyDelKey,
       Environment, Fail, DeleteUser, ExpireRefresh, ExpireVerifyKey, ExpireResetKey
  <2>4. CASE UNCHANGED vars
    BY <2>4 DEF vars, redis, history
  <2> QED
    BY <2>1, <2>2, <2>3, <2>4 DEF Next
<1> QED
  BY <1>1, <1>2, Invariance, PTL DEF Spec, ImplementsRegistry, Registry!Spec

=============================================================================
