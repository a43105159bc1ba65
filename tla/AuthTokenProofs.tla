-------------------------- MODULE AuthTokenProofs --------------------------
(***************************************************************************)
(* The one-time tokens and the addresses of AuthService for any number of  *)
(* requests: what a reset or verification link still opens, and who has an *)
(* address.                                                                *)
(***************************************************************************)
EXTENDS AuthServiceProofs

-----------------------------------------------------------------------------
(* The inductive invariant *)

\* A mailed token has been through SET: nobody will write its key again.
MailInv == \A t \in mail : pc[t] \in {"issue"} \cup Issued

ResetLabels == {"rp_user", "rp_save", "rp_key", "rp_revoke"}

\* A reset that goes on holds a mailed token, and past the DEL a used one.
ResetInv ==
  /\ \A c \in Requests : pc[c] \in ResetLabels => op[c] = "reset"
  /\ \A c \in Requests : op[c] = "reset" /\ pc[c] # "idle" =>
       /\ pc[c] \in ResetLabels \cup Terminal
       /\ pc[c] # "failed" => tok[c] \in mail
       /\ pc[c] \in {"rp_revoke", "done"} => resetKey[tok[c]] = None

\* A verification that goes on works for the account its link still names, and
\* comes to the DEL with the welcome created.
VerifyInv ==
  \A r \in Requests :
    /\ pc[r] \in {"vf_user", "vf_save", "vf_notify", "vf_key"} =>
         tok[r] \in mail /\ verifyKey[tok[r]] \in {None, sub[r]}
    /\ pc[r] = "vf_key" => r \in welcome

TokInv == MailInv /\ ResetInv /\ VerifyInv /\ UniqueEmail

-----------------------------------------------------------------------------
(* The invariant holds at the start, and every step keeps each part of it *)

\* The accounts of the past are at addresses of their own, and their links unused.
LEMMA TokInvInit == Init => TokInv
<1> SUFFICES ASSUME Init PROVE TokInv
  OBVIOUS
<1> USE AuthAssumption DEF Init
<1>1. MailInv /\ ResetInv /\ VerifyInv
  BY DEF MailInv, ResetInv, VerifyInv, ResetLabels, Issued, Terminal
<1>2. UniqueEmail
  BY DEF UniqueEmail
<1> QED
  BY <1>1, <1>2 DEF TokInv

\* A token is mailed after its key is set, and its handler only goes on from there.
LEMMA MailStep == IInv /\ MailInv /\ [Next]_vars => MailInv'
<1> SUFFICES ASSUME IInv, MailInv, [Next]_vars PROVE MailInv'
  OBVIOUS
<1> USE AuthAssumption
    DEF IInv, Step, Begin, Compare, SavePassword, SetRefresh, Revoke, FindByEmail,
        HasAccess, users, redis, clients, locals, history,
        TypeOK, MailInv, Issued, Terminal
<1>1. CASE UNCHANGED vars
  BY <1>1 DEF vars
<1>2. ASSUME NEW r \in Requests, Act(r) PROVE MailInv'
  <2>1. CASE Registration(r)
    BY <2>1 DEF Registration, RegisterFind, RegisterCreate, ResendFind,
                     SetVerifyKey, MailVerifyToken
  <2>2. CASE Session(r)
    BY <2>2 DEF Session, LoginFind, LoginCompare, RefreshGet, RefreshUser,
                     IssueTokens, Respond, Logout
  <2>3. CASE PasswordChange(r)
    BY <2>3 DEF PasswordChange, ChangeFind, ChangeCompare, ChangeSave,
                     ChangeRevoke
  <2>4. CASE PasswordReset(r)
    BY <2>4 DEF PasswordReset, ForgotFind, SetResetKey, MailResetToken,
                     ResetGet, ResetUser, ResetSave, ResetDelKey, ResetRevoke
  <2>5. CASE Verification(r)
    BY <2>5 DEF Verification, VerifyGet, VerifyUser, VerifySave,
                     VerifyNotify, VerifyDelKey
  <2>6. CASE Environment(r)
    BY <2>6 DEF Environment, Fail, DeleteUser, ExpireRefresh,
                     ExpireVerifyKey, ExpireResetKey
  <2> QED
    BY <1>2, <2>1, <2>2, <2>3, <2>4, <2>5, <2>6 DEF Act
<1> QED
  BY <1>1, <1>2 DEF Next

\* The key of a mailed token only ever goes away, and a reset takes it away.
LEMMA ResetStep == IInv /\ MailInv /\ ResetInv /\ [Next]_vars => ResetInv'
<1> SUFFICES ASSUME IInv, MailInv, ResetInv, [Next]_vars PROVE ResetInv'
  OBVIOUS
<1> USE AuthAssumption
    DEF IInv, Step, Begin, Compare, SavePassword, SetRefresh, Revoke, FindByEmail,
        HasAccess, users, redis, clients, locals, history,
        TypeOK, MailInv, ResetInv, ResetLabels, Issued, Terminal
<1>1. CASE UNCHANGED vars
  BY <1>1 DEF vars
<1>2. ASSUME NEW r \in Requests, Act(r) PROVE ResetInv'
  <2>1. CASE Registration(r)
    BY <2>1 DEF Registration, RegisterFind, RegisterCreate, ResendFind,
                     SetVerifyKey, MailVerifyToken
  <2>2. CASE Session(r)
    BY <2>2 DEF Session, LoginFind, LoginCompare, RefreshGet, RefreshUser,
                     IssueTokens, Respond, Logout
  <2>3. CASE PasswordChange(r)
    BY <2>3 DEF PasswordChange, ChangeFind, ChangeCompare, ChangeSave,
                     ChangeRevoke
  <2>4. CASE PasswordReset(r)
    BY <2>4 DEF PasswordReset, ForgotFind, SetResetKey, MailResetToken,
                     ResetGet, ResetUser, ResetSave, ResetDelKey, ResetRevoke
  <2>5. CASE Verification(r)
    BY <2>5 DEF Verification, VerifyGet, VerifyUser, VerifySave,
                     VerifyNotify, VerifyDelKey
  <2>6. CASE Environment(r)
    BY <2>6 DEF Environment, Fail, DeleteUser, ExpireRefresh,
                     ExpireVerifyKey, ExpireResetKey
  <2> QED
    BY <1>2, <2>1, <2>2, <2>3, <2>4, <2>5, <2>6 DEF Act
<1> QED
  BY <1>1, <1>2 DEF Next

\* The key of a mailed link keeps naming one account, the one its verifications
\* work for.
LEMMA VerifyStep == IInv /\ MailInv /\ VerifyInv /\ [Next]_vars => VerifyInv'
<1> SUFFICES ASSUME IInv, MailInv, VerifyInv, [Next]_vars PROVE VerifyInv'
  OBVIOUS
<1> USE AuthAssumption
    DEF IInv, Step, Begin, Compare, SavePassword, SetRefresh, Revoke, FindByEmail,
        HasAccess, users, redis, clients, locals, history,
        TypeOK, MailInv, VerifyInv, Issued, Terminal
<1>1. CASE UNCHANGED vars
  BY <1>1 DEF vars
<1>2. ASSUME NEW r \in Requests, Act(r) PROVE VerifyInv'
  <2>1. CASE Registration(r)
    BY <2>1 DEF Registration, RegisterFind, RegisterCreate, ResendFind,
                     SetVerifyKey, MailVerifyToken
  <2>2. CASE Session(r)
    BY <2>2 DEF Session, LoginFind, LoginCompare, RefreshGet, RefreshUser,
                     IssueTokens, Respond, Logout
  <2>3. CASE PasswordChange(r)
    BY <2>3 DEF PasswordChange, ChangeFind, ChangeCompare, ChangeSave,
                     ChangeRevoke
  <2>4. CASE PasswordReset(r)
    BY <2>4 DEF PasswordReset, ForgotFind, SetResetKey, MailResetToken,
                     ResetGet, ResetUser, ResetSave, ResetDelKey, ResetRevoke
  <2>5. CASE Verification(r)
    BY <2>5 DEF Verification, VerifyGet, VerifyUser, VerifySave,
                     VerifyNotify, VerifyDelKey
  <2>6. CASE Environment(r)
    BY <2>6 DEF Environment, Fail, DeleteUser, ExpireRefresh,
                     ExpireVerifyKey, ExpireResetKey
  <2> QED
    BY <1>2, <2>1, <2>2, <2>3, <2>4, <2>5, <2>6 DEF Act
<1> QED
  BY <1>1, <1>2 DEF Next

\* The address of a live account is settled, and an insert finds nobody at it.
LEMMA UniqueEmailStep == IInv /\ UniqueEmail /\ [Next]_vars => UniqueEmail'
<1> SUFFICES ASSUME IInv, UniqueEmail, [Next]_vars PROVE UniqueEmail'
  OBVIOUS
<1> USE AuthAssumption
    DEF IInv, Step, Begin, Compare, SavePassword, SetRefresh, Revoke, FindByEmail,
        HasAccess, users, redis, clients, locals, history,
        TypeOK, UniqueEmail, AccountInv, Known, Terminal
<1>1. CASE UNCHANGED vars
  BY <1>1 DEF vars
<1>2. ASSUME NEW r \in Requests, Act(r) PROVE UniqueEmail'
  <2>1. CASE Registration(r)
    BY <2>1 DEF Registration, RegisterFind, RegisterCreate, ResendFind,
                     SetVerifyKey, MailVerifyToken
  <2>2. CASE Session(r)
    BY <2>2 DEF Session, LoginFind, LoginCompare, RefreshGet, RefreshUser,
                     IssueTokens, Respond, Logout
  <2>3. CASE PasswordChange(r)
    BY <2>3 DEF PasswordChange, ChangeFind, ChangeCompare, ChangeSave,
                     ChangeRevoke
  <2>4. CASE PasswordReset(r)
    BY <2>4 DEF PasswordReset, ForgotFind, SetResetKey, MailResetToken,
                     ResetGet, ResetUser, ResetSave, ResetDelKey, ResetRevoke
  <2>5. CASE Verification(r)
    BY <2>5 DEF Verification, VerifyGet, VerifyUser, VerifySave,
                     VerifyNotify, VerifyDelKey
  <2>6. CASE Environment(r)
    BY <2>6 DEF Environment, Fail, DeleteUser, ExpireRefresh,
                     ExpireVerifyKey, ExpireResetKey
  <2> QED
    BY <1>2, <2>1, <2>2, <2>3, <2>4, <2>5, <2>6 DEF Act
<1> QED
  BY <1>1, <1>2 DEF Next

\* The token invariant holds in every state the handlers reach.
LEMMA TokenInvariance == Spec => [](IInv /\ TokInv)
<1>1. IInv /\ TokInv /\ [Next]_vars => TokInv'
  BY MailStep, ResetStep, VerifyStep, UniqueEmailStep DEF TokInv
<1> QED
  BY <1>1, TokInvInit, Invariance, PTL DEF Spec

-----------------------------------------------------------------------------
(* Theorems *)

\* However many registrations, deletions and re-registrations meet at an address,
\* one live account has it.
THEOREM AddressesAreUnique == Spec => []UniqueEmail
<1>1. TokInv => UniqueEmail
  BY DEF TokInv
<1> QED
  BY <1>1, TokenInvariance, PTL

\* A reset link that a finished reset came with lets no later call in.
THEOREM UsedResetTokens == Spec => UsedResetTokenRefused
<1>1. ASSUME IInv, TokInv, [Next]_vars
      PROVE  [\A r \in Requests : pc[r] = "idle" /\ pc'[r] = "rp_user" =>
                \A c \in Requests :
                  op[c] = "reset" /\ pc[c] = "done" => tok[c] # tok'[r]]_vars
  <2> SUFFICES ASSUME NEW q \in Requests, Act(q),
                      NEW r \in Requests, pc[r] = "idle", pc'[r] = "rp_user"
               PROVE  resetKey[tok'[r]] # None
    BY <1>1 DEF Next, TokInv, ResetInv
  <2>1. ResetGet(r)
    BY <1>1 DEF IInv, TypeOK, Act, Step, Begin, Compare, SavePassword, Terminal,
       Registration, RegisterFind, RegisterCreate, ResendFind, SetVerifyKey,
       MailVerifyToken, Session, LoginFind, LoginCompare, RefreshGet, RefreshUser,
       IssueTokens, Respond, Logout, PasswordChange, ChangeFind, ChangeCompare,
       ChangeSave, ChangeRevoke, PasswordReset, ForgotFind, SetResetKey,
       MailResetToken, ResetGet, ResetUser, ResetSave, ResetDelKey, ResetRevoke,
       Verification, VerifyGet, VerifyUser, VerifySave, VerifyNotify, VerifyDelKey,
       Environment, Fail, DeleteUser, ExpireRefresh, ExpireVerifyKey, ExpireResetKey
  <2> QED
    BY <1>1, <2>1 DEF ResetGet, Begin, Step, IInv, TypeOK
<1> QED
  BY <1>1, TokenInvariance, PTL DEF Spec, UsedResetTokenRefused

\* A verification link is deleted only when its account has its welcome.
THEOREM WelcomeComesFirst == Spec => WelcomeNotLost
<1>1. ASSUME IInv, TokInv, [Next]_vars
      PROVE  [\A t \in Requests : verifyKey[t] # None /\ verifyKey'[t] = None =>
                \/ ExpireVerifyKey(t)
                \/ \E w \in welcome : sub[w] = verifyKey[t]]_vars
  <2> SUFFICES ASSUME NEW r \in Requests, Act(r), NEW t \in Requests,
                      verifyKey[t] # None, verifyKey'[t] = None,
                      ~ ExpireVerifyKey(t)
               PROVE  \E w \in welcome : sub[w] = verifyKey[t]
    BY <1>1 DEF Next
  <2>1. VerifyDelKey(r) /\ tok[r] = t
    BY <1>1, AuthAssumption DEF IInv, TypeOK, HandlerInv, redis, Revoke, SetRefresh, Act, Step, Begin, Compare, SavePassword, Terminal,
       Registration, RegisterFind, RegisterCreate, ResendFind, SetVerifyKey,
       MailVerifyToken, Session, LoginFind, LoginCompare, RefreshGet, RefreshUser,
       IssueTokens, Respond, Logout, PasswordChange, ChangeFind, ChangeCompare,
       ChangeSave, ChangeRevoke, PasswordReset, ForgotFind, SetResetKey,
       MailResetToken, ResetGet, ResetUser, ResetSave, ResetDelKey, ResetRevoke,
       Verification, VerifyGet, VerifyUser, VerifySave, VerifyNotify, VerifyDelKey,
       Environment, Fail, DeleteUser, ExpireRefresh, ExpireVerifyKey, ExpireResetKey
  <2> QED
    BY <1>1, <2>1 DEF VerifyDelKey, Step, TokInv, VerifyInv
<1> QED
  BY <1>1, TokenInvariance, PTL DEF Spec, WelcomeNotLost

=============================================================================
