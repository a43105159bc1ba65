---------------------------- MODULE AuthService ----------------------------
(***************************************************************************)
(* The HTTP handlers of src/modules/auth over the two stores they share:   *)
(* the users collection in Mongo and the token keys in Redis.              *)
(*                                                                         *)
(* A handler is a process that runs one store command per step: a step is  *)
(* the moment the awaited command takes effect, together with the code up  *)
(* to the next await.  Handlers interleave at every await, a command may   *)
(* be rejected (Fail), and a Redis key may expire between any two steps.   *)
(*                                                                         *)
(* Every identifier the server makes up is fresh, so each is named by the  *)
(* request that made it: request r creates the account r, hashes the       *)
(* password r, signs the refresh token whose jti is r, mails the token r.  *)
(***************************************************************************)
CONSTANTS
  Requests,    \* HTTP requests, past and future
  Registered,  \* those of the past: accounts registered and signed in
  Emails,      \* e-mail addresses; a registered account is at its own name
  Ops,         \* the operations clients call in this instance
  None         \* no value: an absent key, a field not yet assigned

AllOps == {"register", "login", "refresh", "logout", "change",
           "forgot", "reset", "resend", "verify"}

ASSUME AuthAssumption ==
  /\ Registered \subseteq Requests \cap Emails
  /\ Ops \subseteq AllOps
  /\ None \notin Requests

VARIABLES
  status, email, password, verified,  \* Mongo, users: fields by _id
  welcome,    \* Mongo, notifications: the requests that created a welcome
  refresh,    \* Redis, refresh_token:<user>: the jti accepted for the user
  verifyKey,  \* Redis, email_verify:<hash of token>: the account it verifies
  resetKey,   \* Redis, password_reset:<hash of token>: the account it resets
  cookies,    \* the refresh tokens clients were handed (with an access token)
  mail,       \* the e-mailed tokens that reached their reader
  pc, op,     \* where each request's handler stands, and which it runs
  sub, tok,   \* the account it works on, and the token it was called with
  seen,       \* the password hash its authority rests on
  spent,      \* history: the jtis that have left the registry
  late,       \* history: requests that held an old password at a revocation
  unrevoked   \* history: password saves no revocation has followed

users   == <<status, email, password, verified>>
redis   == <<refresh, verifyKey, resetKey>>
clients == <<cookies, mail>>
locals  == <<sub, tok, seen>>
history == <<spent, late, unrevoked>>
vars    == <<users, welcome, redis, clients, pc, op, locals, history>>

Terminal == {"done", "failed"}
Labels   == {"idle", "issue", "respond",
             "rg_create", "verify_key", "verify_mail", "lg_compare", "fr_user",
             "cp_compare", "cp_save", "cp_revoke",
             "fp_key", "fp_mail", "rp_user", "rp_save", "rp_key", "rp_revoke",
             "vf_user", "vf_save", "vf_notify", "vf_key"} \cup Terminal

-----------------------------------------------------------------------------
Step(r, from, to) ==
  /\ pc[r] = from
  /\ pc' = [pc EXCEPT ![r] = to]

\* A client's call reaches handler o and its first command takes effect.
Begin(r, o, to) ==
  /\ o \in Ops
  /\ Step(r, "idle", to)
  /\ op' = [op EXCEPT ![r] = o]

FindByEmail(e) == {u \in Requests : status[u] = "live" /\ email[u] = e}

\* authenticate: an access token was handed to a client beside each cookie;
\* it is not looked up anywhere, so it outlives its account and its session.
HasAccess(u) == \E j \in cookies : sub[j] = u

\* The request has passed its check and has tokens yet to be issued for it.
Carrying(r) ==
  /\ op[r] \in {"register", "login", "refresh"}
  /\ pc[r] \in {"verify_key", "verify_mail", "lg_compare", "fr_user", "issue"}

\* SET or DEL of refresh_token:<u>.
SetRefresh(u, j) ==
  /\ refresh' = [refresh EXCEPT ![u] = j]
  /\ spent' = spent \cup ({refresh[u]} \ {None})

\* The DEL of logout, change-password and reset-password.
Revoke(u) ==
  /\ SetRefresh(u, None)
  /\ late' = late \cup
       {r \in Requests : Carrying(r) /\ sub[r] = u /\ seen[r] # password[u]}
  /\ unrevoked' = {r \in unrevoked : sub[r] # u}

\* comparePassword: bcrypt of what the caller typed against the hash read.
Compare(r, from, to) ==
  /\ \E typed \in Requests : Step(r, from, IF typed = seen[r] THEN to ELSE "failed")
  /\ UNCHANGED <<users, welcome, redis, clients, op, locals, history>>

\* Mutant: the pre-save hook does not run, and the text typed is stored.
SavePlainPassword(r, from, to) ==
  /\ pc[r] = from
  /\ status[sub[r]] = "live"
  /\ Step(r, from, to)
  /\ password' = [password EXCEPT ![sub[r]] = "plain text"]
  /\ unrevoked' = unrevoked \cup {r}
  /\ UNCHANGED <<status, email, verified, welcome, redis, clients, op, locals,
                 spent, late>>

\* user.save() after a change of password: pre-save hash, then an update of
\* that document, which is an error when the document is gone.
SavePassword(r, from, to) ==
  /\ pc[r] = from
  /\ \/ /\ status[sub[r]] = "live"
        /\ Step(r, from, to)
        /\ password' = [password EXCEPT ![sub[r]] = r]
        /\ unrevoked' = unrevoked \cup {r}
     \/ /\ status[sub[r]] # "live"
        /\ Step(r, from, "failed")
        /\ UNCHANGED <<password, unrevoked>>
  /\ UNCHANGED <<status, email, verified, welcome, redis, clients, op, locals,
                 spent, late>>

-----------------------------------------------------------------------------
(* register *)

RegisterFind(r) ==
  /\ \E e \in Emails :
       \/ /\ FindByEmail(e) = {}
          /\ Begin(r, "register", "rg_create")
          /\ email' = [email EXCEPT ![r] = e]
       \/ /\ FindByEmail(e) # {}
          /\ Begin(r, "register", "failed")
          /\ UNCHANGED email
  /\ UNCHANGED <<status, password, verified, welcome, redis, clients, locals,
                 history>>

\* Mutant: the email field has no unique index.
RegisterCreateUnindexed(r) ==
  /\ Step(r, "rg_create", "verify_key")
  /\ status' = [status EXCEPT ![r] = "live"]
  /\ password' = [password EXCEPT ![r] = r]
  /\ sub' = [sub EXCEPT ![r] = r]
  /\ seen' = [seen EXCEPT ![r] = r]
  /\ UNCHANGED <<email, verified, welcome, redis, clients, op, tok, history>>

\* The insert is refused by the unique index when the address was taken.
RegisterCreate(r) ==
  /\ \/ /\ FindByEmail(email[r]) = {}
        /\ Step(r, "rg_create", "verify_key")
        /\ status' = [status EXCEPT ![r] = "live"]
        /\ password' = [password EXCEPT ![r] = r]
        /\ sub' = [sub EXCEPT ![r] = r]
        /\ seen' = [seen EXCEPT ![r] = r]
     \/ /\ FindByEmail(email[r]) # {}
        /\ Step(r, "rg_create", "failed")
        /\ UNCHANGED <<status, password, sub, seen>>
  /\ UNCHANGED <<email, verified, welcome, redis, clients, op, tok, history>>

(* sendVerificationEmail, of register and of resend-verification *)

SetVerifyKey(r) ==
  /\ Step(r, "verify_key", "verify_mail")
  /\ verifyKey' = [verifyKey EXCEPT ![r] = sub[r]]
  /\ UNCHANGED <<users, welcome, refresh, resetKey, clients, op, locals, history>>

\* sendEmail swallows its errors, so the handler goes on mail or no mail.
MailVerifyToken(r) ==
  /\ Step(r, "verify_mail", IF op[r] = "register" THEN "issue" ELSE "done")
  /\ mail' \in {mail, mail \cup {r}}
  /\ UNCHANGED <<users, welcome, redis, cookies, op, locals, history>>

\* No account, or a verified one: the answer is the same and nothing is sent.
ResendFind(r) ==
  /\ \E e \in Emails :
       \/ \E u \in FindByEmail(e) :
            /\ ~verified[u]
            /\ Begin(r, "resend", "verify_key")
            /\ sub' = [sub EXCEPT ![r] = u]
       \/ /\ \A u \in FindByEmail(e) : verified[u]
          /\ Begin(r, "resend", "done")
          /\ UNCHANGED sub
  /\ UNCHANGED <<users, welcome, redis, clients, tok, seen, history>>

(* issueTokens, the end of register, login and refresh *)

\* Mutant: refresh hands the same jti out again instead of rotating it.
IssueTokensUnrotated(r) ==
  /\ Step(r, "issue", "respond")
  /\ SetRefresh(sub[r], IF op[r] = "refresh" THEN tok[r] ELSE r)
  /\ UNCHANGED <<users, welcome, verifyKey, resetKey, clients, op, locals, late,
                 unrevoked>>

IssueTokens(r) ==
  /\ Step(r, "issue", "respond")
  /\ SetRefresh(sub[r], r)
  /\ UNCHANGED <<users, welcome, verifyKey, resetKey, clients, op, locals, late,
                 unrevoked>>

Respond(r) ==
  /\ Step(r, "respond", "done")
  /\ cookies' = cookies \cup {r}
  /\ UNCHANGED <<users, welcome, redis, mail, op, locals, history>>

(* login *)

LoginFind(r) ==
  /\ \E e \in Emails :
       \/ \E u \in FindByEmail(e) :
            /\ Begin(r, "login", "lg_compare")
            /\ sub' = [sub EXCEPT ![r] = u]
            /\ seen' = [seen EXCEPT ![r] = password[u]]
       \/ /\ FindByEmail(e) = {}
          /\ Begin(r, "login", "failed")
          /\ UNCHANGED <<sub, seen>>
  /\ UNCHANGED <<users, welcome, redis, clients, tok, history>>

LoginCompare(r) == Compare(r, "lg_compare", "issue")

(* refresh *)

\* Mutant: any session of the user will do, storedJti is not compared.
RefreshGetAny(r) ==
  /\ \E t \in cookies :
       /\ refresh[sub[t]] # None
       /\ Begin(r, "refresh", "fr_user")
       /\ tok' = [tok EXCEPT ![r] = t]
       /\ sub' = [sub EXCEPT ![r] = sub[t]]
       /\ seen' = [seen EXCEPT ![r] = seen[t]]
  /\ UNCHANGED <<users, welcome, redis, clients, history>>

RefreshGet(r) ==
  /\ \E t \in cookies :
       \/ /\ refresh[sub[t]] = t
          /\ Begin(r, "refresh", "fr_user")
          /\ tok' = [tok EXCEPT ![r] = t]
          /\ sub' = [sub EXCEPT ![r] = sub[t]]
          /\ seen' = [seen EXCEPT ![r] = seen[t]]
          /\ late' = IF t \in late THEN late \cup {r} ELSE late
       \/ /\ refresh[sub[t]] # t
          /\ Begin(r, "refresh", "failed")
          /\ UNCHANGED <<locals, late>>
  /\ UNCHANGED <<users, welcome, redis, clients, spent, unrevoked>>

RefreshUser(r) ==
  /\ Step(r, "fr_user", IF status[sub[r]] = "live" THEN "issue" ELSE "failed")
  /\ UNCHANGED <<users, welcome, redis, clients, op, locals, history>>

(* logout *)

Logout(r) ==
  /\ \E u \in Requests :
       /\ HasAccess(u)
       /\ Begin(r, "logout", "done")
       /\ sub' = [sub EXCEPT ![r] = u]
       /\ Revoke(u)
  /\ UNCHANGED <<users, welcome, verifyKey, resetKey, clients, tok, seen>>

(* change-password *)

ChangeFind(r) ==
  /\ \E u \in Requests :
       /\ HasAccess(u)
       /\ sub' = [sub EXCEPT ![r] = u]
       /\ \/ /\ status[u] = "live"
             /\ Begin(r, "change", "cp_compare")
             /\ seen' = [seen EXCEPT ![r] = password[u]]
          \/ /\ status[u] # "live"
             /\ Begin(r, "change", "failed")
             /\ UNCHANGED seen
  /\ UNCHANGED <<users, welcome, redis, clients, tok, history>>

ChangeCompare(r) == Compare(r, "cp_compare", "cp_save")

ChangeSave(r) == SavePassword(r, "cp_save", "cp_revoke")

\* Mutant: change-password leaves the session alone.
ChangeWithoutRevoke(r) ==
  /\ Step(r, "cp_revoke", "done")
  /\ UNCHANGED <<users, welcome, redis, clients, op, locals, history>>

ChangeRevoke(r) ==
  /\ Step(r, "cp_revoke", "done")
  /\ Revoke(sub[r])
  /\ UNCHANGED <<users, welcome, verifyKey, resetKey, clients, op, locals>>

(* forgot-password *)

ForgotFind(r) ==
  /\ \E e \in Emails :
       \/ \E u \in FindByEmail(e) :
            /\ Begin(r, "forgot", "fp_key")
            /\ sub' = [sub EXCEPT ![r] = u]
       \/ /\ FindByEmail(e) = {}
          /\ Begin(r, "forgot", "done")
          /\ UNCHANGED sub
  /\ UNCHANGED <<users, welcome, redis, clients, tok, seen, history>>

SetResetKey(r) ==
  /\ Step(r, "fp_key", "fp_mail")
  /\ resetKey' = [resetKey EXCEPT ![r] = sub[r]]
  /\ UNCHANGED <<users, welcome, refresh, verifyKey, clients, op, locals, history>>

MailResetToken(r) ==
  /\ Step(r, "fp_mail", "done")
  /\ mail' \in {mail, mail \cup {r}}
  /\ UNCHANGED <<users, welcome, redis, cookies, op, locals, history>>

(* reset-password *)

ResetGet(r) ==
  /\ \E t \in {q \in mail : op[q] = "forgot"} :
       \/ /\ resetKey[t] # None
          /\ Begin(r, "reset", "rp_user")
          /\ tok' = [tok EXCEPT ![r] = t]
          /\ sub' = [sub EXCEPT ![r] = resetKey[t]]
       \/ /\ resetKey[t] = None
          /\ Begin(r, "reset", "failed")
          /\ UNCHANGED <<tok, sub>>
  /\ UNCHANGED <<users, welcome, redis, clients, seen, history>>

ResetUser(r) ==
  /\ Step(r, "rp_user", IF status[sub[r]] = "live" THEN "rp_save" ELSE "failed")
  /\ UNCHANGED <<users, welcome, redis, clients, op, locals, history>>

ResetSave(r) == SavePassword(r, "rp_save", "rp_key")

\* Mutant: the reset token stays in Redis until it expires.
ResetKeepsKey(r) ==
  /\ Step(r, "rp_key", "rp_revoke")
  /\ UNCHANGED <<users, welcome, redis, clients, op, locals, history>>

ResetDelKey(r) ==
  /\ Step(r, "rp_key", "rp_revoke")
  /\ resetKey' = [resetKey EXCEPT ![tok[r]] = None]
  /\ UNCHANGED <<users, welcome, refresh, verifyKey, clients, op, locals, history>>

\* Mutant: the session is revoked for the request, not for the account.
ResetRevokesWrongKey(r) ==
  /\ Step(r, "rp_revoke", "done")
  /\ Revoke(r)
  /\ UNCHANGED <<users, welcome, verifyKey, resetKey, clients, op, locals>>

ResetRevoke(r) ==
  /\ Step(r, "rp_revoke", "done")
  /\ Revoke(sub[r])
  /\ UNCHANGED <<users, welcome, verifyKey, resetKey, clients, op, locals>>

(* verify-email *)

VerifyGet(r) ==
  /\ \E t \in {q \in mail : op[q] \in {"register", "resend"}} :
       \/ /\ verifyKey[t] # None
          /\ Begin(r, "verify", "vf_user")
          /\ tok' = [tok EXCEPT ![r] = t]
          /\ sub' = [sub EXCEPT ![r] = verifyKey[t]]
       \/ /\ verifyKey[t] = None
          /\ Begin(r, "verify", "failed")
          /\ UNCHANGED <<tok, sub>>
  /\ UNCHANGED <<users, welcome, redis, clients, seen, history>>

\* Mutant: a verified account is taken to have had its welcome.
VerifyUserSkips(r) ==
  /\ pc[r] = "vf_user"
  /\ Step(r, "vf_user",
       IF status[sub[r]] # "live" THEN "failed"
       ELSE IF verified[sub[r]] THEN "vf_key" ELSE "vf_save")
  /\ UNCHANGED <<users, welcome, redis, clients, op, locals, history>>

\* isEmailVerified is read here and decides whether the next step saves.
VerifyUser(r) ==
  /\ pc[r] = "vf_user"
  /\ \/ status[sub[r]] # "live" /\ Step(r, "vf_user", "failed")
     \/ /\ status[sub[r]] = "live"
        /\ Step(r, "vf_user", IF verified[sub[r]] THEN "vf_notify" ELSE "vf_save")
  /\ UNCHANGED <<users, welcome, redis, clients, op, locals, history>>

VerifySave(r) ==
  /\ pc[r] = "vf_save"
  /\ \/ /\ status[sub[r]] = "live"
        /\ Step(r, "vf_save", "vf_notify")
        /\ verified' = [verified EXCEPT ![sub[r]] = TRUE]
     \/ /\ status[sub[r]] # "live"
        /\ Step(r, "vf_save", "failed")
        /\ UNCHANGED verified
  /\ UNCHANGED <<status, email, password, welcome, redis, clients, op, locals,
                 history>>

\* notificationService.create persists the notification before it returns.
VerifyNotify(r) ==
  /\ Step(r, "vf_notify", "vf_key")
  /\ welcome' = welcome \cup {r}
  /\ UNCHANGED <<users, redis, clients, op, locals, history>>

VerifyDelKey(r) ==
  /\ Step(r, "vf_key", "done")
  /\ verifyKey' = [verifyKey EXCEPT ![tok[r]] = None]
  /\ UNCHANGED <<users, welcome, refresh, resetKey, clients, op, locals, history>>

-----------------------------------------------------------------------------
(* What happens around the handlers *)

\* A store command rejects, or the process dies: the handler goes no further
\* and what it has written stays.
Fail(r) ==
  /\ pc[r] \notin {"idle"} \cup Terminal
  /\ pc' = [pc EXCEPT ![r] = "failed"]
  /\ UNCHANGED <<users, welcome, redis, clients, op, locals, history>>

\* An administrator removes the account; nothing else of it is removed.
DeleteUser(u) ==
  /\ status[u] = "live"
  /\ status' = [status EXCEPT ![u] = "deleted"]
  /\ UNCHANGED <<email, password, verified, welcome, redis, clients, pc, op,
                 locals, history>>

ExpireRefresh(u) ==
  /\ refresh[u] # None
  /\ SetRefresh(u, None)
  /\ UNCHANGED <<users, welcome, verifyKey, resetKey, clients, pc, op, locals,
                 late, unrevoked>>

ExpireVerifyKey(t) ==
  /\ verifyKey[t] # None
  /\ verifyKey' = [verifyKey EXCEPT ![t] = None]
  /\ UNCHANGED <<users, welcome, refresh, resetKey, clients, pc, op, locals, history>>

ExpireResetKey(t) ==
  /\ resetKey[t] # None
  /\ resetKey' = [resetKey EXCEPT ![t] = None]
  /\ UNCHANGED <<users, welcome, refresh, verifyKey, clients, pc, op, locals, history>>

-----------------------------------------------------------------------------
\* The requests of the past were registrations: each left an unverified
\* account, the verification mail and a session with its cookie.
Init ==
  LET past(x, y) == [r \in Requests |-> IF r \in Registered THEN x ELSE y]
      own == [r \in Requests |-> IF r \in Registered THEN r ELSE None]
  IN /\ status = past("live", "absent")
     /\ email = own
     /\ password = own
     /\ verified = [r \in Requests |-> FALSE]
     /\ welcome = {}
     /\ refresh = own
     /\ verifyKey = own
     /\ resetKey = [r \in Requests |-> None]
     /\ cookies = Registered
     /\ mail = Registered
     /\ pc = past("done", "idle")
     /\ op = past("register", None)
     /\ sub = own
     /\ tok = [r \in Requests |-> None]
     /\ seen = own
     /\ spent = {}
     /\ late = {}
     /\ unrevoked = {}

Registration(r) ==
  \/ RegisterFind(r) \/ RegisterCreate(r)
  \/ ResendFind(r) \/ SetVerifyKey(r) \/ MailVerifyToken(r)
Session(r) ==
  \/ LoginFind(r) \/ LoginCompare(r) \/ RefreshGet(r) \/ RefreshUser(r)
  \/ IssueTokens(r) \/ Respond(r) \/ Logout(r)
PasswordChange(r) ==
  \/ ChangeFind(r) \/ ChangeCompare(r) \/ ChangeSave(r) \/ ChangeRevoke(r)
PasswordReset(r) ==
  \/ ForgotFind(r) \/ SetResetKey(r) \/ MailResetToken(r)
  \/ ResetGet(r) \/ ResetUser(r) \/ ResetSave(r) \/ ResetDelKey(r) \/ ResetRevoke(r)
Verification(r) ==
  \/ VerifyGet(r) \/ VerifyUser(r) \/ VerifySave(r) \/ VerifyNotify(r)
  \/ VerifyDelKey(r)
Environment(r) ==
  \/ Fail(r) \/ DeleteUser(r)
  \/ ExpireRefresh(r) \/ ExpireVerifyKey(r) \/ ExpireResetKey(r)

Act(r) ==
  \/ Registration(r) \/ Session(r) \/ PasswordChange(r) \/ PasswordReset(r)
  \/ Verification(r) \/ Environment(r)

Next == \E r \in Requests : Act(r)

Spec == Init /\ [][Next]_vars

-----------------------------------------------------------------------------
(* Properties *)

\* Every variable keeps its type: accounts, tokens and jtis are requests, a key
\* holds one of them or is absent, and every handler stands at a known await.
TypeOK ==
  /\ status \in [Requests -> {"absent", "live", "deleted"}]
  /\ email \in [Requests -> Emails \cup {None}]
  /\ password \in [Requests -> Requests \cup {None}]
  /\ verified \in [Requests -> BOOLEAN]
  /\ welcome \subseteq Requests
  /\ refresh \in [Requests -> Requests \cup {None}]
  /\ verifyKey \in [Requests -> Requests \cup {None}]
  /\ resetKey \in [Requests -> Requests \cup {None}]
  /\ cookies \subseteq Requests
  /\ mail \subseteq Requests
  /\ pc \in [Requests -> Labels]
  /\ op \in [Requests -> AllOps \cup {None}]
  /\ sub \in [Requests -> Requests \cup {None}]
  /\ tok \in [Requests -> Requests \cup {None}]
  /\ seen \in [Requests -> Requests \cup {None}]
  /\ spent \subseteq Requests
  /\ late \subseteq Requests
  /\ unrevoked \subseteq Requests

\* A password of u was saved and the handler that saved it has not revoked u's
\* session: it is still on its way there, or it was cut short.
Unfinished(u) == \E c \in unrevoked : sub[c] = u /\ pc[c] # "done"

\* r's authority rests on the password its account has now, or the two ways
\* this code has of letting an old password through excuse it.
Fresh(r) ==
  \/ seen[r] = password[sub[r]]
  \/ r \in late
  \/ Unfinished(sub[r])

\* The session in force rests on the password in force.  An older session is
\* there only while a change or reset of the password is unfinished, or because
\* the login or refresh behind it was already past its check when the session
\* was revoked; in particular no session issued before a completed change
\* survives it (changePassword and resetPassword end with the DEL).
NoStaleSession == \A u \in Requests : refresh[u] # None => Fresh(refresh[u])

\* One live account per address, whatever registers or re-registers it at once
\* (findByEmail and the insert are two commands; the unique index decides).
UniqueEmail ==
  \A u, v \in Requests :
    status[u] = "live" /\ status[v] = "live" /\ email[u] = email[v] => u = v

\* The registry check of refresh: a jti that has been rotated out, logged out,
\* revoked or has expired is never again accepted, however old cookies and
\* late handlers interleave.
SpentNeverAccepted ==
  [][\A r \in Requests :
       pc[r] = "idle" /\ pc'[r] = "fr_user" => tok'[r] \notin spent]_vars

\* A reset whose handler ran to its end used its token up: no later call is let
\* in with that token.
UsedResetTokenRefused ==
  [][\A r \in Requests :
       pc[r] = "idle" /\ pc'[r] = "rp_user" =>
         \A c \in Requests : op[c] = "reset" /\ pc[c] = "done" => tok[c] # tok'[r]]_vars

\* A verification link is given up only after the welcome notification of its
\* account exists: a handler cut short leaves a link that can be used again.
WelcomeNotLost ==
  [][\A t \in Requests :
       verifyKey[t] # None /\ verifyKey'[t] = None =>
         \/ ExpireVerifyKey(t)
         \/ \E w \in welcome : sub[w] = verifyKey[t]]_vars

\* The handlers' writes of refresh_token:<user> are those of a session registry.
Registry == INSTANCE SessionRegistry
              WITH Users <- Requests, Sessions <- Requests,
                   live <- refresh, retired <- spent
ImplementsRegistry == Registry!Spec

(* What the documentation promises and the handlers do not keep *)

\* A completed password change or reset leaves no session of the old password
\* ("revoked on logout, password change or password reset", README.md:13).
PasswordChangeRevokesSessions ==
  \A c \in Requests :
    op[c] \in {"change", "reset"} /\ pc[c] = "done" /\ password[sub[c]] = c =>
      LET j == refresh[sub[c]] IN j # None => seen[j] = c

\* A reset link resets one password ("One-time tokens", README.md:14).
OneTimeReset ==
  \A c, d \in {r \in Requests : op[r] = "reset" /\ pc[r] = "done"} :
    c # d => tok[c] # tok[d]

\* The welcome is created when the e-mail is first verified
\* (docs/architecture.md:138), so an account gets one.
WelcomeOnce == \A v, w \in welcome : v # w => sub[v] # sub[w]

=============================================================================
