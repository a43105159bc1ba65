--------------------------- MODULE TokenLifetimes ---------------------------
(***************************************************************************)
(* How long a sign-in lasts: one account, the browsers signed in to it,    *)
(* and the four deadlines an issue of tokens sets, each by its own reading *)
(* of the configured lifetimes: the access JWT, the refresh JWT, the TTL   *)
(* of the Redis key and the maxAge of the cookie.                          *)
(*                                                                         *)
(* Time counts whole seconds and jumps; it passes between handlers and     *)
(* inside the two that end in an issue, login and refresh, whose checks    *)
(* may be long past when the tokens are signed.                            *)
(***************************************************************************)
EXTENDS Integers

CONSTANTS
  Browsers,
  Formats,    \* lifetimes an operator may write: "15m" is [n |-> 15, unit |-> "m"]
  Prefixes,   \* values of API_PREFIX
  MaxIssues,  \* bound: how often tokens are issued
  None

CookiePrefix == "/api/v1"  \* cookieOptions.path, less its "/auth"

\* Mutant: hours taken for minutes.
MultiplierHour == [s |-> 1, m |-> 60, h |-> 60, d |-> 86400]

\* The units parseExpiryToSeconds knows, and those of jsonwebtoken; "?" stands
\* for text neither can read, "" for a number with no unit, milliseconds.
Multiplier == [s |-> 1, m |-> 60, h |-> 3600, d |-> 86400]
JwtUnit    == [s |-> 1, m |-> 60, h |-> 3600, d |-> 86400,
               w |-> 604800, y |-> 31557600]
Units      == DOMAIN JwtUnit \cup {"", "?"}

Roles == {"user", "admin"}

ASSUME LifetimesAssumption ==
  /\ Formats \subseteq [n : Nat, unit : Units]
  /\ MaxIssues \in Nat
  /\ None \notin Int \cup Roles

parseExpiryToSeconds(f) ==
  IF f.unit \in DOMAIN Multiplier THEN f.n * Multiplier[f.unit] ELSE 7 * 24 * 60 * 60

\* expiresIn of jsonwebtoken; sign() throws on text it cannot read.
JwtSeconds(f) ==
  IF f.unit \in DOMAIN JwtUnit THEN f.n * JwtUnit[f.unit] ELSE f.n \div 1000

Readable(f) == f.unit # "?"

VARIABLES
  conf,     \* JWT_ACCESS_EXPIRES_IN, JWT_REFRESH_EXPIRES_IN, API_PREFIX
  now,
  live, role,  \* Mongo: the account exists, and its role
  jti, ttl,    \* Redis, refresh_token:<user>: the value and when it expires
  cookie,   \* of each browser: its jti, when it was set, when JWT and cookie end
  access,   \* the access tokens handed out: to whom, with which role, until when
  issued,   \* how often tokens were issued, the jti of the last
  call,     \* of each browser: its login or refresh under way, what it has read
  ended,    \* history: since when nobody is signed in by what the user did
  demoted   \* history: since when the account is no admin

store == <<jti, ttl, cookie, access, issued>>
vars  == <<conf, now, live, role, store, call, ended, demoted>>

IsAdmin    == live /\ role = "admin"
AccessLife == JwtSeconds(conf.access)

-----------------------------------------------------------------------------
(* The checks *)

authenticate(t)   == now < t.end
authorize(t, r)   == t.role = r

\* What refresh asks of the cookie that arrives, if it does: the JWT, the key; and
\* then the account.
CookieSent(b) ==
  /\ conf.prefix = CookiePrefix
  /\ cookie[b] # None /\ now < cookie[b].maxAge
SessionFound(b) ==
  /\ CookieSent(b)
  /\ now < cookie[b].exp
  /\ jti = cookie[b].jti /\ now < ttl
RefreshAccepted(b) == SessionFound(b) /\ live

-----------------------------------------------------------------------------
(* login and refresh *)

\* A call that has read the account, and with it a role; entry: it may sign in, for
\* it knows the password, or its check of the session came before a sign-out.
Found(r, entry) == [at |-> "issue", role |-> r, since |-> now, entry |-> entry]

\* login: the account, whose password is then compared.
LoginFind(b) ==
  /\ call[b] = None /\ issued < MaxIssues
  /\ live
  /\ call' = [call EXCEPT ![b] = Found(role, TRUE)]
  /\ UNCHANGED <<conf, now, live, role, store, ended, demoted>>

\* refresh: the JWT of the cookie and the key ...
RefreshGet(b) ==
  /\ call[b] = None /\ issued < MaxIssues
  /\ SessionFound(b)
  /\ call' = [call EXCEPT ![b] = 
                 [at |-> "find", role |-> None, since |-> now, entry |-> FALSE]]
  /\ UNCHANGED <<conf, now, live, role, store, ended, demoted>>

\* Mutant: the account is not looked up again, the key and the JWT are enough.
RefreshUnchecked(b) ==
  /\ call[b] # None /\ call[b].at = "find"
  /\ call' = [call EXCEPT ![b] = Found(role, @.entry)]
  /\ UNCHANGED <<conf, now, live, role, store, ended, demoted>>

\* Mutant: the new tokens take the role the browser's last ones had.
RefreshKeepsRole(b) ==
  /\ call[b] # None /\ call[b].at = "find" /\ live
  /\ \E t \in access : /\ t.by = b
                       /\ call' = [call EXCEPT ![b] = Found(t.role, @.entry)]
  /\ UNCHANGED <<conf, now, live, role, store, ended, demoted>>

\* ... then the account.
RefreshFind(b) ==
  /\ call[b] # None /\ call[b].at = "find"
  /\ live
  /\ call' = [call EXCEPT ![b] = Found(role, @.entry)]
  /\ UNCHANGED <<conf, now, live, role, store, ended, demoted>>

\* issueTokens and res.cookie.  sign() may throw, and Redis refuses a TTL of 0:
\* then the call fails and nothing has changed.
IssueTokens(b) ==
  /\ call[b] # None /\ call[b].at = "issue"
  /\ issued < MaxIssues
  /\ Readable(conf.access) /\ Readable(conf.refresh)
  /\ parseExpiryToSeconds(conf.refresh) > 0
  /\ issued' = issued + 1
  /\ access' = access \cup
       {[by |-> b, role |-> call[b].role, end |-> now + AccessLife,
         took |-> now - call[b].since]}
  /\ jti' = issued'
  /\ ttl' = now + parseExpiryToSeconds(conf.refresh)
  /\ cookie' = [cookie EXCEPT ![b] =
       [jti |-> issued', since |-> now,
        exp |-> now + JwtSeconds(conf.refresh),
        maxAge |-> now + parseExpiryToSeconds(conf.refresh)]]
  /\ call' = [call EXCEPT ![b] = None]
  /\ ended' = IF ~call[b].entry THEN ended ELSE IF live THEN None ELSE now
  /\ UNCHANGED <<conf, now, live, role, demoted>>

\* The password is wrong, the account is gone, a store or sign() rejects.
Refuse(b) ==
  /\ call[b] # None
  /\ call' = [call EXCEPT ![b] = None]
  /\ UNCHANGED <<conf, now, live, role, store, ended, demoted>>

-----------------------------------------------------------------------------
(* What ends a session *)

\* A call that is under way has overtaken the sign-out.
SignOut ==
  /\ ended' = IF ended = None THEN now ELSE ended
  /\ call' = [b \in Browsers |->
                IF call[b] = None THEN None ELSE [call[b] EXCEPT !.entry = TRUE]]

\* Mutant: clearCookie sends a maxAge that is past instead of none.
LogoutExpiresCookie(b) ==
  /\ \E t \in access : t.by = b /\ authenticate(t)
  /\ jti' = None
  /\ cookie' = [cookie EXCEPT ![b] = IF @ = None THEN None ELSE [@ EXCEPT !.maxAge = -1]]
  /\ SignOut
  /\ UNCHANGED <<conf, now, live, role, ttl, access, issued, demoted>>

Logout(b) ==
  /\ \E t \in access : t.by = b /\ authenticate(t)
  /\ jti' = None
  /\ cookie' = [cookie EXCEPT ![b] = None]
  /\ SignOut
  /\ UNCHANGED <<conf, now, live, role, ttl, access, issued, demoted>>

\* changePassword and resetPassword end with the same DEL; cookies stay.
Revoke ==
  /\ live
  /\ jti' = None
  /\ SignOut
  /\ UNCHANGED <<conf, now, live, role, ttl, cookie, access, issued, demoted>>

\* UserService.remove: only the document goes.
Delete ==
  /\ live
  /\ live' = FALSE
  /\ demoted' = IF IsAdmin THEN now ELSE demoted
  /\ SignOut
  /\ UNCHANGED <<conf, now, role, store>>

\* No handler writes a role: this is done on the database.
SetRole ==
  /\ live
  /\ role' = IF role = "admin" THEN "user" ELSE "admin"
  /\ demoted' = IF role = "admin" THEN now ELSE None
  /\ UNCHANGED <<conf, now, live, store, call, ended>>

\* Something changes with time only at these moments.
Deadlines ==
  {t.end : t \in access}
    \cup UNION {{cookie[b].exp, cookie[b].maxAge} : b \in {c \in Browsers : cookie[c] # None}}

\* Time goes on to a deadline, or to the last second before it.
Advance ==
  /\ \E d \in Deadlines : now' \in {d - 1, d} /\ now' > now
  /\ UNCHANGED <<conf, live, role, store, call, ended, demoted>>

-----------------------------------------------------------------------------
Init ==
  /\ conf \in [access : Formats, refresh : Formats, prefix : Prefixes]
  /\ now = 0
  /\ live = TRUE /\ role \in Roles
  /\ jti = None /\ ttl = 0
  /\ cookie = [b \in Browsers |-> None]
  /\ access = {} /\ issued = 0
  /\ call = [b \in Browsers |-> None]
  /\ ended = None
  /\ demoted = IF role = "admin" THEN None ELSE 0

Signing(b) ==
  LoginFind(b) \/ RefreshGet(b) \/ RefreshFind(b) \/ IssueTokens(b) \/ Refuse(b)

Next ==
  \/ \E b \in Browsers : Signing(b) \/ Logout(b)
  \/ Revoke \/ Delete \/ SetRole \/ Advance

Spec == Init /\ [][Next]_vars

-----------------------------------------------------------------------------
(* Properties *)

\* Every variable keeps its type.
TypeOK ==
  /\ conf \in [access : Formats, refresh : Formats, prefix : Prefixes]
  /\ now \in Nat /\ ttl \in Nat /\ issued \in Nat
  /\ live \in BOOLEAN /\ role \in Roles
  /\ jti \in Nat \cup {None}
  /\ cookie \in [Browsers -> [jti : Nat, since : Nat, exp : Nat, maxAge : Nat] \cup {None}]
  /\ access \subseteq [by : Browsers, role : Roles, end : Nat, took : Nat]
  /\ call \in [Browsers -> [at : {"issue"}, role : Roles, since : Nat, entry : BOOLEAN]
                  \cup [at : {"find"}, role : {None}, since : Nat, entry : BOOLEAN]
                  \cup {None}]
  /\ ended \in Nat \cup {None} /\ demoted \in Nat \cup {None}

\* An admin route lets a call through only if the account was an admin within
\* the lifetime of an access token (authenticate.ts:30, :42) and the time its login
\* or refresh took, however often the session was refreshed since.
PowerBounded ==
  \A t \in access : authenticate(t) /\ authorize(t, "admin") =>
    IsAdmin \/ now < demoted + t.took + AccessLife

\* After a logout, a change of password or a deletion, no refresh is accepted and
\* calls are let through for the lifetime of an access token and no longer.  It
\* takes a login to sign in again, or a refresh that had read the key before the
\* sign-out and issues after it: that one the sign-out does not reach.
SignedOutBounded ==
  ended # None =>
    /\ \A b \in Browsers : ~RefreshAccepted(b)
    /\ \A t \in access : authenticate(t) => now < ended + AccessLife

\* The browser that was issued the last tokens, neither displaced nor signed out.
SignedIn(b) == ended = None /\ cookie[b] # None /\ cookie[b].jti = issued

Lasts(b) == now < cookie[b].since + JwtSeconds(conf.refresh)

\* A lifetime both readers understand, and routes where the cookie's path is.
Agree ==
  /\ conf.refresh.unit \in {"s", "m", "h", "d"} /\ conf.refresh.n > 0
  /\ conf.prefix = CookiePrefix

\* Configured so, the JWT, the Redis key and the cookie end together: whoever is
\* signed in can refresh to the last second of the lifetime, and not after it.
SessionLasts ==
  Agree => \A b \in Browsers : SignedIn(b) => (RefreshAccepted(b) <=> Lasts(b))

=============================================================================
