------------------------------ MODULE Sessions ------------------------------
(***************************************************************************)
(* Accounts, sign-in and sessions: registration, passwords, MFA, refresh-  *)
(* token rotation, the list of sessions and the blacklist of JWTs          *)
(* (auth/service.py, sessions/service.py, core/cache.py).                  *)
(*                                                                         *)
(* A request reads when it begins and writes when it commits, both under   *)
(* READ COMMITTED and without row locks; get_db commits after the handler  *)
(* and rolls back when it raises.  A request that raises therefore leaves  *)
(* the tables as they were, whatever it had assigned before, and the       *)
(* refusals of a handler are the cases in which its first step is not      *)
(* enabled.  Redis is written at once and not rolled back.  A commit that  *)
(* a constraint of the database refuses is not enabled either: what is     *)
(* left to the request is Abort.                                           *)
(*                                                                         *)
(* The access token issued together with refresh token t carries the jti   *)
(* t; a session row is named by the first token of its family.             *)
(*                                                                         *)
(* Constants                                                               *)
(*   Users        e-mail addresses                                         *)
(*   Tokens       refresh tokens that may ever be issued (bound)           *)
(*   Challenges   MFA challenges that may ever be issued (bound)           *)
(*   Links        reset and verification links in circulation (bound)      *)
(*   Codes        the backup codes of an enrolment                         *)
(*   Requests     requests in flight                                       *)
(*   LockAt       lockout_threshold_1, the first of the three thresholds   *)
(*   MaxRequests  bound: requests ever begun                               *)
(*   MaxChanges   bound: steps of time, faults and administration          *)
(***************************************************************************)
EXTENDS Naturals, FiniteSets

CONSTANTS Users, Tokens, Challenges, Links, Codes, Requests, LockAt, MaxRequests,
          MaxChanges, None

ASSUME SessionAssumption ==
  /\ LockAt \in Nat \ {0} /\ MaxRequests \in Nat /\ MaxChanges \in Nat
  /\ None \notin Users \cup Tokens \cup Challenges \cup Links \cup Codes
  /\ Tokens \cap Challenges = {}

VARIABLES
  account,    \* rows of users, with their active membership as a flag
  token,      \* rows of refresh_tokens
  sess,       \* rows of sessions by family: the token named, idle too long
  link,       \* password_reset_tokens and email_verification_tokens
  challenge,  \* the user an MFA challenge was issued to
  blacklist,  \* rows of token_blacklist
  redis,      \* blacklist keys, pending TOTP enrolments
  lapsed,     \* jtis past their exp claim
  req,        \* what a request in flight has read
  begun,      \* requests begun so far
  changes,    \* steps of time, faults and administration so far
  attempts,   \* history: wrong passwords since the last sign-in
  reused,     \* history: families whose revoked token was presented
  raced,      \* history: families with a rotation overlapping a revocation
              \* or another rotation, or a rotation without a session row
  ended,      \* history: families signed out by logout-all or a reset
  loggedOut,  \* history: jtis whose logout was committed
  origin      \* history: the challenge a family was created with

rows == <<account, token, sess, link, blacklist>>
ghosts == <<attempts, reused, raced, ended, loggedOut, origin>>
vars == <<rows, challenge, redis, lapsed, req, begun, changes, ghosts>>

Jtis == Tokens \cup Challenges
Idle == [op |-> "idle"]
NoAccount == [known |-> FALSE, active |-> FALSE, member |-> FALSE, verified |-> FALSE,
              totp |-> FALSE, codes |-> {}, failed |-> 0, locked |-> FALSE]
NoToken == [state |-> "none", user |-> None, family |-> None, expired |-> FALSE]
NoSession == [tok |-> None, idle |-> FALSE]
NoLink == [state |-> "none", user |-> None, kind |-> "reset"]

\* An account that has been in use, with or without TOTP.
Established(totp) == [NoAccount EXCEPT !.known = TRUE, !.active = TRUE, !.member = TRUE,
                                       !.totp = totp, !.codes = IF totp THEN Codes ELSE {}]

Init ==
  /\ account \in [Users -> {NoAccount, Established(FALSE), Established(TRUE)}]
  /\ token = [t \in Tokens |-> NoToken]
  /\ sess = [f \in Tokens |-> NoSession]
  /\ link = [l \in Links |-> NoLink]
  /\ challenge = [c \in Challenges |-> None]
  /\ blacklist = {} /\ lapsed = {}
  /\ redis = [black |-> {}, pending |-> {}]
  /\ req = [r \in Requests |-> Idle]
  /\ begun = 0 /\ changes = 0
  /\ attempts = [u \in Users |-> 0]
  /\ reused = {} /\ raced = {} /\ ended = {} /\ loggedOut = {}
  /\ origin = [t \in Tokens |-> None]

-----------------------------------------------------------------------------
(* Helpers.                                                                *)

Live(t) == token[t].state = "live"
LiveOf(u) == {t \in Tokens : Live(t) /\ token[t].user = u}
Families(T) == {token[t].family : t \in T}
SessionsOf(u) == {f \in Tokens : sess[f].tok # None /\ token[f].user = u}
SessionOf(t) == {f \in Tokens : sess[f].tok = t}
GetMembership(u) == account[u].member

\* Mutant: the table is not consulted.
RedisOnly(j) == j \in redis.black

\* is_token_blacklisted: the key in Redis, else the row.
Blacklisted(j) == j \in redis.black \/ (j \in blacklist /\ j \notin lapsed)

\* get_current_user: the bearer of the access token with this jti.
CurrentUser(a) ==
  /\ token[a].state # "none" /\ a \notin lapsed /\ ~Blacklisted(a)
  /\ account[token[a].user].active

Begin(r, snapshot) ==
  /\ req[r] = Idle /\ req' = [req EXCEPT ![r] = snapshot]
  /\ begun < MaxRequests /\ begun' = begun + 1 /\ UNCHANGED changes
Done(r) == req' = [req EXCEPT ![r] = Idle] /\ UNCHANGED <<begun, changes>>
Change == changes < MaxChanges /\ changes' = changes + 1 /\ UNCHANGED <<req, begun>>
NoRequest == UNCHANGED <<req, begun, changes>>

\* get_db: the rows of a request that raised are those before it.
EndTx(raised, old, new) == IF raised THEN old ELSE new

Revoke(T) == [t \in Tokens |-> IF t \in T /\ Live(t) THEN [token[t] EXCEPT !.state = "revoked"]
                                                     ELSE token[t]]
DropSessions(F) == [f \in Tokens |-> IF f \in F THEN NoSession ELSE sess[f]]

\* blacklist_token: setex at once, the row with the commit.
BlacklistInRedis(j) == [redis EXCEPT !.black = @ \cup {j}]

\* _create_session_tokens: a new family and its session row.
CreateSessionTokens(t, u) ==
  /\ token[t].state = "none"
  /\ token' = [token EXCEPT ![t] = [state |-> "live", user |-> u, family |-> t, expired |-> FALSE]]
  /\ sess' = [sess EXCEPT ![t] = [tok |-> t, idle |-> FALSE]]

-----------------------------------------------------------------------------
(* Registration and sign-in.                                               *)

Register(r, u) ==
  /\ ~account[u].known
  /\ Begin(r, [op |-> "register", user |-> u])
  /\ UNCHANGED <<rows, challenge, redis, lapsed, ghosts>>

\* The index users_email_active_idx refuses the second of two registrations.
RegisterCommit(r, t, l) ==
  LET u == req[r].user IN
  /\ req[r].op = "register" /\ Done(r)
  /\ ~account[u].known
  /\ account' = [account EXCEPT ![u] = Established(FALSE)]
  /\ CreateSessionTokens(t, u)
  /\ link[l].state = "none"
  /\ link' = [link EXCEPT ![l] = [state |-> "live", user |-> u, kind |-> "verify"]]
  /\ UNCHANGED <<blacklist, challenge, redis, lapsed, ghosts>>

\* handle_failed_login; the three thresholds differ in the time of the lock only.
HandleFailedLogin(a) ==
  LET n == IF a.failed < LockAt THEN a.failed + 1 ELSE a.failed
  IN  [a EXCEPT !.failed = n, !.locked = @ \/ n >= LockAt]

\* login_user with a wrong password: counts, then raises InvalidCredentialsError.
LoginFails(u) ==
  /\ account[u].known /\ ~account[u].locked
  /\ account' = EndTx(TRUE, account, [account EXCEPT ![u] = HandleFailedLogin(@)])
  /\ attempts' = [attempts EXCEPT ![u] = IF @ < LockAt THEN @ + 1 ELSE @]
  /\ NoRequest
  /\ UNCHANGED <<token, sess, link, blacklist, challenge, redis, lapsed, reused, raced,
                 ended, loggedOut, origin>>

Login(r, u) ==
  /\ account[u].known /\ ~account[u].locked /\ account[u].active /\ GetMembership(u)
  /\ Begin(r, [op |-> IF account[u].totp THEN "loginMfa" ELSE "login", user |-> u])
  /\ UNCHANGED <<rows, challenge, redis, lapsed, ghosts>>

SignedIn(u) ==
  /\ account' = [account EXCEPT ![u].failed = 0, ![u].locked = FALSE]
  /\ attempts' = [attempts EXCEPT ![u] = 0]

LoginCommit(r, t) ==
  /\ req[r].op = "login" /\ Done(r)
  /\ SignedIn(req[r].user)
  /\ CreateSessionTokens(t, req[r].user)
  /\ UNCHANGED <<link, blacklist, challenge, redis, lapsed, reused, raced, ended, loggedOut, origin>>

LoginChallenge(r, c) ==
  /\ req[r].op = "loginMfa" /\ Done(r)
  /\ SignedIn(req[r].user)
  /\ challenge[c] = None
  /\ challenge' = [challenge EXCEPT ![c] = req[r].user]
  /\ UNCHANGED <<token, sess, link, blacklist, redis, lapsed, reused, raced, ended, loggedOut, origin>>

\* verify_mfa up to the check of the code; k is a backup code, or None for TOTP.
VerifyMfa(r, c, k) ==
  LET u == challenge[c] IN
  /\ u # None /\ c \notin lapsed /\ ~Blacklisted(c)
  /\ account[u].active
  /\ IF k = None THEN account[u].totp ELSE k \in account[u].codes
  /\ Begin(r, [op |-> "mfa", user |-> u, chal |-> c, code |-> k, codes |-> account[u].codes])
  /\ UNCHANGED <<rows, challenge, redis, lapsed, ghosts>>

\* The challenge is burnt in Redis before the membership is looked up.
MfaBurn(r) ==
  /\ req[r].op = "mfa"
  /\ redis' = BlacklistInRedis(req[r].chal)
  /\ req' = [req EXCEPT ![r] = IF GetMembership(@.user) THEN [@ EXCEPT !.op = "mfaBurnt"] ELSE Idle]
  /\ UNCHANGED <<rows, challenge, lapsed, begun, changes, ghosts>>

\* Mutant: token_blacklist is an ordinary table.
NoPrimaryKey(J) == TRUE

\* The primary key of token_blacklist refuses a second row for a jti.
PrimaryKeyFree(J) == J \cap blacklist = {}

\* The JSON list of codes is written as it was read, with the matched one used.
MfaCommit(r, t) ==
  LET q == req[r] IN
  /\ q.op = "mfaBurnt" /\ Done(r)
  /\ PrimaryKeyFree({q.chal})
  /\ blacklist' = blacklist \cup {q.chal}
  /\ account' = IF q.code = None THEN account
                ELSE [account EXCEPT ![q.user].codes = q.codes \ {q.code}]
  /\ CreateSessionTokens(t, q.user)
  /\ origin' = [origin EXCEPT ![t] = q.chal]
  /\ UNCHANGED <<link, challenge, redis, lapsed, attempts, reused, raced, ended, loggedOut>>

-----------------------------------------------------------------------------
(* Refresh tokens.                                                         *)

\* refresh_tokens up to the check of the token that was read.
Refresh(r, t) ==
  /\ Live(t) /\ ~token[t].expired
  /\ Begin(r, [op |-> "refresh", tok |-> t])
  /\ UNCHANGED <<rows, challenge, redis, lapsed, ghosts>>

\* Several awaits later: the user, the membership and, last, the session row.  A row
\* deleted in between is not found, and `if sess:` skips what is done to it.
RefreshSession(r) ==
  LET t == req[r].tok
      s == SessionOf(t)
  IN
  /\ req[r].op = "refresh"
  /\ account[token[t].user].active /\ GetMembership(token[t].user)
  /\ \A f \in s : ~sess[f].idle
  /\ req' = [req EXCEPT ![r] = [op |-> "refreshed", tok |-> t, fams |-> s]]
  /\ raced' = IF s = {} THEN raced \cup {token[t].family} ELSE raced
  /\ UNCHANGED <<rows, challenge, redis, lapsed, begun, changes, attempts, reused, ended,
                 loggedOut, origin>>

\* Mutant: the row check of the ORM is missing (a plain UPDATE of the session).
NoRowCheck(F) == TRUE

\* A session row deleted since it was read makes the flush fail (StaleDataError).
RowsStillThere(F) == \A f \in F : sess[f].tok # None

\* Mutant: the session row keeps naming the rotated token.
NotRepointed(F, n) == sess

Repointed(F, n) ==
  [f \in Tokens |-> IF f \in F THEN [tok |-> n, idle |-> FALSE] ELSE sess[f]]

RefreshCommit(r, n) ==
  LET q == req[r]
      t == q.tok
  IN
  /\ q.op = "refreshed" /\ Done(r)
  /\ RowsStillThere(q.fams)
  /\ token[t].state # "purged" /\ token[n].state = "none"
  /\ token' = [Revoke({t}) EXCEPT ![n] = [state |-> "live", user |-> token[t].user,
                                          family |-> token[t].family, expired |-> FALSE]]
  /\ sess' = Repointed(q.fams, n)
  /\ raced' = IF Live(t) \/ token[t].family \in ended THEN raced ELSE raced \cup {token[t].family}
  /\ UNCHANGED <<account, link, blacklist, challenge, redis, lapsed, attempts, reused, ended,
                 loggedOut, origin>>

\* A revoked token: _revoke_family, then TOKEN_REUSE is raised.
RefreshReuse(t) ==
  LET family == {x \in Tokens : token[x].family = token[t].family} IN
  /\ token[t].state = "revoked"
  /\ token' = EndTx(TRUE, token, Revoke(family))
  /\ reused' = reused \cup {token[t].family}
  /\ NoRequest
  /\ UNCHANGED <<account, sess, link, blacklist, challenge, redis, lapsed, attempts, raced,
                 ended, loggedOut, origin>>

-----------------------------------------------------------------------------
(* Signing out.                                                            *)

\* Families whose tokens in T have been rotated or revoked since they were read live.
Overtaken(T) == Families({t \in T : ~Live(t)})

\* logout_user with access token a, unless it has lapsed, and cookie c.
Logout(r, a, c) ==
  /\ token[a].state # "none"
  /\ redis' = IF a \in lapsed THEN redis ELSE BlacklistInRedis(a)
  /\ Begin(r, [op |-> "logout", jti |-> {a} \ lapsed,
               seen |-> {t \in Tokens : t = c /\ Live(t)}, cookie |-> c])
  /\ UNCHANGED <<rows, challenge, lapsed, ghosts>>

LogoutCommit(r) ==
  LET q == req[r] IN
  /\ q.op = "logout" /\ Done(r)
  /\ PrimaryKeyFree(q.jti)
  /\ blacklist' = blacklist \cup q.jti
  /\ loggedOut' = loggedOut \cup q.jti
  /\ token' = Revoke(q.seen)
  /\ sess' = DropSessions({f \in Tokens : q.cookie # None /\ sess[f].tok = q.cookie})
  /\ raced' = raced \cup Overtaken(q.seen)
  /\ UNCHANGED <<account, link, challenge, redis, lapsed, attempts, reused, ended, origin>>

LogoutAll(r, a) ==
  /\ CurrentUser(a)
  /\ redis' = BlacklistInRedis(a)
  /\ Begin(r, [op |-> "logoutAll", jti |-> a, user |-> token[a].user,
               seen |-> LiveOf(token[a].user)])
  /\ UNCHANGED <<rows, challenge, lapsed, ghosts>>

\* Every token read is revoked and every session row of the user deleted;
\* tokens issued in between stay.
SignOutEverywhere(u, seen) ==
  /\ token' = Revoke(seen)
  /\ sess' = DropSessions(SessionsOf(u))
  /\ raced' = raced \cup Families(LiveOf(u) \ seen)
  /\ ended' = ended \cup Families(seen)

LogoutAllCommit(r) ==
  LET q == req[r] IN
  /\ q.op = "logoutAll" /\ Done(r)
  /\ PrimaryKeyFree({q.jti})
  /\ blacklist' = blacklist \cup {q.jti}
  /\ loggedOut' = loggedOut \cup {q.jti}
  /\ SignOutEverywhere(q.user, q.seen)
  /\ UNCHANGED <<account, link, challenge, redis, lapsed, attempts, reused, origin>>

\* Session f is the one of cookie c (resolve_current_session_id).
IsCurrent(c, f) == c # None /\ Live(c) /\ sess[f].tok = c

\* revoke_session for row f, from a browser with cookie c.
RevokeSession(r, a, c, f) ==
  /\ CurrentUser(a)
  /\ f \in SessionsOf(token[a].user)
  /\ ~IsCurrent(c, f)
  /\ Begin(r, [op |-> "revoke", fams |-> {f}, seen |-> {sess[f].tok}])
  /\ UNCHANGED <<rows, challenge, redis, lapsed, ghosts>>

RevokeOtherSessions(r, a, c) ==
  LET F == {f \in SessionsOf(token[a].user) : ~IsCurrent(c, f)} IN
  /\ CurrentUser(a) /\ F # {}
  /\ Begin(r, [op |-> "revoke", fams |-> F, seen |-> {sess[f].tok : f \in F}])
  /\ UNCHANGED <<rows, challenge, redis, lapsed, ghosts>>

RevokeCommit(r) ==
  LET q == req[r] IN
  /\ q.op = "revoke" /\ Done(r)
  /\ token' = Revoke(q.seen)
  /\ sess' = DropSessions(q.fams)
  /\ raced' = raced \cup {f \in q.fams : sess[f].tok \notin q.seen \cup {None}}
  /\ UNCHANGED <<account, link, blacklist, challenge, redis, lapsed, attempts, reused, ended,
                 loggedOut, origin>>

-----------------------------------------------------------------------------
(* Passwords, links and TOTP.                                              *)

ChangePassword(r, a) ==
  /\ CurrentUser(a)
  /\ Begin(r, [op |-> "changePassword", seen |-> LiveOf(token[a].user)])
  /\ UNCHANGED <<rows, challenge, redis, lapsed, ghosts>>

\* tokens[1:] of a query without ORDER BY: all but an arbitrary one.
ChangePasswordCommit(r) ==
  /\ req[r].op = "changePassword" /\ Done(r)
  /\ \/ req[r].seen = {} /\ UNCHANGED token
     \/ \E kept \in req[r].seen : token' = Revoke(req[r].seen \ {kept})
  /\ UNCHANGED <<account, sess, link, blacklist, challenge, redis, lapsed, ghosts>>

LiveLinks(u, kind) == {l \in Links : link[l] = [state |-> "live", user |-> u, kind |-> kind]}

\* forgot_password and resend_verification_email replace the links they find.
MailLink(r, u, kind) ==
  /\ account[u].known /\ account[u].active
  /\ kind = "verify" => ~account[u].verified
  /\ Begin(r, [op |-> "mailLink", user |-> u, kind |-> kind, seen |-> LiveLinks(u, kind)])
  /\ UNCHANGED <<rows, challenge, redis, lapsed, ghosts>>

MailLinkCommit(r, l) ==
  LET q == req[r]
      spent == IF q.kind = "reset" THEN "used" ELSE "expired"
  IN
  /\ q.op = "mailLink" /\ Done(r)
  /\ link[l].state = "none"
  /\ link' = [x \in Links |-> IF x = l THEN [state |-> "live", user |-> q.user, kind |-> q.kind]
                              ELSE IF x \in q.seen THEN [link[x] EXCEPT !.state = spent]
                              ELSE link[x]]
  /\ UNCHANGED <<account, token, sess, blacklist, challenge, redis, lapsed, ghosts>>

FollowLink(r, l) ==
  /\ link[l].state = "live"
  /\ Begin(r, [op |-> link[l].kind, user |-> link[l].user, link |-> l,
               seen |-> LiveOf(link[l].user)])
  /\ UNCHANGED <<rows, challenge, redis, lapsed, ghosts>>

ResetPasswordCommit(r) ==
  LET q == req[r] IN
  /\ q.op = "reset" /\ Done(r)
  /\ link[q.link].state # "none"
  /\ link' = [link EXCEPT ![q.link].state = "used"]
  /\ SignOutEverywhere(q.user, q.seen)
  /\ UNCHANGED <<account, blacklist, challenge, redis, lapsed, attempts, reused, loggedOut, origin>>

VerifyEmailCommit(r) ==
  LET q == req[r] IN
  /\ q.op = "verify" /\ Done(r)
  /\ link' = [link EXCEPT ![q.link].state = "used"]
  /\ account' = [account EXCEPT ![q.user].verified = TRUE]
  /\ UNCHANGED <<token, sess, blacklist, challenge, redis, lapsed, ghosts>>

EnrollTotpStart(a) ==
  /\ CurrentUser(a)
  /\ redis' = [redis EXCEPT !.pending = @ \cup {token[a].user}]
  /\ NoRequest
  /\ UNCHANGED <<rows, challenge, lapsed, ghosts>>

EnrollTotpConfirm(r, a) ==
  /\ CurrentUser(a) /\ token[a].user \in redis.pending
  /\ redis' = [redis EXCEPT !.pending = @ \ {token[a].user}]
  /\ Begin(r, [op |-> "enroll", user |-> token[a].user])
  /\ UNCHANGED <<rows, challenge, lapsed, ghosts>>

EnrollCommit(r) ==
  /\ req[r].op = "enroll" /\ Done(r)
  /\ account' = [account EXCEPT ![req[r].user].totp = TRUE, ![req[r].user].codes = Codes]
  /\ UNCHANGED <<token, sess, link, blacklist, challenge, redis, lapsed, ghosts>>

DisableTotp(a) ==
  /\ CurrentUser(a) /\ account[token[a].user].totp
  /\ account' = [account EXCEPT ![token[a].user].totp = FALSE, ![token[a].user].codes = {}]
  /\ NoRequest
  /\ UNCHANGED <<token, sess, link, blacklist, challenge, redis, lapsed, ghosts>>

-----------------------------------------------------------------------------
(* Other actors: administration, time, faults and the nightly jobs.        *)

PatchPlatformUser(u, active) ==
  /\ Change
  /\ account[u].known /\ account[u].active # active
  /\ account' = [account EXCEPT ![u].active = active]
  /\ UNCHANGED <<token, sess, link, blacklist, challenge, redis, lapsed, ghosts>>

\* The user's only membership is disabled or enabled (module Workspace).
MembershipChanges(u) ==
  /\ Change
  /\ account[u].known
  /\ account' = [account EXCEPT ![u].member = ~@]
  /\ UNCHANGED <<token, sess, link, blacklist, challenge, redis, lapsed, ghosts>>

\* The exp claim passes, and with it the TTL of the key.
JtiLapses(j) ==
  /\ Change
  /\ j \notin lapsed
  /\ IF j \in Tokens THEN token[j].state # "none" ELSE challenge[j] # None
  /\ lapsed' = lapsed \cup {j}
  /\ redis' = [redis EXCEPT !.black = @ \ {j}]
  /\ UNCHANGED <<rows, challenge, ghosts>>

\* A refresh token outlives its access token and, without a refresh, the idle limit.
RefreshExpires(t) ==
  /\ Change
  /\ token[t].state \in {"live", "revoked"} /\ ~token[t].expired
  /\ token' = [token EXCEPT ![t].expired = TRUE]
  /\ sess' = [f \in Tokens |-> IF sess[f].tok = t THEN [sess[f] EXCEPT !.idle = TRUE] ELSE sess[f]]
  /\ lapsed' = lapsed \cup {t}
  /\ redis' = [redis EXCEPT !.black = @ \ {t}]
  /\ UNCHANGED <<account, link, blacklist, challenge, ghosts>>

SessionIdles(f) ==
  /\ Change
  /\ sess[f].tok # None /\ ~sess[f].idle
  /\ sess' = [sess EXCEPT ![f].idle = TRUE]
  /\ UNCHANGED <<account, token, link, blacklist, challenge, redis, lapsed, ghosts>>

LinkExpires(l) ==
  /\ Change
  /\ link[l].state = "live"
  /\ link' = [link EXCEPT ![l].state = "expired"]
  /\ UNCHANGED <<account, token, sess, blacklist, challenge, redis, lapsed, ghosts>>

RedisRestart ==
  /\ Change
  /\ redis # [black |-> {}, pending |-> {}]
  /\ redis' = [black |-> {}, pending |-> {}]
  /\ UNCHANGED <<rows, challenge, lapsed, ghosts>>

\* The handler raises, a constraint refuses the commit, or the process dies.
Abort(r) ==
  /\ req[r] # Idle /\ Done(r)
  /\ UNCHANGED <<rows, challenge, redis, lapsed, ghosts>>

PurgeRevokedRefreshTokens ==
  LET T == {t \in Tokens : token[t].state = "revoked" /\ token[t].expired} IN
  /\ T # {}
  /\ token' = [t \in Tokens |-> IF t \in T THEN [token[t] EXCEPT !.state = "purged"] ELSE token[t]]
  /\ NoRequest
  /\ UNCHANGED <<account, sess, link, blacklist, challenge, redis, lapsed, ghosts>>

\* Ninety days without a refresh: the token, good for seven, has long expired.
PurgeOldSessions ==
  LET F == {f \in Tokens : /\ sess[f].tok # None /\ sess[f].idle
                           /\ token[sess[f].tok].expired} IN
  /\ F # {}
  /\ sess' = DropSessions(F)
  /\ NoRequest
  /\ UNCHANGED <<account, token, link, blacklist, challenge, redis, lapsed, ghosts>>

PurgeExpiredTokenBlacklist ==
  /\ blacklist \cap lapsed # {}
  /\ blacklist' = blacklist \ lapsed
  /\ NoRequest
  /\ UNCHANGED <<account, token, sess, link, challenge, redis, lapsed, ghosts>>

ExpirePasswordResetTokens ==
  LET L == {l \in Links : link[l].kind = "reset" /\ link[l].state = "expired"} IN
  /\ L # {}
  /\ link' = [l \in Links |-> IF l \in L THEN NoLink ELSE link[l]]
  /\ NoRequest
  /\ UNCHANGED <<account, token, sess, blacklist, challenge, redis, lapsed, ghosts>>

-----------------------------------------------------------------------------
UserStep ==
  \/ \E u \in Users :
       \/ LoginFails(u) \/ MembershipChanges(u)
       \/ \E b \in BOOLEAN : PatchPlatformUser(u, b)
       \/ \E r \in Requests : Register(r, u) \/ Login(r, u)
       \/ \E r \in Requests, k \in {"reset", "verify"} : MailLink(r, u, k)
  \/ \E a \in Tokens :
       \/ RefreshReuse(a) \/ EnrollTotpStart(a) \/ DisableTotp(a)
       \/ \E r \in Requests :
            \/ Refresh(r, a) \/ LogoutAll(r, a) \/ ChangePassword(r, a) \/ EnrollTotpConfirm(r, a)
            \/ \E c \in {a, None} :
                 \/ Logout(r, a, c) \/ RevokeOtherSessions(r, a, c)
                 \/ \E f \in Tokens : RevokeSession(r, a, c, f)
  \/ \E r \in Requests, c \in Challenges, k \in Codes \cup {None} : VerifyMfa(r, c, k)
  \/ \E r \in Requests, l \in Links : FollowLink(r, l)

CommitStep ==
  \E r \in Requests :
    /\ req[r] # Idle
    /\ \/ \E t \in Tokens : \/ LoginCommit(r, t) \/ MfaCommit(r, t) \/ RefreshCommit(r, t)
                            \/ \E l \in Links : RegisterCommit(r, t, l)
       \/ \E c \in Challenges : LoginChallenge(r, c)
       \/ \E l \in Links : MailLinkCommit(r, l)
       \/ MfaBurn(r) \/ RefreshSession(r) \/ LogoutCommit(r) \/ LogoutAllCommit(r) \/ RevokeCommit(r)
       \/ ChangePasswordCommit(r) \/ ResetPasswordCommit(r) \/ VerifyEmailCommit(r)
       \/ EnrollCommit(r)

FaultStep ==
  \/ \E j \in Jtis : JtiLapses(j)
  \/ \E t \in Tokens : RefreshExpires(t) \/ SessionIdles(t)
  \/ \E l \in Links : LinkExpires(l)
  \/ RedisRestart
  \/ \E r \in Requests : Abort(r)

JobStep ==
  \/ PurgeRevokedRefreshTokens \/ PurgeOldSessions
  \/ PurgeExpiredTokenBlacklist \/ ExpirePasswordResetTokens

Next == UserStep \/ CommitStep \/ FaultStep \/ JobStep

Spec == Init /\ [][Next]_vars

-----------------------------------------------------------------------------
AccountRows == [known : BOOLEAN, active : BOOLEAN, member : BOOLEAN, verified : BOOLEAN,
                totp : BOOLEAN, codes : SUBSET Codes, failed : 0 .. LockAt, locked : BOOLEAN]
TokenRows == [state : {"none", "live", "revoked", "purged"}, user : Users \cup {None},
              family : Tokens \cup {None}, expired : BOOLEAN]
LinkRows == [state : {"none", "live", "used", "expired"}, user : Users \cup {None},
             kind : {"reset", "verify"}]

\* Every table holds rows of its type, and a row that exists names existing rows.
TypeOK ==
  /\ account \in [Users -> AccountRows]
  /\ token \in [Tokens -> TokenRows]
  /\ sess \in [Tokens -> [tok : Tokens \cup {None}, idle : BOOLEAN]]
  /\ link \in [Links -> LinkRows]
  /\ challenge \in [Challenges -> Users \cup {None}]
  /\ blacklist \subseteq Jtis /\ lapsed \subseteq Jtis
  /\ redis \in [black : SUBSET Jtis, pending : SUBSET Users]
  /\ begun \in 0 .. MaxRequests /\ changes \in 0 .. MaxChanges
  /\ \A t \in Tokens : token[t].state # "none" => token[t].user \in Users /\ token[t].family \in Tokens

\* The list of sessions shows what can still be refreshed: a token that refresh_tokens
\* would accept is the one its session row names, so that the user finds it and can
\* revoke it -- unless a rotation of the family overlapped another one or a revocation,
\* or read its session row when that was gone.
LiveTokenIsListed ==
  \A t \in Tokens : Live(t) /\ ~token[t].expired /\ token[t].family \notin raced
                      => sess[token[t].family].tok = t

\* logout_all and reset_password: no family they have signed out ever gets a usable token
\* again, a refresh in flight that had read its session row included -- unless a refresh
\* had committed a new token behind the back of the request, or read its session row only
\* after the request had deleted it.
SignOutIsFinal ==
  \A t \in Tokens : Live(t) /\ token[t].family \in ended => token[t].family \in raced

\* verify_mfa: while a challenge has not lapsed it yields one session at most, although
\* two requests may find it unused and Redis may lose its keys.
OneSessionPerChallenge ==
  \A s, t \in Tokens : origin[s] # None /\ origin[s] = origin[t] /\ origin[s] \notin lapsed => s = t

\* An access token whose logout was committed is refused until it lapses, also after
\* Redis has lost its keys and after the job has purged the table.
LoggedOutIsRefused ==
  \A j \in loggedOut : j \in lapsed \/ Blacklisted(j)

-----------------------------------------------------------------------------
(* Claims the code does not keep: TLC refutes them on the run of this module. *)

\* AccountLockedError, "Account locked due to too many failed login attempts.":
\* LockAt wrong passwords in a row lock the account.
LockoutTakesEffect ==
  \A u \in Users : attempts[u] >= LockAt => account[u].locked

\* "All sessions revoked.": once logout-all or a password reset has committed, no token of
\* the families it signed out can be refreshed.  A refresh that has read its token before and
\* its session row after the commit skips the row and leaves a live token that no row names.
AllSessionsRevoked ==
  \A t \in Tokens : Live(t) => token[t].family \notin ended

\* refresh_tokens answers TOKEN_REUSE to a revoked token that is presented again, after
\* _revoke_family: no token of that family can be refreshed any more.
ReuseRevokesFamily ==
  \A t \in Tokens : Live(t) => token[t].family \notin reused
=============================================================================
