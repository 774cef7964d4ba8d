--------------------------- MODULE SessionsProofs --------------------------
(***************************************************************************)
(* Theorems about Sessions, for every number of users, tokens, challenges  *)
(* and requests in flight.                                                 *)
(*                                                                         *)
(* The two on signing out rest on one argument: in a family that no race   *)
(* has touched there is one live token, the one its session row names; a   *)
(* refresh that has read that row remembers it, and the row check of the   *)
(* ORM stops it when the row has gone; one that finds no row is a race.    *)
(***************************************************************************)
EXTENDS Sessions, TLAPS

USE SessionAssumption

-----------------------------------------------------------------------------
(* The steps.                                                              *)

\* What the theorems are about.
kept == <<token, sess, raced, ended, blacklist, lapsed, loggedOut, origin>>

\* The handlers only read before they commit, apart from Redis.
LEMMA UserKeeps == UserStep => UNCHANGED kept
<1> USE DEF kept, rows, ghosts
<1>1. ASSUME NEW u \in Users, LoginFails(u) PROVE UNCHANGED kept
  BY <1>1 DEF LoginFails
<1>2. ASSUME NEW u \in Users, MembershipChanges(u) \/ \E b \in BOOLEAN : PatchPlatformUser(u, b)
      PROVE  UNCHANGED kept
  BY <1>2 DEF MembershipChanges, PatchPlatformUser
<1>3. ASSUME NEW u \in Users, NEW r \in Requests,
             Register(r, u) \/ Login(r, u) \/ \E k \in {"reset", "verify"} : MailLink(r, u, k)
      PROVE  UNCHANGED kept
  BY <1>3 DEF Register, Login, MailLink
<1>4. ASSUME NEW a \in Tokens, RefreshReuse(a) PROVE UNCHANGED kept
  BY <1>4 DEF RefreshReuse, EndTx
<1>5. ASSUME NEW a \in Tokens, EnrollTotpStart(a) \/ DisableTotp(a) PROVE UNCHANGED kept
  BY <1>5 DEF EnrollTotpStart, DisableTotp
<1>6. ASSUME NEW a \in Tokens, NEW r \in Requests,
             Refresh(r, a) \/ LogoutAll(r, a) \/ ChangePassword(r, a) \/ EnrollTotpConfirm(r, a)
      PROVE  UNCHANGED kept
  BY <1>6 DEF Refresh, LogoutAll, ChangePassword, EnrollTotpConfirm
<1>7. ASSUME NEW a \in Tokens, NEW r \in Requests, NEW c \in {a, None},
             \/ Logout(r, a, c) \/ RevokeOtherSessions(r, a, c)
             \/ \E f \in Tokens : RevokeSession(r, a, c, f)
      PROVE  UNCHANGED kept
  BY <1>7 DEF Logout, RevokeOtherSessions, RevokeSession
<1>8. ASSUME NEW r \in Requests, NEW c \in Challenges, NEW k, VerifyMfa(r, c, k) PROVE UNCHANGED kept
  BY <1>8 DEF VerifyMfa
<1>9. ASSUME NEW r \in Requests, NEW l \in Links, FollowLink(r, l) PROVE UNCHANGED kept
  BY <1>9 DEF FollowLink
<1> HIDE DEF kept, rows, ghosts
<1>10. QED BY <1>1, <1>2, <1>3, <1>4, <1>5, <1>6, <1>7, <1>8, <1>9 DEF UserStep

\* The steps that do more than read, with what they leave alone.
TokenStep ==
  \/ \E r \in Requests, t \in Tokens :
       \/ MfaCommit(r, t) \/ RefreshCommit(r, t)
       \/ LoginCommit(r, t) \/ \E l \in Links : RegisterCommit(r, t, l)
  \/ \E r \in Requests : \/ RefreshSession(r)
                         \/ LogoutCommit(r) \/ LogoutAllCommit(r) \/ RevokeCommit(r)
                         \/ ChangePasswordCommit(r) \/ ResetPasswordCommit(r)
  \/ \E j \in Jtis : JtiLapses(j)
  \/ \E t \in Tokens : RefreshExpires(t) \/ SessionIdles(t)
  \/ PurgeRevokedRefreshTokens \/ PurgeOldSessions \/ PurgeExpiredTokenBlacklist

LEMMA SessionSteps == [Next]_vars => UNCHANGED kept \/ TokenStep
<1> SUFFICES ASSUME [Next]_vars PROVE UNCHANGED kept \/ TokenStep
  OBVIOUS
<1>1. ASSUME NEW r \in Requests,
             \/ \E c \in Challenges : LoginChallenge(r, c)
             \/ \E l \in Links : MailLinkCommit(r, l)
             \/ MfaBurn(r) \/ VerifyEmailCommit(r) \/ EnrollCommit(r) \/ Abort(r)
      PROVE  UNCHANGED kept
  BY <1>1 DEF LoginChallenge, MailLinkCommit, MfaBurn, VerifyEmailCommit, EnrollCommit, Abort,
              kept, rows, ghosts
<1>2. ASSUME (\E l \in Links : LinkExpires(l)) \/ RedisRestart \/ ExpirePasswordResetTokens
      PROVE  UNCHANGED kept
  BY <1>2 DEF LinkExpires, RedisRestart, ExpirePasswordResetTokens, kept, rows, ghosts
<1>3. CASE CommitStep
  BY <1>1, <1>3 DEF CommitStep, TokenStep
<1>4. CASE FaultStep
  BY <1>1, <1>2, <1>4 DEF FaultStep, TokenStep
<1>5. CASE JobStep
  BY <1>2, <1>5 DEF JobStep, TokenStep
<1>6. CASE UNCHANGED vars
  BY <1>6 DEF vars, kept, rows, ghosts
<1>7. QED BY <1>3, <1>4, <1>5, <1>6, UserKeeps DEF Next

-----------------------------------------------------------------------------
(* The blacklist.                                                          *)

\* Rows leave token_blacklist only when their jti has lapsed, no jti comes back to life, and a
\* logout is recorded with its row.
LEMMA BlacklistStep ==
  ASSUME [Next]_vars
  PROVE  /\ blacklist \subseteq blacklist' \cup lapsed' /\ lapsed \subseteq lapsed'
         /\ loggedOut' \subseteq loggedOut \cup blacklist'
<1> DEFINE Goal == /\ blacklist \subseteq blacklist' \cup lapsed' /\ lapsed \subseteq lapsed'
                   /\ loggedOut' \subseteq loggedOut \cup blacklist'
<1> USE DEF rows, ghosts
<1>1. ASSUME NEW r \in Requests, NEW t \in Tokens,
             \/ MfaCommit(r, t) \/ RefreshCommit(r, t)
             \/ LoginCommit(r, t) \/ \E l \in Links : RegisterCommit(r, t, l)
      PROVE  Goal
  BY <1>1 DEF MfaCommit, RefreshCommit, LoginCommit, RegisterCommit
<1>2. ASSUME NEW r \in Requests,
             \/ RefreshSession(r) \/ LogoutCommit(r) \/ LogoutAllCommit(r) \/ RevokeCommit(r)
             \/ ChangePasswordCommit(r) \/ ResetPasswordCommit(r)
      PROVE  Goal
  BY <1>2 DEF RefreshSession, LogoutCommit, LogoutAllCommit, RevokeCommit,
              ChangePasswordCommit, ResetPasswordCommit
<1>3. ASSUME (\E j \in Jtis : JtiLapses(j)) \/ \E t \in Tokens : RefreshExpires(t) \/ SessionIdles(t)
      PROVE  Goal
  BY <1>3 DEF JtiLapses, RefreshExpires, SessionIdles
<1>4. ASSUME PurgeRevokedRefreshTokens \/ PurgeOldSessions \/ PurgeExpiredTokenBlacklist PROVE Goal
  BY <1>4 DEF PurgeRevokedRefreshTokens, PurgeOldSessions, PurgeExpiredTokenBlacklist
<1>5. CASE UNCHANGED kept
  BY <1>5 DEF kept
<1>6. QED BY <1>1, <1>2, <1>3, <1>4, <1>5, SessionSteps DEF TokenStep

\* A jti that was logged out is in the table until it lapses.
LoggedOutListed == loggedOut \subseteq blacklist \cup lapsed

\* logout: an access token whose logout was committed is refused until it lapses, whatever
\* Redis loses and whatever the nightly job purges.
THEOREM LogoutHolds == Spec => []LoggedOutIsRefused
<1>1. Init => LoggedOutListed
  BY DEF Init, LoggedOutListed
<1>2. LoggedOutListed /\ [Next]_vars => LoggedOutListed'
  BY BlacklistStep DEF LoggedOutListed
<1>3. LoggedOutListed => LoggedOutIsRefused
  BY DEF LoggedOutListed, LoggedOutIsRefused, Blacklisted
<1>4. QED BY <1>1, <1>2, <1>3, PTL DEF Spec

\* Only the commit of verify_mfa records the challenge of a family, and only when the primary
\* key of the blacklist was free.
LEMMA OriginStep ==
  ASSUME [Next]_vars
  PROVE  \/ origin' = origin
         \/ \E t \in Tokens : \E c : /\ origin' = [origin EXCEPT ![t] = c]
                                      /\ c \notin blacklist /\ c \in blacklist'
<1> USE DEF ghosts
<1>1. ASSUME NEW r \in Requests, NEW t \in Tokens, MfaCommit(r, t)
      PROVE  \E c : /\ origin' = [origin EXCEPT ![t] = c]
                    /\ c \notin blacklist /\ c \in blacklist'
  BY <1>1 DEF MfaCommit, PrimaryKeyFree
<1>2. ASSUME NEW r \in Requests, NEW t \in Tokens,
             RefreshCommit(r, t) \/ LoginCommit(r, t) \/ \E l \in Links : RegisterCommit(r, t, l)
      PROVE  origin' = origin
  BY <1>2 DEF RefreshCommit, LoginCommit, RegisterCommit
<1>3. ASSUME NEW r \in Requests,
             \/ RefreshSession(r) \/ LogoutCommit(r) \/ LogoutAllCommit(r) \/ RevokeCommit(r)
             \/ ChangePasswordCommit(r) \/ ResetPasswordCommit(r)
      PROVE  origin' = origin
  BY <1>3 DEF RefreshSession, LogoutCommit, LogoutAllCommit, RevokeCommit,
              ChangePasswordCommit, ResetPasswordCommit
<1>4. ASSUME (\E j \in Jtis : JtiLapses(j)) \/ \E t \in Tokens : RefreshExpires(t) \/ SessionIdles(t)
      PROVE  origin' = origin
  BY <1>4 DEF JtiLapses, RefreshExpires, SessionIdles
<1>5. ASSUME PurgeRevokedRefreshTokens \/ PurgeOldSessions \/ PurgeExpiredTokenBlacklist
      PROVE  origin' = origin
  BY <1>5 DEF PurgeRevokedRefreshTokens, PurgeOldSessions, PurgeExpiredTokenBlacklist
<1>6. CASE UNCHANGED kept
  BY <1>6 DEF kept
<1>7. QED BY <1>1, <1>2, <1>3, <1>4, <1>5, <1>6, SessionSteps DEF TokenStep

\* A challenge that has made a session is in the table until it lapses.
OriginListed ==
  /\ DOMAIN origin = Tokens
  /\ \A t \in Tokens : origin[t] # None => origin[t] \in blacklist \cup lapsed

\* verify_mfa: a challenge yields one session while it has not lapsed, however many requests
\* found it unused and whatever Redis loses.
THEOREM ChallengeIsUsedOnce == Spec => []OneSessionPerChallenge
<1>1. Init => OriginListed /\ OneSessionPerChallenge
  BY DEF Init, OriginListed, OneSessionPerChallenge
<1>2. OriginListed /\ OneSessionPerChallenge /\ [Next]_vars => (OriginListed /\ OneSessionPerChallenge)'
  <2>1. SUFFICES ASSUME OriginListed, OneSessionPerChallenge, [Next]_vars
                 PROVE  (OriginListed /\ OneSessionPerChallenge)'
    OBVIOUS
  <2>2. blacklist \subseteq blacklist' \cup lapsed' /\ lapsed \subseteq lapsed'
    BY <2>1, BlacklistStep
  <2>3. CASE origin' = origin
    BY <2>1, <2>2, <2>3 DEF OriginListed, OneSessionPerChallenge
  <2>4. ASSUME NEW t \in Tokens, NEW c, origin' = [origin EXCEPT ![t] = c],
               c \notin blacklist, c \in blacklist'
        PROVE  (OriginListed /\ OneSessionPerChallenge)'
    <3>1. OriginListed'
      BY <2>1, <2>2, <2>4 DEF OriginListed
    <3>2. ASSUME NEW x \in Tokens, NEW y \in Tokens, origin'[x] # None,
                 origin'[x] = origin'[y], origin'[x] \notin lapsed'
          PROVE  x = y
      <4>1. \A z \in Tokens \ {t} : origin'[z] = origin[z]
        BY <2>4 DEF OriginListed
      <4>2. origin'[t] = c
        BY <2>1, <2>4 DEF OriginListed
      <4>3. ASSUME NEW z \in Tokens \ {t}, origin[z] = c, c # None, c \notin lapsed PROVE FALSE
        BY <2>1, <2>4, <4>3 DEF OriginListed
      <4>4. QED BY <2>1, <2>2, <3>2, <4>1, <4>2, <4>3 DEF OneSessionPerChallenge
    <3>3. QED BY <3>1, <3>2 DEF OneSessionPerChallenge
  <2>5. QED BY <2>1, <2>3, <2>4, OriginStep
<1>3. QED BY <1>1, <1>2, PTL DEF Spec

-----------------------------------------------------------------------------
(* Families of refresh tokens.                                             *)

\* A token that was issued belongs to the family of an issued token of the same user, whose
\* first token names it; a session row names an issued token of its family.
FamiliesOK ==
  /\ DOMAIN token = Tokens /\ DOMAIN sess = Tokens
  /\ \A t \in Tokens : DOMAIN token[t] = {"state", "user", "family", "expired"}
  /\ \A f \in Tokens : DOMAIN sess[f] = {"tok", "idle"}
  /\ \A t \in Tokens : token[t].state # "none" =>
       /\ token[t].family \in Tokens /\ token[token[t].family].state # "none"
       /\ token[token[t].family].family = token[t].family
       /\ token[token[t].family].user = token[t].user
  /\ \A f \in Tokens : sess[f].tok # None =>
       sess[f].tok \in Tokens /\ token[sess[f].tok].state # "none" /\ token[sess[f].tok].family = f

\* A family that no race has touched has one live token, ...
OneLive ==
  \A x, y \in Tokens :
    Live(x) /\ Live(y) /\ token[x].family = token[y].family /\ token[x].family \notin raced => x = y

\* ... listed unless it has expired; once the family has been signed out it has neither a
\* live token nor a session row.
Untouched ==
  /\ OneLive /\ LiveTokenIsListed
  /\ \A f \in ended : f \in Tokens /\ token[f].state # "none"
  /\ \A f \in ended : f \in raced \/ sess[f].tok = None
  /\ SignOutIsFinal

\* What a request in flight knows.  A refresh has read an issued token and, later, the session
\* row of its family, if no race has touched it; the cookie of a logout was live or will never be; and what signs out
\* everywhere has read tokens of its user.
Knows(q) ==
  /\ q.op = "refresh" => q.tok \in Tokens /\ token[q.tok].state # "none"
  /\ q.op = "refreshed" =>
       /\ q.tok \in Tokens /\ token[q.tok].state # "none"
       /\ q.fams \subseteq {token[q.tok].family}
       /\ token[q.tok].family \in raced \/ token[q.tok].family \in q.fams
  /\ q.op = "logout" =>
       q.cookie \in {None} \cup q.seen \/ (q.cookie \in Tokens /\ token[q.cookie].state \notin {"none", "live"})
  /\ q.op \in {"logoutAll", "reset"} =>
       \A t \in q.seen : t \in Tokens /\ token[t].state # "none" /\ token[t].user = q.user
  /\ q.op = "mfa" => "op" \in DOMAIN q
  /\ q.op = "mailLink" => q.kind \in {"reset", "verify"}

RequestsOK == DOMAIN req = Requests /\ \A r \in Requests : Knows(req[r])

LinksOK ==
  /\ DOMAIN link = Links
  /\ \A l \in Links : /\ DOMAIN link[l] = {"state", "user", "kind"}
                       /\ link[l].kind \in {"reset", "verify"}

\* What no step takes back: a token that was issued, its family and its user, the end of its
\* life, and a race.
Forward ==
  /\ raced \subseteq raced'
  /\ \A t \in Tokens : token[t].state # "none" =>
       /\ token'[t].state # "none" /\ token'[t].family = token[t].family
       /\ token'[t].user = token[t].user
       /\ token[t].state # "live" => token'[t].state # "live"

LEMMA KnowsForward ==
  ASSUME NEW q, Knows(q), Forward PROVE Knows(q)'
BY DEF Knows, Forward

LEMMA RevokedTokens ==
  ASSUME FamiliesOK, NEW T
  PROVE  /\ DOMAIN Revoke(T) = Tokens
         /\ \A t \in Tokens :
              /\ DOMAIN Revoke(T)[t] = {"state", "user", "family", "expired"}
              /\ Revoke(T)[t].user = token[t].user /\ Revoke(T)[t].family = token[t].family
              /\ Revoke(T)[t].expired = token[t].expired
              /\ Revoke(T)[t].state = "none" <=> token[t].state = "none"
              /\ Revoke(T)[t].state = "live" <=> Live(t) /\ t \notin T
<1>1. DOMAIN Revoke(T) = Tokens
  BY DEF Revoke
<1>2. ASSUME NEW t \in Tokens
      PROVE  /\ DOMAIN Revoke(T)[t] = {"state", "user", "family", "expired"}
             /\ Revoke(T)[t].user = token[t].user /\ Revoke(T)[t].family = token[t].family
             /\ Revoke(T)[t].expired = token[t].expired
             /\ Revoke(T)[t].state = "none" <=> token[t].state = "none"
             /\ Revoke(T)[t].state = "live" <=> Live(t) /\ t \notin T
  <2>1. DOMAIN token[t] = {"state", "user", "family", "expired"}
    BY DEF FamiliesOK
  <2>2. CASE t \in T /\ Live(t)
    <3>1. Revoke(T)[t] = [token[t] EXCEPT !.state = "revoked"]
      BY <2>2 DEF Revoke
    <3>2. QED BY <2>1, <2>2, <3>1 DEF Live
  <2>3. CASE ~(t \in T /\ Live(t))
    <3>1. Revoke(T)[t] = token[t]
      BY <2>3 DEF Revoke
    <3>2. QED BY <2>1, <2>3, <3>1 DEF Live
  <2>4. QED BY <2>2, <2>3
<1>3. QED BY <1>1, <1>2

LEMMA DroppedSessions ==
  ASSUME FamiliesOK, NEW F
  PROVE  /\ DOMAIN DropSessions(F) = Tokens
         /\ \A f \in Tokens :
              /\ DOMAIN DropSessions(F)[f] = {"tok", "idle"}
              /\ f \in F => DropSessions(F)[f].tok = None
              /\ f \notin F => DropSessions(F)[f] = sess[f]
BY DEF DropSessions, NoSession, FamiliesOK

FamilyGoal == FamiliesOK' /\ Untouched' /\ Forward

\* A step that issues no token: tokens are revoked or expire, session rows are dropped, and
\* what is signed out or dropped leaves no live token without a race.
LEMMA NothingIssued ==
  ASSUME FamiliesOK, Untouched,
         DOMAIN token' = Tokens, DOMAIN sess' = Tokens, raced \subseteq raced',
         \A t \in Tokens :
           /\ DOMAIN token'[t] = {"state", "user", "family", "expired"}
           /\ token'[t].user = token[t].user /\ token'[t].family = token[t].family
           /\ token[t].expired => token'[t].expired
           /\ token'[t].state = "none" <=> token[t].state = "none"
           /\ token'[t].state = "live" => token[t].state = "live",
         \A f \in Tokens :
           /\ DOMAIN sess'[f] = {"tok", "idle"}
           /\ \/ sess'[f].tok = sess[f].tok
              \/ /\ sess'[f].tok = None
                 /\ \A t \in Tokens :
                      token'[t].state = "live" /\ ~token'[t].expired /\ token[t].family = f
                        => f \in raced',
         ended \subseteq ended',
         \A f \in ended' \ ended :
           /\ f \in Tokens /\ token[f].state # "none" /\ (f \in raced' \/ sess'[f].tok = None)
           /\ \A t \in Tokens : token'[t].state = "live" /\ token[t].family = f => f \in raced'
  PROVE  FamilyGoal
<1>1. Forward
  BY DEF Forward, FamiliesOK
<1>2. FamiliesOK'
  <2>1. ASSUME NEW t \in Tokens, token'[t].state # "none"
        PROVE  /\ token'[t].family \in Tokens /\ token'[token'[t].family].state # "none"
               /\ token'[token'[t].family].family = token'[t].family
               /\ token'[token'[t].family].user = token'[t].user
    BY <2>1 DEF FamiliesOK
  <2>2. ASSUME NEW f \in Tokens, sess'[f].tok # None
        PROVE  /\ sess'[f].tok \in Tokens /\ token'[sess'[f].tok].state # "none"
               /\ token'[sess'[f].tok].family = f
    <3>1. sess'[f].tok = sess[f].tok
      BY <2>2
    <3>2. QED BY <2>2, <3>1 DEF FamiliesOK
  <2>3. QED BY <2>1, <2>2 DEF FamiliesOK
<1>3. OneLive'
  <2>1. SUFFICES ASSUME NEW x \in Tokens, NEW y \in Tokens, Live(x)', Live(y)',
                        token'[x].family = token'[y].family, token'[x].family \notin raced'
                 PROVE  x = y
    BY DEF OneLive
  <2>2. Live(x) /\ Live(y) /\ token[x].family = token[y].family /\ token[x].family \notin raced
    BY <2>1 DEF Live
  <2>3. QED BY <2>2 DEF Untouched, OneLive
<1>4. LiveTokenIsListed'
  <2>1. SUFFICES ASSUME NEW t \in Tokens, Live(t)', ~token'[t].expired, token'[t].family \notin raced'
                 PROVE  sess'[token'[t].family].tok = t
    BY DEF LiveTokenIsListed
  <2>2. Live(t) /\ ~token[t].expired /\ token[t].family \notin raced /\ token'[t].family = token[t].family
    BY <2>1 DEF Live
  <2>3. token[t].family \in Tokens /\ sess[token[t].family].tok = t
    BY <2>2 DEF FamiliesOK, Untouched, LiveTokenIsListed, Live
  <2>4. QED BY <2>1, <2>2, <2>3 DEF Live
<1>5. \A f \in ended' : f \in Tokens /\ token'[f].state # "none" /\ (f \in raced' \/ sess'[f].tok = None)
  BY DEF Untouched
<1>6. SignOutIsFinal'
  <2>1. SUFFICES ASSUME NEW t \in Tokens, Live(t)', token'[t].family \in ended'
                 PROVE  token'[t].family \in raced'
    BY DEF SignOutIsFinal
  <2>2. Live(t) /\ token'[t].family = token[t].family /\ token'[t].state = "live"
    BY <2>1 DEF Live
  <2>3. CASE token[t].family \in ended
    BY <2>2, <2>3 DEF Untouched, SignOutIsFinal
  <2>4. CASE token[t].family \notin ended
    BY <2>1, <2>2, <2>4
  <2>5. QED BY <2>3, <2>4
<1>7. QED BY <1>1, <1>2, <1>3, <1>4, <1>5, <1>6 DEF FamilyGoal, Untouched

\* A sign-in: a token that was never issued starts a family of its own.
LEMMA SignInStep ==
  ASSUME FamiliesOK, Untouched, NEW t \in Tokens, NEW u, CreateSessionTokens(t, u),
         UNCHANGED <<raced, ended>>
  PROVE  FamilyGoal
<1> DEFINE new == [state |-> "live", user |-> u, family |-> t, expired |-> FALSE]
<1>1. /\ token[t].state = "none" /\ token'[t] = new /\ DOMAIN token' = Tokens
      /\ \A x \in Tokens \ {t} : token'[x] = token[x]
      /\ sess'[t] = [tok |-> t, idle |-> FALSE] /\ DOMAIN sess' = Tokens
      /\ \A f \in Tokens \ {t} : sess'[f] = sess[f]
  BY DEF CreateSessionTokens, FamiliesOK
<1>2. /\ new.state = "live" /\ new.user = u /\ new.family = t /\ ~new.expired
      /\ DOMAIN new = {"state", "user", "family", "expired"}
  OBVIOUS
<1>3. sess'[t].tok = t /\ DOMAIN sess'[t] = {"tok", "idle"}
  BY <1>1
<1> HIDE DEF new
<1>4. \A x \in Tokens \ {t} : token[x].state # "none" => token[x].family # t
  BY <1>1 DEF FamiliesOK
<1>5. Forward
  BY <1>1 DEF Forward
<1>6. FamiliesOK'
  <2>1. \A x \in Tokens : token'[x].state # "none" =>
          /\ token'[x].family \in Tokens /\ token'[token'[x].family].state # "none"
          /\ token'[token'[x].family].family = token'[x].family
          /\ token'[token'[x].family].user = token'[x].user
    BY <1>1, <1>2, <1>4 DEF FamiliesOK
  <2>2. \A f \in Tokens : sess'[f].tok # None =>
          sess'[f].tok \in Tokens /\ token'[sess'[f].tok].state # "none" /\ token'[sess'[f].tok].family = f
    BY <1>1, <1>2, <1>3 DEF FamiliesOK
  <2>3. /\ \A x \in Tokens : DOMAIN token'[x] = {"state", "user", "family", "expired"}
        /\ \A f \in Tokens : DOMAIN sess'[f] = {"tok", "idle"}
    BY <1>1, <1>2, <1>3 DEF FamiliesOK
  <2>4. QED BY <1>1, <2>1, <2>2, <2>3 DEF FamiliesOK
<1>7. t \notin ended
  BY <1>1 DEF Untouched
<1>8. \A x \in Tokens : Live(x)' <=> x = t \/ Live(x)
  BY <1>1, <1>2 DEF Live
<1>9. OneLive'
  <2>1. SUFFICES ASSUME NEW x \in Tokens, NEW y \in Tokens, Live(x)', Live(y)',
                        token'[x].family = token'[y].family, token'[x].family \notin raced'
                 PROVE  x = y
    BY DEF OneLive
  <2>2. \A z \in Tokens \ {t} : Live(z)' => Live(z) /\ token'[z].family = token[z].family /\ token[z].family # t
    BY <1>1, <1>4, <1>8 DEF Live
  <2>3. token'[t].family = t
    BY <1>1, <1>2
  <2>4. CASE x = t \/ y = t
    BY <2>1, <2>2, <2>3, <2>4 DEF Live
  <2>5. CASE x # t /\ y # t
    <3>1. Live(x) /\ Live(y) /\ token[x].family = token[y].family /\ token[x].family \notin raced
      BY <2>1, <2>2, <2>5 DEF Live
    <3>2. QED BY <3>1 DEF Untouched, OneLive
  <2>6. QED BY <2>4, <2>5
<1>10. LiveTokenIsListed'
  <2>1. SUFFICES ASSUME NEW x \in Tokens, Live(x)', ~token'[x].expired, token'[x].family \notin raced'
                 PROVE  sess'[token'[x].family].tok = x
    BY DEF LiveTokenIsListed
  <2>2. CASE x = t
    BY <1>1, <1>2, <1>3, <2>2
  <2>3. CASE x # t
    <3>1. /\ Live(x) /\ ~token[x].expired /\ token[x].family \notin raced
          /\ token'[x].family = token[x].family /\ token[x].family # t /\ token[x].family \in Tokens
      BY <1>1, <1>4, <1>8, <2>1, <2>3 DEF Live, FamiliesOK
    <3>2. sess[token[x].family].tok = x
      BY <3>1 DEF Untouched, LiveTokenIsListed
    <3>3. QED BY <1>1, <3>1, <3>2
  <2>4. QED BY <2>2, <2>3
<1>11. \A f \in ended' : f \in Tokens /\ token'[f].state # "none" /\ (f \in raced' \/ sess'[f].tok = None)
  BY <1>1, <1>7 DEF Untouched
<1>12. SignOutIsFinal'
  BY <1>1, <1>2, <1>7, <1>8 DEF SignOutIsFinal, Untouched, Live
<1>13. QED BY <1>5, <1>6, <1>9, <1>10, <1>11, <1>12 DEF FamilyGoal, Untouched

\* A refresh that commits: unless a race has touched the family its session row is the one
\* that was read, so the family has not been signed out and the old token was the only one.
LEMMA RefreshStep ==
  ASSUME FamiliesOK, Untouched, NEW r \in Requests, Knows(req[r]), NEW n \in Tokens, RefreshCommit(r, n)
  PROVE  FamilyGoal
<1> DEFINE q == req[r]
           t == q.tok
           fam == token[t].family
           new == [state |-> "live", user |-> token[t].user, family |-> fam, expired |-> FALSE]
<1>1. /\ q.op = "refreshed" /\ RowsStillThere(q.fams) /\ token[n].state = "none"
      /\ token' = [Revoke({t}) EXCEPT ![n] = new]
      /\ sess' = Repointed(q.fams, n) /\ ended' = ended
      /\ raced' = IF Live(t) \/ fam \in ended THEN raced ELSE raced \cup {fam}
  BY DEF RefreshCommit
<1>2. /\ t \in Tokens /\ token[t].state # "none" /\ q.fams \subseteq {fam}
      /\ fam \in raced \/ fam \in q.fams
  BY <1>1 DEF Knows
<1>3. /\ fam \in Tokens /\ token[fam].state # "none" /\ token[fam].family = fam
      /\ token[fam].user = token[t].user /\ n # t /\ n # fam
  BY <1>1, <1>2 DEF FamiliesOK
<1>4. /\ new.state = "live" /\ new.user = token[t].user /\ new.family = fam /\ ~new.expired
      /\ DOMAIN new = {"state", "user", "family", "expired"}
  OBVIOUS
<1>5. /\ DOMAIN token' = Tokens /\ token'[n] = new
      /\ \A x \in Tokens \ {n} : token'[x] = Revoke({t})[x]
  BY <1>1, RevokedTokens
<1>6. \A x \in Tokens \ {n} :
        /\ DOMAIN token'[x] = {"state", "user", "family", "expired"}
        /\ token'[x].user = token[x].user /\ token'[x].family = token[x].family
        /\ token'[x].expired = token[x].expired
        /\ token'[x].state = "none" <=> token[x].state = "none"
        /\ token'[x].state = "live" <=> Live(x) /\ x # t
  BY <1>5, RevokedTokens
<1>7. /\ DOMAIN sess' = Tokens
      /\ \A f \in Tokens : /\ f \in q.fams => sess'[f].tok = n /\ DOMAIN sess'[f] = {"tok", "idle"}
                           /\ f \notin q.fams => sess'[f] = sess[f]
  BY <1>1 DEF Repointed
<1> HIDE DEF new
<1>8. fam \notin raced' => /\ fam \in q.fams /\ fam \notin ended /\ Live(t)
                           /\ \A x \in Tokens \ {n} : token'[x].state = "live" => token'[x].family # fam
  <2>1. SUFFICES ASSUME fam \notin raced'
                 PROVE  /\ fam \in q.fams /\ fam \notin ended /\ Live(t)
                        /\ \A x \in Tokens \ {n} : token'[x].state = "live" => token'[x].family # fam
    OBVIOUS
  <2>2. fam \notin raced /\ fam \in q.fams
    BY <1>1, <1>2, <2>1
  <2>3. fam \notin ended
    BY <1>1, <2>2 DEF RowsStillThere, Untouched
  <2>4. Live(t)
    BY <1>1, <2>1, <2>3
  <2>5. ASSUME NEW x \in Tokens \ {n}, token'[x].state = "live", token'[x].family = fam PROVE FALSE
    <3>1. Live(x) /\ x # t /\ token[x].family = fam
      BY <1>6, <2>5
    <3>2. QED BY <1>2, <2>2, <2>4, <3>1 DEF Untouched, OneLive
  <2>6. QED BY <2>2, <2>3, <2>4, <2>5
<1>9. raced \subseteq raced'
  BY <1>1
<1>10. Forward
  <2>1. \A x \in Tokens : token[x].state # "none" =>
         /\ token'[x].state # "none" /\ token'[x].family = token[x].family
         /\ token'[x].user = token[x].user
         /\ token[x].state # "live" => token'[x].state # "live"
    BY <1>1, <1>6 DEF Live
  <2>2. QED BY <1>9, <2>1 DEF Forward
<1>11. FamiliesOK'
  <2>1. ASSUME NEW x \in Tokens, token'[x].state # "none"
        PROVE  /\ token'[x].family \in Tokens /\ token'[token'[x].family].state # "none"
               /\ token'[token'[x].family].family = token'[x].family
               /\ token'[token'[x].family].user = token'[x].user
    <3>1. CASE x = n
      <4>1. token'[x].family = fam /\ token'[x].user = token[t].user
        BY <1>4, <1>5, <3>1
      <4>2. /\ token'[fam].state # "none" /\ token'[fam].family = fam
            /\ token'[fam].user = token[t].user
        BY <1>3, <1>6
      <4>3. QED BY <1>3, <4>1, <4>2
    <3>2. CASE x # n
      <4>1. /\ token[x].state # "none" /\ token'[x].family = token[x].family
            /\ token'[x].user = token[x].user
        BY <1>6, <2>1, <3>2
      <4>2. /\ token[x].family \in Tokens \ {n} /\ token[token[x].family].state # "none"
            /\ token[token[x].family].family = token[x].family
            /\ token[token[x].family].user = token[x].user
        BY <1>1, <4>1 DEF FamiliesOK
      <4>3. QED BY <1>6, <4>1, <4>2
    <3>3. QED BY <3>1, <3>2
  <2>2. ASSUME NEW f \in Tokens, sess'[f].tok # None
        PROVE  /\ sess'[f].tok \in Tokens /\ token'[sess'[f].tok].state # "none"
               /\ token'[sess'[f].tok].family = f
    <3>1. CASE f \in q.fams
      BY <1>2, <1>4, <1>5, <1>7, <3>1
    <3>2. CASE f \notin q.fams
      <4>1. /\ sess'[f].tok = sess[f].tok /\ sess[f].tok \in Tokens \ {n}
            /\ token[sess[f].tok].state # "none" /\ token[sess[f].tok].family = f
        BY <1>1, <1>7, <2>2, <3>2 DEF FamiliesOK
      <4>2. QED BY <1>6, <4>1
    <3>3. QED BY <3>1, <3>2
  <2>3. /\ \A x \in Tokens : DOMAIN token'[x] = {"state", "user", "family", "expired"}
        /\ \A f \in Tokens : DOMAIN sess'[f] = {"tok", "idle"}
    BY <1>4, <1>5, <1>6, <1>7 DEF FamiliesOK
  <2>4. QED BY <1>5, <1>7, <2>1, <2>2, <2>3 DEF FamiliesOK
<1>12. OneLive'
  <2>1. SUFFICES ASSUME NEW x \in Tokens, NEW y \in Tokens, Live(x)', Live(y)',
                        token'[x].family = token'[y].family, token'[x].family \notin raced'
                 PROVE  x = y
    BY DEF OneLive
  <2>2. CASE token'[x].family = fam
    <3>1. fam \notin raced'
      BY <2>1, <2>2
    <3>2. \A z \in Tokens \ {n} : token'[z].state = "live" => token'[z].family # fam
      BY <1>8, <3>1
    <3>3. x = n /\ y = n
      BY <2>1, <2>2, <3>2 DEF Live
    <3>4. QED BY <3>3
  <2>3. CASE token'[x].family # fam
    <3>1. x # n /\ y # n
      BY <1>4, <1>5, <2>1, <2>3
    <3>2. Live(x) /\ Live(y) /\ token[x].family = token[y].family /\ token[x].family \notin raced
      BY <1>6, <1>9, <2>1, <3>1 DEF Live
    <3>3. QED BY <3>2 DEF Untouched, OneLive
  <2>4. QED BY <2>2, <2>3
<1>13. LiveTokenIsListed'
  <2>1. SUFFICES ASSUME NEW x \in Tokens, Live(x)', ~token'[x].expired, token'[x].family \notin raced'
                 PROVE  sess'[token'[x].family].tok = x
    BY DEF LiveTokenIsListed
  <2>2. CASE x = n
    <3>1. token'[x].family = fam
      BY <1>4, <1>5, <2>2
    <3>2. fam \in q.fams
      BY <1>8, <2>1, <3>1
    <3>3. QED BY <1>3, <1>7, <2>2, <3>1, <3>2
  <2>3. CASE x # n
    <3>1. /\ Live(x) /\ ~token[x].expired /\ token'[x].family = token[x].family
          /\ token[x].family \notin raced
      BY <1>6, <1>9, <2>1, <2>3 DEF Live
    <3>2. token[x].family # fam
      <4>1. SUFFICES ASSUME token[x].family = fam PROVE FALSE
        OBVIOUS
      <4>2. fam \notin raced'
        BY <2>1, <3>1, <4>1
      <4>3. \A z \in Tokens \ {n} : token'[z].state = "live" => token'[z].family # fam
        BY <1>8, <4>2
      <4>4. QED BY <2>1, <2>3, <3>1, <4>1, <4>3 DEF Live
    <3>3. token[x].family \in Tokens /\ sess[token[x].family].tok = x
      BY <3>1 DEF FamiliesOK, Untouched, LiveTokenIsListed, Live
    <3>4. QED BY <1>2, <1>7, <3>1, <3>2, <3>3
  <2>4. QED BY <2>2, <2>3
<1>14. \A f \in ended' : f \in Tokens /\ token'[f].state # "none" /\ (f \in raced' \/ sess'[f].tok = None)
  <2>1. SUFFICES ASSUME NEW f \in ended
                 PROVE  f \in Tokens /\ token'[f].state # "none" /\ (f \in raced' \/ sess'[f].tok = None)
    BY <1>1
  <2>2. f \in Tokens /\ token[f].state # "none" /\ (f \in raced \/ sess[f].tok = None)
    BY DEF Untouched
  <2>3. f \in q.fams => f \in raced
    BY <1>1, <2>2 DEF RowsStillThere
  <2>4. QED BY <1>1, <1>6, <1>7, <1>9, <2>2, <2>3
<1>15. SignOutIsFinal'
  <2>1. SUFFICES ASSUME NEW x \in Tokens, Live(x)', token'[x].family \in ended'
                 PROVE  token'[x].family \in raced'
    BY DEF SignOutIsFinal
  <2>2. CASE x = n
    BY <1>1, <1>4, <1>5, <1>8, <2>1, <2>2
  <2>3. CASE x # n
    <3>1. Live(x) /\ token'[x].family = token[x].family /\ token[x].family \in ended
      BY <1>1, <1>6, <2>1, <2>3 DEF Live
    <3>2. QED BY <1>9, <3>1 DEF Untouched, SignOutIsFinal
  <2>4. QED BY <2>2, <2>3
<1>16. QED BY <1>10, <1>11, <1>12, <1>13, <1>14, <1>15 DEF FamilyGoal, Untouched

\* Revoking tokens and dropping session rows.
LEMMA RevokeAndDrop ==
  ASSUME FamiliesOK, Untouched, NEW T, NEW F, token' = Revoke(T) \/ (T = {} /\ token' = token),
         sess' = DropSessions(F) \/ (F = {} /\ sess' = sess), raced \subseteq raced', ended \subseteq ended',
         \A f \in F, t \in Tokens :
           Live(t) /\ t \notin T /\ ~token[t].expired /\ token[t].family = f => f \in raced',
         \A f \in ended' \ ended :
           /\ f \in Tokens /\ token[f].state # "none" /\ (f \in raced' \/ sess'[f].tok = None)
           /\ \A t \in Tokens : Live(t) /\ t \notin T /\ token[t].family = f => f \in raced'
  PROVE  FamilyGoal
<1>1. /\ DOMAIN token' = Tokens
      /\ \A t \in Tokens :
           /\ DOMAIN token'[t] = {"state", "user", "family", "expired"}
           /\ token'[t].user = token[t].user /\ token'[t].family = token[t].family
           /\ token'[t].expired = token[t].expired
           /\ token'[t].state = "none" <=> token[t].state = "none"
           /\ token'[t].state = "live" <=> Live(t) /\ t \notin T
  <2>1. CASE token' = Revoke(T)
    BY <2>1, RevokedTokens
  <2>2. CASE T = {} /\ token' = token
    BY <2>2 DEF FamiliesOK, Live
  <2>3. QED BY <2>1, <2>2
<1>2. /\ DOMAIN sess' = Tokens
      /\ \A f \in Tokens : /\ DOMAIN sess'[f] = {"tok", "idle"}
                           /\ f \in F => sess'[f].tok = None
                           /\ f \notin F => sess'[f] = sess[f]
  <2>1. CASE sess' = DropSessions(F)
    BY <2>1, DroppedSessions
  <2>2. CASE F = {} /\ sess' = sess
    BY <2>2 DEF FamiliesOK
  <2>3. QED BY <2>1, <2>2
<1>3. \A t \in Tokens :
        /\ token[t].expired => token'[t].expired
        /\ token'[t].state = "live" => token[t].state = "live"
  BY <1>1 DEF Live
<1>4. ASSUME NEW f \in Tokens
      PROVE  \/ sess'[f].tok = sess[f].tok
             \/ /\ sess'[f].tok = None
                /\ \A t \in Tokens :
                     token'[t].state = "live" /\ ~token'[t].expired /\ token[t].family = f
                       => f \in raced'
  <2>1. CASE f \notin F
    BY <1>2, <2>1
  <2>2. CASE f \in F
    <3>1. ASSUME NEW t \in Tokens, token'[t].state = "live", ~token'[t].expired, token[t].family = f
          PROVE  f \in raced'
      <4>1. Live(t) /\ t \notin T
        BY <1>1, <3>1
      <4>2. token'[t].expired = token[t].expired
        BY <1>1
      <4>3. ~token[t].expired
        BY <3>1, <4>2, Zenon
      <4>4. QED BY <2>2, <3>1, <4>1, <4>3
    <3>2. sess'[f].tok = None
      BY <1>2, <2>2
    <3>3. QED BY <3>1, <3>2, Zenon
  <2>3. QED BY <2>1, <2>2
<1>5. \A f \in ended' \ ended :
        /\ f \in Tokens /\ token[f].state # "none" /\ (f \in raced' \/ sess'[f].tok = None)
        /\ \A t \in Tokens : token'[t].state = "live" /\ token[t].family = f => f \in raced'
  BY <1>1
<1>6. QED BY <1>1, <1>2, <1>3, <1>4, <1>5, NothingIssued

\* The session row of a live token that no race has touched is the one that names it.
LEMMA RowOfLive ==
  ASSUME FamiliesOK, Untouched, NEW t \in Tokens, Live(t), ~token[t].expired,
         token[t].family \notin raced
  PROVE  token[t].family \in Tokens /\ sess[token[t].family].tok = t /\ t # None
BY DEF FamiliesOK, Untouched, LiveTokenIsListed, Live

\* logout: the cookie names the token it revokes, or one that is dead already.
LEMMA LogoutStep ==
  ASSUME FamiliesOK, Untouched, NEW r \in Requests, Knows(req[r]), LogoutCommit(r)
  PROVE  FamilyGoal
<1> DEFINE q == req[r]
           F == {f \in Tokens : q.cookie # None /\ sess[f].tok = q.cookie}
<1>1. /\ q.op = "logout" /\ token' = Revoke(q.seen) /\ sess' = DropSessions(F)
      /\ raced \subseteq raced' /\ ended' = ended
  BY DEF LogoutCommit
<1>2. q.cookie \in {None} \cup q.seen \/ (q.cookie \in Tokens /\ token[q.cookie].state \notin {"none", "live"})
  BY <1>1 DEF Knows
<1>3. ASSUME NEW f \in F, NEW t \in Tokens, Live(t), t \notin q.seen, ~token[t].expired,
             token[t].family = f
      PROVE  f \in raced
  <2>1. SUFFICES ASSUME f \notin raced PROVE FALSE
    OBVIOUS
  <2>2. sess[f].tok = t
    BY <1>3, <2>1, RowOfLive
  <2>3. QED BY <1>2, <1>3, <2>2 DEF Live
<1> HIDE DEF F
<1>4. QED BY <1>1, <1>3, RevokeAndDrop

\* logout-all and the password reset: what was issued to the user behind the back of the
\* request is a race, and every row of the user goes.
LEMMA SignOutStep ==
  ASSUME FamiliesOK, Untouched, NEW u, NEW seen, SignOutEverywhere(u, seen),
         \A t \in seen : t \in Tokens /\ token[t].state # "none" /\ token[t].user = u
  PROVE  FamilyGoal
<1>1. /\ token' = Revoke(seen) /\ sess' = DropSessions(SessionsOf(u))
      /\ raced' = raced \cup Families(LiveOf(u) \ seen) /\ ended' = ended \cup Families(seen)
  BY DEF SignOutEverywhere
<1>2. ASSUME NEW f \in Tokens, token[f].user = u, NEW t \in Tokens, Live(t), t \notin seen,
             token[t].family = f
      PROVE  f \in raced'
  <2>1. token[t].user = u
    BY <1>2 DEF FamiliesOK, Live
  <2>2. t \in LiveOf(u) \ seen
    BY <1>2, <2>1 DEF LiveOf
  <2>3. QED BY <1>1, <1>2, <2>2 DEF Families
<1>3. \A f \in SessionsOf(u) : f \in Tokens /\ token[f].user = u
  BY DEF SessionsOf
<1>4. ASSUME NEW f \in ended' \ ended
      PROVE  f \in Tokens /\ token[f].state # "none" /\ token[f].user = u /\ sess'[f].tok = None
  <2>1. PICK s \in seen : f = token[s].family
    BY <1>1, <1>4 DEF Families
  <2>2. f \in Tokens /\ token[f].state # "none" /\ token[f].user = u
    BY <2>1 DEF FamiliesOK
  <2>3. CASE f \in SessionsOf(u)
    BY <1>1, <2>2, <2>3, DroppedSessions
  <2>4. CASE f \notin SessionsOf(u)
    <3>1. sess[f].tok = None
      BY <2>2, <2>4 DEF SessionsOf
    <3>2. QED BY <1>1, <2>2, <2>4, <3>1, DroppedSessions
  <2>5. QED BY <2>2, <2>3, <2>4
<1>5. raced \subseteq raced' /\ ended \subseteq ended'
  BY <1>1
<1>6. \A f \in SessionsOf(u), t \in Tokens :
        Live(t) /\ t \notin seen /\ ~token[t].expired /\ token[t].family = f => f \in raced'
  BY <1>2, <1>3
<1>7. \A f \in ended' \ ended :
        /\ f \in Tokens /\ token[f].state # "none" /\ (f \in raced' \/ sess'[f].tok = None)
        /\ \A t \in Tokens : Live(t) /\ t \notin seen /\ token[t].family = f => f \in raced'
  BY <1>2, <1>4
<1>8. QED BY <1>1, <1>5, <1>6, <1>7, RevokeAndDrop

\* revoke: the row may name another token by now, which is a race.
LEMMA RevokeStep ==
  ASSUME FamiliesOK, Untouched, NEW r \in Requests, RevokeCommit(r)
  PROVE  FamilyGoal
<1> DEFINE q == req[r]
<1>1. /\ token' = Revoke(q.seen) /\ sess' = DropSessions(q.fams) /\ ended' = ended
      /\ raced' = raced \cup {f \in q.fams : sess[f].tok \notin q.seen \cup {None}}
  BY DEF RevokeCommit
<1>2. ASSUME NEW f \in q.fams, NEW t \in Tokens, Live(t), t \notin q.seen, ~token[t].expired,
             token[t].family = f
      PROVE  f \in raced'
  <2>1. CASE f \in raced
    BY <1>1, <2>1
  <2>2. CASE f \notin raced
    <3>1. sess[f].tok = t /\ t # None
      BY <1>2, <2>2, RowOfLive
    <3>2. QED BY <1>1, <1>2, <3>1
  <2>3. QED BY <2>1, <2>2
<1>3. raced \subseteq raced'
  BY <1>1
<1>4. QED BY <1>1, <1>2, <1>3, RevokeAndDrop

\* Changing the password revokes tokens and leaves the session rows.
LEMMA ChangePasswordStep ==
  ASSUME FamiliesOK, Untouched, NEW r \in Requests, ChangePasswordCommit(r)
  PROVE  FamilyGoal
<1>1. UNCHANGED <<sess, raced, ended>>
  BY DEF ChangePasswordCommit, ghosts
<1>2. CASE token' = token
  BY <1>1, <1>2, RevokeAndDrop
<1>3. ASSUME NEW T, token' = Revoke(T) PROVE FamilyGoal
  BY <1>1, <1>3, RevokeAndDrop
<1>4. QED BY <1>2, <1>3 DEF ChangePasswordCommit

\* PurgeOldSessions: the rows it drops name expired tokens.
LEMMA PurgeSessionsStep ==
  ASSUME FamiliesOK, Untouched, PurgeOldSessions
  PROVE  FamilyGoal
<1> DEFINE F == {f \in Tokens : sess[f].tok # None /\ sess[f].idle /\ token[sess[f].tok].expired}
<1>1. UNCHANGED <<token, raced, ended>> /\ sess' = DropSessions(F)
  BY DEF PurgeOldSessions, ghosts
<1>2. ASSUME NEW f \in F, NEW t \in Tokens, Live(t), ~token[t].expired, token[t].family = f
      PROVE  f \in raced
  BY <1>2, RowOfLive
<1> HIDE DEF F
<1>3. QED BY <1>1, <1>2, RevokeAndDrop


\* RefreshExpires, SessionIdles and the purge of revoked tokens leave every family its tokens
\* and its row.
LEMMA AgeingStep ==
  ASSUME FamiliesOK, Untouched,
         \/ \E t \in Tokens : RefreshExpires(t) \/ SessionIdles(t)
         \/ PurgeRevokedRefreshTokens
  PROVE  FamilyGoal
<1>1. UNCHANGED <<raced, ended>>
  BY DEF RefreshExpires, SessionIdles, PurgeRevokedRefreshTokens, ghosts
<1>2. /\ DOMAIN token' = Tokens
      /\ \A t \in Tokens :
           /\ DOMAIN token'[t] = {"state", "user", "family", "expired"}
           /\ token'[t].user = token[t].user /\ token'[t].family = token[t].family
           /\ token[t].expired => token'[t].expired
           /\ token'[t].state = "none" <=> token[t].state = "none"
           /\ token'[t].state = "live" => token[t].state = "live"
  <2>1. ASSUME NEW x \in Tokens, RefreshExpires(x) PROVE <1>2!2
    <3>1. token' = [token EXCEPT ![x].expired = TRUE]
      BY <2>1 DEF RefreshExpires
    <3>2. QED BY <3>1 DEF FamiliesOK
  <2>2. ASSUME NEW x \in Tokens, SessionIdles(x) PROVE <1>2!2
    BY <2>2 DEF SessionIdles, FamiliesOK
  <2>3. ASSUME PurgeRevokedRefreshTokens PROVE <1>2!2
    BY <2>3 DEF PurgeRevokedRefreshTokens, FamiliesOK
  <2>4. DOMAIN token' = Tokens
    BY DEF RefreshExpires, SessionIdles, PurgeRevokedRefreshTokens, FamiliesOK
  <2>5. QED BY <2>1, <2>2, <2>3, <2>4
<1>3. DOMAIN sess' = Tokens /\ \A f \in Tokens : DOMAIN sess'[f] = {"tok", "idle"} /\ sess'[f].tok = sess[f].tok
  BY DEF RefreshExpires, SessionIdles, PurgeRevokedRefreshTokens, FamiliesOK
<1>4. QED BY <1>1, <1>2, <1>3, NothingIssued

\* Every step keeps the families in order.
LEMMA FamilyStep ==
  ASSUME FamiliesOK, Untouched, RequestsOK, [Next]_vars
  PROVE  FamilyGoal
<1>1. ASSUME NEW r \in Requests, NEW t \in Tokens,
             MfaCommit(r, t) \/ LoginCommit(r, t) \/ \E l \in Links : RegisterCommit(r, t, l)
      PROVE  FamilyGoal
  <2>1. UNCHANGED <<raced, ended>> /\ \E u : CreateSessionTokens(t, u)
    BY <1>1 DEF MfaCommit, LoginCommit, RegisterCommit, ghosts
  <2>2. QED BY <2>1, SignInStep
<1>2. ASSUME NEW r \in Requests, NEW t \in Tokens, RefreshCommit(r, t) PROVE FamilyGoal
  BY <1>2, RefreshStep DEF RequestsOK
<1>3. ASSUME NEW r \in Requests, LogoutCommit(r) \/ RefreshSession(r) PROVE FamilyGoal
  <2>1. CASE RefreshSession(r)
    BY <2>1, RevokeAndDrop DEF RefreshSession, rows
  <2>2. CASE LogoutCommit(r)
    BY <2>2, LogoutStep DEF RequestsOK
  <2>3. QED BY <1>3, <2>1, <2>2
<1>4. ASSUME NEW r \in Requests, LogoutAllCommit(r) \/ ResetPasswordCommit(r) PROVE FamilyGoal
  <2>1. SignOutEverywhere(req[r].user, req[r].seen) /\ req[r].op \in {"logoutAll", "reset"}
    BY <1>4 DEF LogoutAllCommit, ResetPasswordCommit
  <2>2. \A t \in req[r].seen : t \in Tokens /\ token[t].state # "none" /\ token[t].user = req[r].user
    BY <2>1 DEF RequestsOK, Knows
  <2>3. QED BY <2>1, <2>2, SignOutStep
<1>5. ASSUME UNCHANGED <<token, sess, raced, ended>> PROVE FamilyGoal
  BY <1>5, RevokeAndDrop
<1>6. ASSUME (\E j \in Jtis : JtiLapses(j)) \/ PurgeExpiredTokenBlacklist PROVE FamilyGoal
  BY <1>5, <1>6 DEF JtiLapses, PurgeExpiredTokenBlacklist, rows, ghosts
<1>7. CASE UNCHANGED kept
  BY <1>5, <1>7 DEF kept
<1>8. CASE TokenStep
  BY <1>1, <1>2, <1>3, <1>4, <1>6, <1>8, RevokeStep, ChangePasswordStep, PurgeSessionsStep, AgeingStep
     DEF TokenStep
<1>9. QED BY <1>7, <1>8, SessionSteps

-----------------------------------------------------------------------------
(* Requests in flight.                                                     *)

\* A step leaves the requests alone or replaces one by what it has just read.
Learns == \/ req' = req
          \/ \E r \in Requests : \E s : (Knows(s) \/ Knows(s)') /\ req' = [req EXCEPT ![r] = s]

LEMMA BeginLearns ==
  ASSUME NEW r \in Requests, NEW s, Knows(s), Begin(r, s) PROVE Learns
BY DEF Learns, Begin

LEMMA DoneLearns ==
  ASSUME NEW r \in Requests, Done(r) PROVE Learns
<1>1. Knows(Idle)
  BY DEF Knows, Idle
<1>2. QED BY <1>1 DEF Learns, Done

\* refresh_tokens reads a live token, ...
LEMMA RefreshLearns ==
  ASSUME NEW r \in Requests, NEW t \in Tokens, Refresh(r, t)
  PROVE  Learns
<1> DEFINE s == [op |-> "refresh", tok |-> t]
<1>1. Live(t) /\ Begin(r, s)
  BY DEF Refresh
<1>2. Knows(s)
  BY <1>1 DEF Knows, Live
<1>3. QED BY <1>1, <1>2, BeginLearns

\* ... and the session row of its family, or none, which is a race.
LEMMA RefreshSessionLearns ==
  ASSUME FamiliesOK, RequestsOK, NEW r \in Requests, RefreshSession(r)
  PROVE  Learns
<1> DEFINE t == req[r].tok
           s == [op |-> "refreshed", tok |-> t, fams |-> SessionOf(t)]
<1>1. /\ t \in Tokens /\ token[t].state # "none" /\ req' = [req EXCEPT ![r] = s]
      /\ token' = token
      /\ raced' = IF SessionOf(t) = {} THEN raced \cup {token[t].family} ELSE raced
  BY DEF RefreshSession, RequestsOK, Knows, rows
<1>2. SessionOf(t) \subseteq {token[t].family}
  <2>1. ASSUME NEW f \in SessionOf(t) PROVE f = token[t].family
    BY <1>1, <2>1 DEF SessionOf, FamiliesOK
  <2>2. QED BY <2>1
<1>3. token[t].family \in raced' \/ token[t].family \in SessionOf(t)
  BY <1>1, <1>2
<1>4. ASSUME NEW q, q = s PROVE Knows(q)'
  BY <1>1, <1>2, <1>3, <1>4 DEF Knows
<1>5. \E x : Knows(x)' /\ req' = [req EXCEPT ![r] = x]
  BY <1>1, <1>4
<1>6. QED BY <1>5 DEF Learns

\* logout_user: the cookie names a token that is live, dead or unknown.
LEMMA LogoutLearns ==
  ASSUME NEW r \in Requests, NEW a \in Tokens, NEW c \in {a, None}, Logout(r, a, c)
  PROVE  Learns
<1> DEFINE s == [op |-> "logout", jti |-> {a} \ lapsed,
                 seen |-> {t \in Tokens : t = c /\ Live(t)}, cookie |-> c]
<1>1. token[a].state # "none" /\ Begin(r, s)
  BY DEF Logout
<1>2. Knows(s)
  BY <1>1 DEF Knows, Live
<1>3. QED BY <1>1, <1>2, BeginLearns

\* What signs out everywhere reads the live tokens of the user.
LEMMA LiveOfUser ==
  ASSUME NEW u
  PROVE  \A t \in LiveOf(u) : t \in Tokens /\ token[t].state # "none" /\ token[t].user = u
BY DEF LiveOf, Live

LEMMA LogoutAllLearns ==
  ASSUME NEW r \in Requests, NEW a \in Tokens, LogoutAll(r, a)
  PROVE  Learns
<1> DEFINE s == [op |-> "logoutAll", jti |-> a, user |-> token[a].user,
                 seen |-> LiveOf(token[a].user)]
<1>1. Begin(r, s)
  BY DEF LogoutAll
<1>2. Knows(s)
  BY LiveOfUser DEF Knows
<1>3. QED BY <1>1, <1>2, BeginLearns

LEMMA FollowLinkLearns ==
  ASSUME LinksOK, NEW r \in Requests, NEW l \in Links, FollowLink(r, l)
  PROVE  Learns
<1> DEFINE s == [op |-> link[l].kind, user |-> link[l].user, link |-> l,
                 seen |-> LiveOf(link[l].user)]
<1>1. Begin(r, s) /\ link[l].kind \in {"reset", "verify"}
  BY DEF FollowLink, LinksOK
<1>2. Knows(s)
  BY <1>1, LiveOfUser DEF Knows
<1>3. QED BY <1>1, <1>2, BeginLearns

LEMMA UserLearns ==
  ASSUME LinksOK, UserStep
  PROVE  Learns
<1>1. ASSUME NEW u \in Users, LoginFails(u) \/ MembershipChanges(u) \/ \E b \in BOOLEAN : PatchPlatformUser(u, b)
      PROVE  Learns
  BY <1>1 DEF LoginFails, MembershipChanges, PatchPlatformUser, NoRequest, Change, Learns
<1>2. ASSUME NEW a \in Tokens, RefreshReuse(a) \/ EnrollTotpStart(a) \/ DisableTotp(a) PROVE Learns
  BY <1>2 DEF RefreshReuse, EnrollTotpStart, DisableTotp, NoRequest, Learns
<1>3. ASSUME NEW u \in Users, NEW r \in Requests, Register(r, u) PROVE Learns
  <2>1. Knows([op |-> "register", user |-> u])
    BY DEF Knows
  <2>2. QED BY <1>3, <2>1, BeginLearns DEF Register
<1>4. ASSUME NEW u \in Users, NEW r \in Requests, Login(r, u) PROVE Learns
  <2>1. \A op \in {"login", "loginMfa"} : Knows([op |-> op, user |-> u])
    BY DEF Knows
  <2>2. QED BY <1>4, <2>1, BeginLearns DEF Login
<1>5. ASSUME NEW u \in Users, NEW r \in Requests, NEW k \in {"reset", "verify"}, MailLink(r, u, k)
      PROVE  Learns
  <2>1. Knows([op |-> "mailLink", user |-> u, kind |-> k, seen |-> LiveLinks(u, k)])
    BY DEF Knows
  <2>2. QED BY <1>5, <2>1, BeginLearns DEF MailLink
<1>6. ASSUME NEW a \in Tokens, NEW r \in Requests, ChangePassword(r, a) PROVE Learns
  <2>1. Knows([op |-> "changePassword", seen |-> LiveOf(token[a].user)])
    BY DEF Knows
  <2>2. QED BY <1>6, <2>1, BeginLearns DEF ChangePassword
<1>7. ASSUME NEW a \in Tokens, NEW r \in Requests, EnrollTotpConfirm(r, a) PROVE Learns
  <2>1. Knows([op |-> "enroll", user |-> token[a].user])
    BY DEF Knows
  <2>2. QED BY <1>7, <2>1, BeginLearns DEF EnrollTotpConfirm
<1>8. ASSUME NEW a \in Tokens, NEW r \in Requests, NEW c \in {a, None},
             RevokeOtherSessions(r, a, c) \/ \E f \in Tokens : RevokeSession(r, a, c, f)
      PROVE  Learns
  <2>1. \A F, T : Knows([op |-> "revoke", fams |-> F, seen |-> T])
    BY DEF Knows
  <2>2. QED BY <1>8, <2>1, BeginLearns DEF RevokeOtherSessions, RevokeSession
<1>9. ASSUME NEW r \in Requests, NEW c \in Challenges, NEW k, VerifyMfa(r, c, k) PROVE Learns
  <2>1. \A u, C : Knows([op |-> "mfa", user |-> u, chal |-> c, code |-> k, codes |-> C])
    BY DEF Knows
  <2>2. QED BY <1>9, <2>1, BeginLearns DEF VerifyMfa
<1>10. QED BY <1>1, <1>2, <1>3, <1>4, <1>5, <1>6, <1>7, <1>8, <1>9, RefreshLearns, LogoutLearns,
              LogoutAllLearns, FollowLinkLearns DEF UserStep

LEMMA StepLearns ==
  ASSUME FamiliesOK, RequestsOK, LinksOK, [Next]_vars
  PROVE  Learns
<1>1. ASSUME NEW r \in Requests, MfaBurn(r) PROVE Learns
  <2>1. PICK s \in {Idle, [req[r] EXCEPT !.op = "mfaBurnt"]} : req' = [req EXCEPT ![r] = s]
    BY <1>1 DEF MfaBurn, RequestsOK
  <2>2. "op" \in DOMAIN req[r]
    BY <1>1 DEF MfaBurn, RequestsOK, Knows
  <2>3. s.op \in {"idle", "mfaBurnt"}
    BY <2>2 DEF Idle
  <2>4. Knows(s)
    BY <2>3 DEF Knows
  <2>5. QED BY <2>1, <2>4 DEF Learns
<1>2. ASSUME NEW r \in Requests, NEW t \in Tokens,
             \/ LoginCommit(r, t) \/ MfaCommit(r, t) \/ RefreshCommit(r, t)
             \/ \E l \in Links : RegisterCommit(r, t, l)
      PROVE  Learns
  BY <1>2, DoneLearns DEF LoginCommit, MfaCommit, RefreshCommit, RegisterCommit
<1>3. ASSUME NEW r \in Requests,
             \/ \E c \in Challenges : LoginChallenge(r, c)
             \/ \E l \in Links : MailLinkCommit(r, l)
             \/ LogoutCommit(r) \/ LogoutAllCommit(r) \/ RevokeCommit(r)
      PROVE  Learns
  BY <1>3, DoneLearns DEF LoginChallenge, MailLinkCommit, LogoutCommit, LogoutAllCommit, RevokeCommit
<1>4. ASSUME NEW r \in Requests,
             \/ ChangePasswordCommit(r) \/ ResetPasswordCommit(r) \/ VerifyEmailCommit(r)
             \/ EnrollCommit(r) \/ Abort(r)
      PROVE  Learns
  BY <1>4, DoneLearns DEF ChangePasswordCommit, ResetPasswordCommit, VerifyEmailCommit, EnrollCommit, Abort
<1>5. ASSUME \/ \E j \in Jtis : JtiLapses(j)
             \/ \E t \in Tokens : RefreshExpires(t) \/ SessionIdles(t)
             \/ \E l \in Links : LinkExpires(l)
             \/ RedisRestart
      PROVE  Learns
  BY <1>5 DEF JtiLapses, RefreshExpires, SessionIdles, LinkExpires, RedisRestart, Change, Learns
<1>6. CASE JobStep
  BY <1>6 DEF JobStep, PurgeRevokedRefreshTokens, PurgeOldSessions, PurgeExpiredTokenBlacklist,
              ExpirePasswordResetTokens, NoRequest, Learns
<1>7. CASE UNCHANGED vars
  BY <1>7 DEF vars, Learns
<1>8. CASE CommitStep
  BY <1>1, <1>2, <1>3, <1>4, <1>8, RefreshSessionLearns DEF CommitStep
<1>9. CASE FaultStep
  BY <1>4, <1>5, <1>9 DEF FaultStep
<1>10. QED BY <1>6, <1>7, <1>8, <1>9, UserLearns DEF Next

LEMMA RequestsStep ==
  ASSUME RequestsOK, Learns, Forward PROVE RequestsOK'
<1>1. CASE req' = req
  BY <1>1, KnowsForward DEF RequestsOK
<1>2. ASSUME NEW r \in Requests, NEW s, Knows(s) \/ Knows(s)', req' = [req EXCEPT ![r] = s]
      PROVE  RequestsOK'
  <2>1. DOMAIN req' = Requests /\ \A x \in Requests : req'[x] = s \/ Knows(req'[x])
    BY <1>2 DEF RequestsOK
  <2>2. ASSUME NEW x \in Requests PROVE Knows(req[x])'
    <3>1. PICK q : q = req'[x]
      OBVIOUS
    <3>2. Knows(q)'
      BY <1>2, <2>1, <3>1, KnowsForward
    <3>3. QED BY <3>1, <3>2
  <2>3. QED BY <2>1, <2>2 DEF RequestsOK
<1>3. QED BY <1>1, <1>2 DEF Learns

\* Every link is for a reset or a verification.
LEMMA LinksStep ==
  ASSUME RequestsOK, LinksOK, [Next]_vars PROVE LinksOK'
<1> USE DEF rows
<1>1. ASSUME link' = link PROVE LinksOK'
  BY <1>1 DEF LinksOK
<1>2. ASSUME NEW r \in Requests, NEW t \in Tokens, NEW l \in Links, RegisterCommit(r, t, l) PROVE LinksOK'
  BY <1>2 DEF RegisterCommit, LinksOK
<1>3. ASSUME NEW r \in Requests, NEW l \in Links, MailLinkCommit(r, l) PROVE LinksOK'
  <2>1. req[r].kind \in {"reset", "verify"}
    BY <1>3 DEF MailLinkCommit, RequestsOK, Knows
  <2>2. QED BY <1>3, <2>1 DEF MailLinkCommit, LinksOK
<1>4. ASSUME NEW r \in Requests, ResetPasswordCommit(r) \/ VerifyEmailCommit(r) PROVE LinksOK'
  BY <1>4 DEF ResetPasswordCommit, VerifyEmailCommit, LinksOK
<1>5. ASSUME (\E l \in Links : LinkExpires(l)) \/ ExpirePasswordResetTokens PROVE LinksOK'
  BY <1>5 DEF LinkExpires, ExpirePasswordResetTokens, NoLink, LinksOK
<1>6. CASE UserStep
  <2>1. ASSUME NEW u \in Users, NEW r \in Requests,
               Register(r, u) \/ Login(r, u) \/ \E k \in {"reset", "verify"} : MailLink(r, u, k)
        PROVE  link' = link
    BY <2>1 DEF Register, Login, MailLink
  <2>2. ASSUME NEW u \in Users, LoginFails(u) \/ MembershipChanges(u) \/ \E b \in BOOLEAN : PatchPlatformUser(u, b)
        PROVE  link' = link
    BY <2>2 DEF LoginFails, MembershipChanges, PatchPlatformUser
  <2>3. ASSUME NEW a \in Tokens, RefreshReuse(a) \/ EnrollTotpStart(a) \/ DisableTotp(a) PROVE link' = link
    BY <2>3 DEF RefreshReuse, EnrollTotpStart, DisableTotp
  <2>4. ASSUME NEW a \in Tokens, NEW r \in Requests,
               Refresh(r, a) \/ LogoutAll(r, a) \/ ChangePassword(r, a) \/ EnrollTotpConfirm(r, a)
        PROVE  link' = link
    BY <2>4 DEF Refresh, LogoutAll, ChangePassword, EnrollTotpConfirm
  <2>5. ASSUME NEW a \in Tokens, NEW r \in Requests, NEW c \in {a, None},
               \/ Logout(r, a, c) \/ RevokeOtherSessions(r, a, c)
               \/ \E f \in Tokens : RevokeSession(r, a, c, f)
        PROVE  link' = link
    BY <2>5 DEF Logout, RevokeOtherSessions, RevokeSession
  <2>6. ASSUME NEW r \in Requests,
               \/ \E c \in Challenges, k \in Codes \cup {None} : VerifyMfa(r, c, k)
               \/ \E l \in Links : FollowLink(r, l)
        PROVE  link' = link
    BY <2>6 DEF VerifyMfa, FollowLink
  <2>7. QED BY <1>1, <1>6, <2>1, <2>2, <2>3, <2>4, <2>5, <2>6 DEF UserStep
<1>7. CASE CommitStep
  <2>1. ASSUME NEW r \in Requests, NEW t \in Tokens,
               LoginCommit(r, t) \/ MfaCommit(r, t) \/ RefreshCommit(r, t)
        PROVE  link' = link
    BY <2>1 DEF LoginCommit, MfaCommit, RefreshCommit
  <2>2. ASSUME NEW r \in Requests,
               \/ \E c \in Challenges : LoginChallenge(r, c)
               \/ MfaBurn(r) \/ RefreshSession(r)
               \/ LogoutCommit(r) \/ LogoutAllCommit(r) \/ RevokeCommit(r)
               \/ ChangePasswordCommit(r) \/ EnrollCommit(r)
        PROVE  link' = link
    BY <2>2 DEF LoginChallenge, MfaBurn, RefreshSession, LogoutCommit, LogoutAllCommit, RevokeCommit,
                ChangePasswordCommit, EnrollCommit
  <2>3. QED BY <1>1, <1>2, <1>3, <1>4, <1>7, <2>1, <2>2 DEF CommitStep
<1>8. CASE FaultStep
  <2>1. ASSUME \/ \E j \in Jtis : JtiLapses(j)
               \/ \E t \in Tokens : RefreshExpires(t) \/ SessionIdles(t)
               \/ RedisRestart \/ \E r \in Requests : Abort(r)
        PROVE  link' = link
    BY <2>1 DEF JtiLapses, RefreshExpires, SessionIdles, RedisRestart, Abort
  <2>2. QED BY <1>1, <1>5, <1>8, <2>1 DEF FaultStep
<1>9. CASE JobStep
  <2>1. ASSUME PurgeRevokedRefreshTokens \/ PurgeOldSessions \/ PurgeExpiredTokenBlacklist
        PROVE  link' = link
    BY <2>1 DEF PurgeRevokedRefreshTokens, PurgeOldSessions, PurgeExpiredTokenBlacklist
  <2>2. QED BY <1>1, <1>5, <1>9, <2>1 DEF JobStep
<1>10. CASE UNCHANGED vars
  BY <1>1, <1>10 DEF vars
<1>11. QED BY <1>6, <1>7, <1>8, <1>9, <1>10 DEF Next

SessionInv == FamiliesOK /\ Untouched /\ RequestsOK /\ LinksOK

LEMMA SessionInvariant == Spec => []SessionInv
<1>1. Init => SessionInv
  <2>1. SUFFICES ASSUME Init PROVE SessionInv
    OBVIOUS
  <2>2. FamiliesOK
    BY <2>1 DEF Init, FamiliesOK, NoToken, NoSession
  <2>3. Untouched
    BY <2>1 DEF Init, Untouched, OneLive, LiveTokenIsListed, SignOutIsFinal, Live, NoToken
  <2>4. RequestsOK
    BY <2>1 DEF Init, RequestsOK, Knows, Idle
  <2>5. LinksOK
    BY <2>1 DEF Init, LinksOK, NoLink
  <2>6. QED BY <2>2, <2>3, <2>4, <2>5 DEF SessionInv
<1>2. SessionInv /\ [Next]_vars => SessionInv'
  <2>1. SUFFICES ASSUME SessionInv, [Next]_vars PROVE SessionInv'
    OBVIOUS
  <2>2. FamilyGoal
    BY <2>1, FamilyStep DEF SessionInv
  <2>3. Learns /\ LinksOK'
    BY <2>1, StepLearns, LinksStep DEF SessionInv
  <2>4. RequestsOK'
    BY <2>1, <2>2, <2>3, RequestsStep DEF SessionInv, FamilyGoal
  <2>5. QED BY <2>2, <2>3, <2>4 DEF SessionInv, FamilyGoal
<1>3. QED BY <1>1, <1>2, PTL DEF Spec

\* list_sessions: a token that refresh_tokens would accept is the one its session row names,
\* unless a rotation of the family overlapped another one or a revocation, or read its session
\* row when that was gone.
THEOREM LiveTokensAreListed == Spec => []LiveTokenIsListed
<1>1. SessionInv => LiveTokenIsListed
  BY DEF SessionInv, Untouched
<1>2. QED BY <1>1, SessionInvariant, PTL

\* logout_all and reset_password: a family that has been signed out never has a usable token
\* again, a refresh that has read its session row included, unless a refresh had overtaken the
\* request or reads that row only afterwards.
THEOREM SignOutHolds == Spec => []SignOutIsFinal
<1>1. SessionInv => SignOutIsFinal
  BY DEF SessionInv, Untouched
<1>2. QED BY <1>1, SessionInvariant, PTL

=============================================================================
