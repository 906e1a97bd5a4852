------------------------------ MODULE Sessions ------------------------------
(***************************************************************************)
(* Accounts, browser sessions, API tokens and the first-run setup code     *)
(* (auth/service.py), as the routes (api/auth_routes.py), the gate of the  *)
(* protected routers (auth/dependencies.py), start-up                      *)
(* (api/dependencies.py) and cvedeck-admin (auth/cli.py) use them.         *)
(*                                                                         *)
(* A request reads, works on a password for a while, and writes in one     *)
(* transaction: between the two others read and write.  The gate looks a   *)
(* session up and commits before the handler starts, so the handler acts   *)
(* for a session that may have ended since.  A password is checked by      *)
(* being equal, login is required, and what an attempt that is refused     *)
(* costs is in LoginThrottle.                                              *)
(***************************************************************************)
EXTENDS Naturals, FiniteSets

CONSTANTS
  Usernames, Passwords, None,
  Admin,            \* the account of the configuration, or None
  Requests,         \* the requests served at once, and
  Shell,            \* a command run beside the server
  SessionAbsolute, SessionIdle, TouchInterval, SetupCodeTTL,
  MaxSessions, MaxTokens, MaxTime   \* bounds

ASSUME LifetimeAssumption ==
  /\ {SessionAbsolute, SessionIdle, TouchInterval, SetupCodeTTL} \subseteq Nat \ {0}
  /\ TouchInterval < SessionIdle /\ SessionIdle < SessionAbsolute
  /\ None \notin Usernames \cup Passwords /\ Admin \in Usernames \cup {None}
  /\ Shell \notin Requests /\ {MaxSessions, MaxTokens, MaxTime} \subseteq Nat

VARIABLES
  now,
  users,      \* users[u]: the password of u, or None without an account
  sessions,   \* auth_sessions: its user (None without a row), expires_at, last_seen_at
  issued,     \* how many session cookies have been handed out
  tokens,     \* api_tokens: "none", "live" or "revoked"
  setup,      \* when the code in auth_setup expires, 0 without a code
  server,     \* down, bootstrapping, starting or up
  work,       \* work[r]: where a request, or the command, is
  signedIn, lastRequest,   \* history: of each session
  ended,                   \* history: the sessions that were to end
  revoked                  \* history: the tokens that were to stop working

vars == <<now, users, sessions, issued, tokens, setup, server, work, signedIn, lastRequest, ended, revoked>>
stored == <<users, sessions, issued, tokens, setup>>
history == <<signedIn, lastRequest, ended, revoked>>

Sessions == 1..MaxSessions
Tokens == 1..MaxTokens
NoSession == [user |-> None, expires |-> 0, seen |-> 0]

\* Where a request is, and what it has read or was given.
Idle == [at |-> "idle"]
Works ==
  {Idle}
  \cup [at : {"setup", "creating"}, user : Usernames, password : Passwords]
  \cup [at : {"login"}, user : Usernames]
  \cup [at : {"judged"}, op : {"read", "password", "tokens"}, session : Sessions, user : Usernames \cup {None},
        verdict : {"unknown", "expired", "accepted"}, touch : BOOLEAN]
  \cup [at : {"handling"}, op : {"read", "password", "tokens"}, session : Sessions, user : Usernames \cup {None}]
  \cup [at : {"changing"}, session : Sessions, user : Usernames \cup {None}, password : Passwords]
  \cup [at : {"bearer", "revoking"}, tokens : SUBSET Tokens]

TypeOK ==
  /\ now \in 0..MaxTime
  /\ users \in [Usernames -> Passwords \cup {None}]
  /\ sessions \in [Sessions -> [user : Usernames \cup {None}, expires : Nat, seen : Nat]]
  /\ issued \in 0..MaxSessions
  /\ tokens \in [Tokens -> {"none", "live", "revoked"}]
  /\ setup \in Nat
  /\ server \in {"down", "bootstrapping", "starting", "up"}
  /\ work \in [Requests \cup {Shell} -> Works]

Init ==
  /\ now = 0
  /\ users = [u \in Usernames |-> None]
  /\ sessions = [s \in Sessions |-> NoSession] /\ issued = 0
  /\ tokens = [t \in Tokens |-> "none"]
  /\ setup = 0 /\ server = "down"
  /\ work = [r \in Requests \cup {Shell} |-> Idle]
  /\ signedIn = [s \in Sessions |-> 0] /\ lastRequest = [s \in Sessions |-> 0]
  /\ ended = {} /\ revoked = {}

-----------------------------------------------------------------------------
(* What the service does to the tables.                                    *)

HasUsers == \E u \in DOMAIN users : users[u] # None

\* UNIQUE(username): an account is written once.
CreateUser(u, p) ==
  /\ users[u] = None
  /\ users' = [users EXCEPT ![u] = p]
  /\ setup' = 0

\* As a mutant: every start issues a code.
IssueAlways == setup' = now + SetupCodeTTL
IssueSetupCode == setup' = IF HasUsers THEN 0 ELSE now + SetupCodeTTL

StartSession(u) ==
  /\ issued < MaxSessions
  /\ issued' = issued + 1
  /\ sessions' = [sessions EXCEPT ![issued + 1] =
       [user |-> u, expires |-> now + SessionAbsolute, seen |-> now]]
  /\ signedIn' = [signedIn EXCEPT ![issued + 1] = now]
  /\ lastRequest' = [lastRequest EXCEPT ![issued + 1] = now]

Of(u) == {s \in Sessions : sessions[s].user = u}
\* As a mutant: a new password ends no session.
KeptAll(s) == Sessions
Kept(s) == {s}
Delete(ss) == sessions' = [s \in Sessions |-> IF s \in ss THEN NoSession ELSE sessions[s]]
SetPassword(u, p, keep) ==
  /\ users' = [users EXCEPT ![u] = p]
  /\ Delete(Of(u) \ Kept(keep))
  /\ ended' = ended \cup (Of(u) \ {keep})

Live == {t \in Tokens : tokens[t] = "live"}
Revoke(ts) ==
  /\ tokens' = [t \in Tokens |-> IF t \in ts THEN "revoked" ELSE tokens[t]]
  /\ revoked' = revoked \cup ts

Expired(row) == row.expires <= now \/ row.seen + SessionIdle <= now
\* As a mutant: what was seen is never written.
TouchNever(row) == FALSE
TouchDue(row) == now - row.seen >= TouchInterval

\* UPDATE ... SET last_seen_at, which finds the row or fails.
Touch(s) ==
  sessions' = IF sessions[s].user = None THEN sessions ELSE [sessions EXCEPT ![s].seen = now]

\* UPDATE ... SET last_used_at: no other column is written.
TouchToken(t) == UNCHANGED tokens

-----------------------------------------------------------------------------
(* The server's start.                                                     *)

\* What requests were at is lost with the process.
Restart ==
  /\ server' = IF Admin # None /\ ~HasUsers THEN "bootstrapping" ELSE "starting"
  /\ work' = [r \in DOMAIN work |-> IF r = Shell THEN work[r] ELSE Idle]
  /\ UNCHANGED <<now, stored, history>>

\* The account of the configuration, unless its name was taken meanwhile.
Bootstrap ==
  /\ server = "bootstrapping"
  /\ \/ /\ \E p \in Passwords : CreateUser(Admin, p)
        /\ server' = "up"
     \/ /\ users[Admin] # None
        /\ server' = "down"
        /\ UNCHANGED <<users, setup>>
  /\ UNCHANGED <<now, sessions, issued, tokens, work, history>>

PrepareAccess ==
  /\ server = "starting"
  /\ IssueSetupCode
  /\ server' = "up"
  /\ UNCHANGED <<now, users, sessions, issued, tokens, work, history>>

-----------------------------------------------------------------------------
(* First run and sign-in: an account is looked up, its password worked on, *)
(* and the account or the session written afterwards.                      *)

Idles(r) == server = "up" /\ work[r] = Idle
At(r, at) == work[r].at = at
Rest(r) == work' = [work EXCEPT ![r] = Idle]

Setup(r, u, p) ==
  /\ Idles(r) /\ ~HasUsers /\ setup > now
  /\ work' = [work EXCEPT ![r] = [at |-> "setup", user |-> u, password |-> p]]
  /\ UNCHANGED <<now, stored, server, history>>

CompleteSetup(r) ==
  /\ At(r, "setup")
  /\ CreateUser(work[r].user, work[r].password)
  /\ StartSession(work[r].user)
  /\ Rest(r)
  /\ UNCHANGED <<now, tokens, server, ended, revoked>>

Authenticate(r, u) ==
  /\ Idles(r) /\ users[u] # None
  /\ work' = [work EXCEPT ![r] = [at |-> "login", user |-> u]]
  /\ UNCHANGED <<now, stored, server, history>>

Login(r) ==
  /\ At(r, "login")
  /\ StartSession(work[r].user)
  /\ Rest(r)
  /\ UNCHANGED <<now, users, tokens, setup, server, ended, revoked>>

\* The name was taken while the password was worked on.
Refused(r) ==
  /\ work[r].at \in {"setup", "creating"} /\ users[work[r].user] # None
  /\ Rest(r)
  /\ UNCHANGED <<now, stored, server, history>>

Logout(s) ==
  /\ server = "up" /\ s <= issued
  /\ Delete({s})
  /\ ended' = ended \cup {s}
  /\ UNCHANGED <<now, users, issued, tokens, setup, server, work, signedIn, lastRequest, revoked>>

-----------------------------------------------------------------------------
(* The gate: a session is looked up, then the look-up is committed.        *)

Judge(row) == IF row.user = None THEN "unknown" ELSE IF Expired(row) THEN "expired" ELSE "accepted"

ResolveSession(r, s, op) ==
  /\ Idles(r) /\ s <= issued
  /\ LET row == sessions[s] IN
       work' = [work EXCEPT ![r] =
         [at |-> "judged", op |-> op, session |-> s, user |-> row.user, verdict |-> Judge(row), touch |-> TouchDue(row)]]
  /\ UNCHANGED <<now, stored, server, history>>

\* A row that is gone cannot be touched, and the request fails.
CommitLookup(r) ==
  LET w == work[r]
      lost == w.touch /\ sessions[w.session].user = None
      served == w.verdict = "accepted" /\ ~lost
  IN /\ At(r, "judged")
     /\ CASE w.verdict = "expired" -> Delete({w.session})
          [] w.verdict = "accepted" /\ w.touch -> Touch(w.session)
          [] OTHER -> UNCHANGED sessions
     /\ work' = [work EXCEPT ![r] =
          IF served /\ w.op # "read" THEN [at |-> "handling", op |-> w.op, session |-> w.session, user |-> w.user] ELSE Idle]
     /\ lastRequest' = IF served THEN [lastRequest EXCEPT ![w.session] = now] ELSE lastRequest
     /\ UNCHANGED <<now, users, issued, tokens, setup, server, signedIn, ended, revoked>>

ResolveToken(r, t) ==
  /\ Idles(r) /\ tokens[t] = "live"
  /\ work' = [work EXCEPT ![r] = [at |-> "bearer", tokens |-> {t}]]
  /\ UNCHANGED <<now, stored, server, history>>

CommitToken(r) ==
  /\ At(r, "bearer")
  /\ \E t \in work[r].tokens : TouchToken(t)
  /\ Rest(r)
  /\ UNCHANGED <<now, users, sessions, issued, setup, server, history>>

-----------------------------------------------------------------------------
(* What a signed-in request does.                                          *)

\* The current password is checked; a wrong one ends the request.
VerifyCurrent(r, current, new) ==
  /\ At(r, "handling") /\ work[r].op = "password"
  /\ work' = [work EXCEPT ![r] =
       IF users[work[r].user] = current
       THEN [at |-> "changing", session |-> work[r].session, user |-> work[r].user, password |-> new] ELSE Idle]
  /\ UNCHANGED <<now, stored, server, history>>

ChangePassword(r) ==
  /\ At(r, "changing")
  /\ SetPassword(work[r].user, work[r].password, work[r].session)
  /\ Rest(r)
  /\ UNCHANGED <<now, issued, tokens, setup, server, signedIn, lastRequest, revoked>>

CreateToken(r, t) ==
  /\ At(r, "handling") /\ work[r].op = "tokens"
  /\ tokens[t] = "none"
  /\ tokens' = [tokens EXCEPT ![t] = "live"]
  /\ Rest(r)
  /\ UNCHANGED <<now, users, sessions, issued, setup, server, history>>

\* The tokens to revoke are read - one of them, or all there are - and written.
ReadTokens(r, ts) ==
  /\ At(r, "handling") /\ work[r].op = "tokens"
  /\ ts = Live \/ ts \in {{t} : t \in Live}
  /\ work' = [work EXCEPT ![r] = [at |-> "revoking", tokens |-> ts]]
  /\ UNCHANGED <<now, stored, server, history>>

RevokeTokens(r) ==
  /\ At(r, "revoking")
  /\ Revoke(work[r].tokens)
  /\ Rest(r)
  /\ UNCHANGED <<now, users, sessions, issued, setup, server, signedIn, lastRequest, ended>>

-----------------------------------------------------------------------------
(* cvedeck-admin, beside the server or without it.                         *)

ShellCreate(u, p) ==
  /\ work[Shell] = Idle /\ ~HasUsers
  /\ work' = [work EXCEPT ![Shell] = [at |-> "creating", user |-> u, password |-> p]]
  /\ UNCHANGED <<now, stored, server, history>>

ShellWrites ==
  /\ At(Shell, "creating")
  /\ CreateUser(work[Shell].user, work[Shell].password)
  /\ Rest(Shell)
  /\ UNCHANGED <<now, sessions, issued, tokens, server, history>>

ResetPassword(u, p) ==
  /\ work[Shell] = Idle /\ users[u] # None
  /\ SetPassword(u, p, 0)
  /\ Revoke(Live)
  /\ UNCHANGED <<now, issued, setup, server, work, signedIn, lastRequest>>

\* A look-up takes no time that counts in hours.
Tick ==
  /\ now < MaxTime /\ \A r \in Requests : ~At(r, "judged")
  /\ now' = now + 1
  /\ UNCHANGED <<stored, server, work, history>>

Next ==
  \/ Restart \/ Bootstrap \/ PrepareAccess
  \/ \E r \in Requests :
       \/ \E u \in Usernames, p \in Passwords : Setup(r, u, p)
       \/ \E u \in Usernames : Authenticate(r, u)
       \/ CompleteSetup(r) \/ Login(r)
       \/ \E s \in Sessions, op \in {"read", "password", "tokens"} : ResolveSession(r, s, op)
       \/ CommitLookup(r)
       \/ \E t \in Tokens : ResolveToken(r, t) \/ CreateToken(r, t)
       \/ CommitToken(r)
       \/ \E current \in Passwords \cup {None}, new \in Passwords : VerifyCurrent(r, current, new)
       \/ ChangePassword(r)
       \/ \E ts \in SUBSET Tokens : ReadTokens(r, ts)
       \/ RevokeTokens(r)
  \/ \E r \in Requests \cup {Shell} : Refused(r)
  \/ \E s \in Sessions : Logout(s)
  \/ \E u \in Usernames, p \in Passwords : ShellCreate(u, p) \/ ResetPassword(u, p)
  \/ ShellWrites
  \/ Tick

Spec == Init /\ [][Next]_vars

-----------------------------------------------------------------------------
(* What a step finds of a session, when it looks one up.                   *)
Finds(verdict) ==
  {work'[r].session : r \in {q \in Requests : work[q].at = "idle" /\ work'[q].at = "judged" /\ work'[q].verdict = verdict}}

\* A session is accepted for thirty days, as long as a request comes within
\* every seven, and refused as too old only after those days, or when no
\* request came for seven less what a touch may lag behind
\* (AuthService.resolve_session, TOUCH_INTERVAL).
SessionLifetime ==
  [][ /\ \A s \in Finds("accepted") :
           now < signedIn[s] + SessionAbsolute /\ now < lastRequest[s] + SessionIdle
      /\ \A s \in Finds("expired") :
           now >= signedIn[s] + SessionAbsolute \/ now - lastRequest[s] > SessionIdle - TouchInterval ]_vars

\* A session that was signed out, by itself or with a password, is not
\* accepted again, nor is a token that was revoked, whatever was looked up or
\* being written meanwhile (AuthService._set_password, revoke_all_api_tokens).
EndedStaysEnded ==
  [][ /\ Finds("accepted") \cap ended = {}
      /\ \A r \in Requests : work'[r].at = "bearer" /\ work[r].at = "idle" => work'[r].tokens \cap revoked = {} ]_vars

\* While the server runs there is a setup code exactly until there is an
\* account, whoever made it: start-up, the dashboard or the command
\* (_prepare_access_control, complete_setup, cvedeck-admin create-user).
CodeUntilAccount == /\ HasUsers => setup = 0
                    /\ server = "up" /\ ~HasUsers => setup # 0
=============================================================================
