--------------------------- MODULE Server_proofs ---------------------------
(***************************************************************************)
(* What is proved of the server's parts that share no state with a scan.   *)
(*                                                                         *)
(* Accounts and sessions: there is a setup code exactly until there is an  *)
(* account, what was signed out or revoked is not accepted again, and a    *)
(* session is accepted for as long as it should be, for any number of      *)
(* names, requests, sessions and tokens and any lifetimes.                 *)
(*                                                                         *)
(* The dashboard: the end of a job is told once, for any number of jobs    *)
(* and of requests under way.                                              *)
(*                                                                         *)
(* Sign-ins: what an address has worked on is bounded, for any number of   *)
(* attempts that may fail freely, any delays that grow and any threads.    *)
(*                                                                         *)
(* The schema: whoever has opened an existing database finds the schema    *)
(* its classes declare, for any number of processes that may stop          *)
(* anywhere, and any revisions of which SchemaAssumption holds.            *)
(***************************************************************************)
EXTENDS Sessions, LoginThrottle, FollowJob, Migrations, TLAPS, FiniteSetTheorems, WellFoundedInduction,
  NaturalsInduction

-----------------------------------------------------------------------------
(* Accounts and sessions.  Accounts are never removed, and whoever acts    *)
(* for a session or an account had one when it was looked up: that is what *)
(* makes the invariant inductive.                                          *)

Workers == Requests \cup {Shell}
Rows == [user : Usernames \cup {None}, expires : Nat, seen : Nat]

Types ==
  /\ now \in Nat /\ setup \in Nat /\ issued \in Nat
  /\ users \in [Usernames -> Passwords \cup {None}]
  /\ sessions \in [Sessions -> Rows]
  /\ tokens \in [Tokens -> {"none", "live", "revoked"}]
  /\ work \in [Workers -> Works]

Exists(u) == u \in Usernames /\ users[u] # None

\* Who acts for an account has one.
Warranted(w) ==
  /\ w.at \in {"login", "handling", "changing"} => Exists(w.user)
  /\ w.at = "judged" => (w.verdict = "accepted" => Exists(w.user))

Accounts ==
  /\ CodeUntilAccount
  /\ server = "bootstrapping" => Admin \in Usernames
  /\ \A s \in Sessions : sessions[s].user # None => Exists(sessions[s].user)
  /\ \A r \in Workers : Warranted(work[r])

\* What has ended has no row, and is not handed out again.
Gone ==
  /\ ended \subseteq 1..issued
  /\ \A s \in Sessions : s \in ended \/ s > issued => sessions[s].user = None
  /\ \A t \in Tokens : t \in revoked => tokens[t] = "revoked"

IInv == Types /\ Accounts /\ Gone

-----------------------------------------------------------------------------
(* Records.                                                                *)

LEMMA MakeWork ==
  /\ Idle \in Works
  /\ \A u \in Usernames, p \in Passwords :
       /\ [at |-> "setup", user |-> u, password |-> p] \in Works
       /\ [at |-> "creating", user |-> u, password |-> p] \in Works
  /\ \A u \in Usernames : [at |-> "login", user |-> u] \in Works
  /\ \A op \in {"read", "password", "tokens"}, s \in Sessions, u \in Usernames \cup {None} :
       /\ [at |-> "handling", op |-> op, session |-> s, user |-> u] \in Works
       /\ \A v \in {"unknown", "expired", "accepted"}, b \in BOOLEAN :
            [at |-> "judged", op |-> op, session |-> s, user |-> u, verdict |-> v, touch |-> b] \in Works
  /\ \A s \in Sessions, u \in Usernames \cup {None}, p \in Passwords :
       [at |-> "changing", session |-> s, user |-> u, password |-> p] \in Works
  /\ \A ts \in SUBSET Tokens :
       [at |-> "bearer", tokens |-> ts] \in Works /\ [at |-> "revoking", tokens |-> ts] \in Works
BY DEF Works

LEMMA ReadWork ==
  ASSUME NEW w \in Works
  PROVE  /\ w.at \in {"setup", "creating"} => w.user \in Usernames /\ w.password \in Passwords
         /\ w.at = "login" => w.user \in Usernames
         /\ w.at = "judged" =>
              /\ w.op \in {"read", "password", "tokens"} /\ w.session \in Sessions /\ w.user \in Usernames \cup {None}
              /\ w.verdict \in {"unknown", "expired", "accepted"} /\ w.touch \in BOOLEAN
         /\ w.at = "handling" =>
              w.op \in {"read", "password", "tokens"} /\ w.session \in Sessions /\ w.user \in Usernames \cup {None}
         /\ w.at = "changing" => w.session \in Sessions /\ w.user \in Usernames \cup {None} /\ w.password \in Passwords
         /\ w.at \in {"bearer", "revoking"} => w.tokens \subseteq Tokens
BY DEF Works, Idle

LEMMA RowFields ==
  /\ NoSession \in Rows /\ NoSession.user = None
  /\ \A row \in Rows : row.user \in Usernames \cup {None} /\ row.expires \in Nat /\ row.seen \in Nat
  /\ \A row \in Rows, n \in Nat : [row EXCEPT !.seen = n] \in Rows /\ [row EXCEPT !.seen = n].user = row.user
  /\ \A u \in Usernames, e, n \in Nat : [user |-> u, expires |-> e, seen |-> n] \in Rows
BY DEF Rows, NoSession

-----------------------------------------------------------------------------
(* One lemma per action.                                                   *)

LEMMA RestartKeeps ==
  ASSUME IInv, Restart
  PROVE  IInv'
<1> USE LifetimeAssumption DEF IInv, Workers
<1>1. Types'
  BY MakeWork, ReadWork, RowFields DEF Types, Restart, stored, history
<1>2. Accounts'
  BY MakeWork, ReadWork, RowFields, <1>1
    DEF Types, Accounts, CodeUntilAccount, HasUsers, Warranted, Exists, Idle, Restart, stored, history
<1>3. Gone'
  BY RowFields, ReadWork, <1>1 DEF Types, Gone, Restart, stored, history
<1>4. QED BY <1>1, <1>2, <1>3

LEMMA BootstrapKeeps ==
  ASSUME IInv, Bootstrap
  PROVE  IInv'
<1> USE LifetimeAssumption DEF IInv, Workers
<1>1. Types'
  BY MakeWork, ReadWork, RowFields DEF Types, Bootstrap, CreateUser, history
<1>2. Accounts'
  BY MakeWork, ReadWork, RowFields, <1>1
    DEF Types, Accounts, CodeUntilAccount, HasUsers, Warranted, Exists, Idle, Bootstrap, CreateUser,
      history
<1>3. Gone'
  BY RowFields, ReadWork, <1>1 DEF Types, Gone, Bootstrap, CreateUser, history
<1>4. QED BY <1>1, <1>2, <1>3

LEMMA PrepareAccessKeeps ==
  ASSUME IInv, PrepareAccess
  PROVE  IInv'
<1> USE LifetimeAssumption DEF IInv, Workers
<1>1. Types'
  BY MakeWork, ReadWork, RowFields DEF Types, PrepareAccess, IssueSetupCode, history
<1>2. Accounts'
  BY MakeWork, ReadWork, RowFields, <1>1
    DEF Types, Accounts, CodeUntilAccount, HasUsers, Warranted, Exists, Idle, PrepareAccess,
      IssueSetupCode, history
<1>3. Gone'
  BY RowFields, ReadWork, <1>1 DEF Types, Gone, PrepareAccess, IssueSetupCode, history
<1>4. QED BY <1>1, <1>2, <1>3

LEMMA SetupKeeps ==
  ASSUME IInv, NEW r \in Requests, NEW u \in Usernames, NEW p \in Passwords, Setup(r, u, p)
  PROVE  IInv'
<1> USE LifetimeAssumption DEF IInv, Workers
<1>1. Types'
  BY MakeWork, ReadWork, RowFields DEF Types, Setup, Idles, stored, history
<1>2. Accounts'
  BY MakeWork, ReadWork, RowFields, <1>1
    DEF Types, Accounts, CodeUntilAccount, HasUsers, Warranted, Exists, Idle, Setup, Idles, stored,
      history
<1>3. Gone'
  BY RowFields, ReadWork, <1>1 DEF Types, Gone, Setup, Idles, stored, history
<1>4. QED BY <1>1, <1>2, <1>3

LEMMA AuthenticateKeeps ==
  ASSUME IInv, NEW r \in Requests, NEW u \in Usernames, Authenticate(r, u)
  PROVE  IInv'
<1> USE LifetimeAssumption DEF IInv, Workers
<1>1. Types'
  BY MakeWork, ReadWork, RowFields DEF Types, Authenticate, Idles, stored, history
<1>2. Accounts'
  BY MakeWork, ReadWork, RowFields, <1>1
    DEF Types, Accounts, CodeUntilAccount, HasUsers, Warranted, Exists, Idle, Authenticate, Idles,
      stored, history
<1>3. Gone'
  BY RowFields, ReadWork, <1>1 DEF Types, Gone, Authenticate, Idles, stored, history
<1>4. QED BY <1>1, <1>2, <1>3

LEMMA CompleteSetupKeeps ==
  ASSUME IInv, NEW r \in Requests, CompleteSetup(r)
  PROVE  IInv'
<1> USE LifetimeAssumption DEF IInv, Workers
<1>1. Types'
  <2>1. work[r] \in Works /\ work[r].user \in Usernames
    BY ReadWork DEF Types, CompleteSetup, At
  <2>2. issued + 1 \in Sessions /\ issued' = issued + 1
    BY DEF Types, Sessions, CompleteSetup, StartSession
  <2>3. sessions' \in [Sessions -> Rows]
    <3>1. now \in Nat /\ now + SessionAbsolute \in Nat
      BY DEF Types
    <3>2. [user |-> work[r].user, expires |-> now + SessionAbsolute, seen |-> now] \in Rows
      BY <2>1, <3>1 DEF Rows
    <3>3. QED BY <2>2, <3>2 DEF Types, CompleteSetup, StartSession
  <2>4. work' \in [Workers -> Works] /\ users' \in [Usernames -> Passwords \cup {None}]
    BY <2>1, MakeWork, ReadWork DEF Types, CompleteSetup, CreateUser, At, Rest
  <2>5. QED BY <2>2, <2>3, <2>4 DEF Types, CompleteSetup, CreateUser
<1>2. Accounts'
  BY MakeWork, ReadWork, RowFields, <1>1
    DEF Types, Accounts, CodeUntilAccount, HasUsers, Warranted, Exists, Idle, CompleteSetup,
      CreateUser, StartSession, At, Rest
<1>3. Gone'
  <2>1. /\ issued + 1 \in Sessions /\ issued' = issued + 1
        /\ ended' = ended /\ UNCHANGED <<tokens, revoked>>
    BY DEF Types, Sessions, CompleteSetup, StartSession
  <2>2. \A s \in Sessions : s # issued + 1 => sessions'[s] = sessions[s]
    BY DEF Types, CompleteSetup, StartSession
  <2>3. ended \subseteq 1..(issued + 1)
    BY DEF Types, Gone
  <2>4. ASSUME NEW s \in Sessions, s \in ended \/ s > issued + 1
        PROVE  sessions'[s].user = None
    <3>1. s # issued + 1 /\ (s \in ended \/ s > issued)
      BY <2>4 DEF Types, Gone, Sessions
    <3>2. QED BY <2>2, <3>1 DEF Gone
  <2>5. QED BY <2>1, <2>3, <2>4 DEF Gone
<1>4. QED BY <1>1, <1>2, <1>3

LEMMA LoginKeeps ==
  ASSUME IInv, NEW r \in Requests, Login(r)
  PROVE  IInv'
<1> USE LifetimeAssumption DEF IInv, Workers
<1>1. Types'
  <2>1. work[r] \in Works /\ work[r].user \in Usernames
    BY ReadWork DEF Types, Login, At
  <2>2. issued + 1 \in Sessions /\ issued' = issued + 1
    BY DEF Types, Sessions, Login, StartSession
  <2>3. sessions' \in [Sessions -> Rows]
    <3>1. now \in Nat /\ now + SessionAbsolute \in Nat
      BY DEF Types
    <3>2. [user |-> work[r].user, expires |-> now + SessionAbsolute, seen |-> now] \in Rows
      BY <2>1, <3>1 DEF Rows
    <3>3. QED BY <2>2, <3>2 DEF Types, Login, StartSession
  <2>4. work' \in [Workers -> Works] /\ users' \in [Usernames -> Passwords \cup {None}]
    BY <2>1, MakeWork, ReadWork DEF Types, Login, CreateUser, At, Rest
  <2>5. QED BY <2>2, <2>3, <2>4 DEF Types, Login, CreateUser
<1>2. Accounts'
  BY MakeWork, ReadWork, RowFields, <1>1
    DEF Types, Accounts, CodeUntilAccount, HasUsers, Warranted, Exists, Idle, Login, StartSession, At,
      Rest
<1>3. Gone'
  <2>1. /\ issued + 1 \in Sessions /\ issued' = issued + 1
        /\ ended' = ended /\ UNCHANGED <<tokens, revoked>>
    BY DEF Types, Sessions, Login, StartSession
  <2>2. \A s \in Sessions : s # issued + 1 => sessions'[s] = sessions[s]
    BY DEF Types, Login, StartSession
  <2>3. ended \subseteq 1..(issued + 1)
    BY DEF Types, Gone
  <2>4. ASSUME NEW s \in Sessions, s \in ended \/ s > issued + 1
        PROVE  sessions'[s].user = None
    <3>1. s # issued + 1 /\ (s \in ended \/ s > issued)
      BY <2>4 DEF Types, Gone, Sessions
    <3>2. QED BY <2>2, <3>1 DEF Gone
  <2>5. QED BY <2>1, <2>3, <2>4 DEF Gone
<1>4. QED BY <1>1, <1>2, <1>3

LEMMA ResolveSessionKeeps ==
  ASSUME IInv, NEW r \in Requests, NEW s \in Sessions, NEW op \in {"read", "password", "tokens"},
    ResolveSession(r, s, op)
  PROVE  IInv'
<1> USE LifetimeAssumption DEF IInv, Workers
<1>1. Types'
  <2>1. sessions[s] \in Rows /\ sessions[s].user \in Usernames \cup {None}
    BY RowFields DEF Types
  <2>2. Judge(sessions[s]) \in {"unknown", "expired", "accepted"} /\ TouchDue(sessions[s]) \in BOOLEAN
    BY DEF Judge, TouchDue
  <2>3. work' \in [Workers -> Works]
    BY <2>1, <2>2, MakeWork DEF Types, ResolveSession
  <2>4. QED BY <2>3 DEF Types, ResolveSession, stored, history
<1>2. Accounts'
  BY MakeWork, ReadWork, RowFields, <1>1
    DEF Types, Accounts, CodeUntilAccount, HasUsers, Warranted, Exists, Idle, ResolveSession, Idles,
      stored, history, Judge
<1>3. Gone'
  BY RowFields, ReadWork, <1>1 DEF Types, Gone, ResolveSession, Idles, stored, history, Judge
<1>4. QED BY <1>1, <1>2, <1>3

LEMMA CommitLookupKeeps ==
  ASSUME IInv, NEW r \in Requests, CommitLookup(r)
  PROVE  IInv'
<1> USE LifetimeAssumption DEF IInv, Workers
<1>1. Types'
  BY MakeWork, ReadWork, RowFields DEF Types, CommitLookup, At, Delete, Touch
<1>2. Accounts'
  <2>1. users' = users /\ setup' = setup /\ server' = server
    BY DEF CommitLookup
  <2>2. \A s \in Sessions : sessions'[s].user \in {None, sessions[s].user}
    <3>1. CASE UNCHANGED sessions
      BY <3>1
    <3>2. CASE Delete({work[r].session})
      BY <3>2, RowFields DEF Delete
    <3>3. CASE Touch(work[r].session)
      BY <3>3, RowFields DEF Touch, Types
    <3>4. QED BY <3>1, <3>2, <3>3 DEF CommitLookup
  <2>3. \A q \in Workers : Warranted(work[q])'
    BY <2>1, ReadWork, <1>1 DEF Types, Accounts, Warranted, Exists, Idle, CommitLookup, At
  <2>4. QED BY <2>1, <2>2, <2>3 DEF Accounts, CodeUntilAccount, HasUsers, Exists
<1>3. Gone'
  BY RowFields, ReadWork, <1>1 DEF Types, Gone, CommitLookup, At, Delete, Touch
<1>4. QED BY <1>1, <1>2, <1>3

LEMMA ResolveTokenKeeps ==
  ASSUME IInv, NEW r \in Requests, NEW t \in Tokens, ResolveToken(r, t)
  PROVE  IInv'
<1> USE LifetimeAssumption DEF IInv, Workers
<1>1. Types'
  BY MakeWork, ReadWork, RowFields DEF Types, ResolveToken, Idles, stored, history
<1>2. Accounts'
  BY MakeWork, ReadWork, RowFields, <1>1
    DEF Types, Accounts, CodeUntilAccount, HasUsers, Warranted, Exists, Idle, ResolveToken, Idles,
      stored, history
<1>3. Gone'
  BY RowFields, ReadWork, <1>1 DEF Types, Gone, ResolveToken, Idles, stored, history
<1>4. QED BY <1>1, <1>2, <1>3

LEMMA CommitTokenKeeps ==
  ASSUME IInv, NEW r \in Requests, CommitToken(r)
  PROVE  IInv'
<1> USE LifetimeAssumption DEF IInv, Workers
<1>1. Types'
  BY MakeWork, ReadWork, RowFields DEF Types, CommitToken, At, TouchToken, Rest, history
<1>2. Accounts'
  BY MakeWork, ReadWork, RowFields, <1>1
    DEF Types, Accounts, CodeUntilAccount, HasUsers, Warranted, Exists, Idle, CommitToken, At,
      TouchToken, Rest, history
<1>3. Gone'
  BY RowFields, ReadWork, <1>1 DEF Types, Gone, CommitToken, At, TouchToken, Rest, history
<1>4. QED BY <1>1, <1>2, <1>3

LEMMA VerifyCurrentKeeps ==
  ASSUME IInv, NEW r \in Requests, NEW current \in Passwords \cup {None}, NEW new \in Passwords,
    VerifyCurrent(r, current, new)
  PROVE  IInv'
<1> USE LifetimeAssumption DEF IInv, Workers
<1>1. Types'
  BY MakeWork, ReadWork, RowFields DEF Types, VerifyCurrent, At, stored, history
<1>2. Accounts'
  BY MakeWork, ReadWork, RowFields, <1>1
    DEF Types, Accounts, CodeUntilAccount, HasUsers, Warranted, Exists, Idle, VerifyCurrent, At,
      stored, history
<1>3. Gone'
  BY RowFields, ReadWork, <1>1 DEF Types, Gone, VerifyCurrent, At, stored, history
<1>4. QED BY <1>1, <1>2, <1>3

LEMMA ChangePasswordKeeps ==
  ASSUME IInv, NEW r \in Requests, ChangePassword(r)
  PROVE  IInv'
<1> USE LifetimeAssumption DEF IInv, Workers
<1>1. Types'
  BY MakeWork, ReadWork, RowFields DEF Types, ChangePassword, At, SetPassword, Of, Kept, Delete, Rest
<1>2. Accounts'
  BY MakeWork, ReadWork, RowFields, <1>1
    DEF Types, Accounts, CodeUntilAccount, HasUsers, Warranted, Exists, Idle, ChangePassword, At,
      SetPassword, Of, Kept, Delete, Rest
<1>3. Gone'
  BY RowFields, ReadWork, <1>1
    DEF Types, Gone, ChangePassword, At, SetPassword, Of, Kept, Delete, Rest, Sessions, Accounts,
      Warranted, Exists
<1>4. QED BY <1>1, <1>2, <1>3

LEMMA CreateTokenKeeps ==
  ASSUME IInv, NEW r \in Requests, NEW t \in Tokens, CreateToken(r, t)
  PROVE  IInv'
<1> USE LifetimeAssumption DEF IInv, Workers
<1>1. Types'
  BY MakeWork, ReadWork, RowFields DEF Types, CreateToken, At, Rest, history
<1>2. Accounts'
  BY MakeWork, ReadWork, RowFields, <1>1
    DEF Types, Accounts, CodeUntilAccount, HasUsers, Warranted, Exists, Idle, CreateToken, At, Rest,
      history
<1>3. Gone'
  BY RowFields, ReadWork, <1>1 DEF Types, Gone, CreateToken, At, Rest, history
<1>4. QED BY <1>1, <1>2, <1>3

LEMMA ReadTokensKeeps ==
  ASSUME IInv, NEW r \in Requests, NEW ts \in SUBSET Tokens, ReadTokens(r, ts)
  PROVE  IInv'
<1> USE LifetimeAssumption DEF IInv, Workers
<1>1. Types'
  BY MakeWork, ReadWork, RowFields DEF Types, ReadTokens, At, stored, history, Live
<1>2. Accounts'
  BY MakeWork, ReadWork, RowFields, <1>1
    DEF Types, Accounts, CodeUntilAccount, HasUsers, Warranted, Exists, Idle, ReadTokens, At, stored,
      history, Live
<1>3. Gone'
  BY RowFields, ReadWork, <1>1 DEF Types, Gone, ReadTokens, At, stored, history, Live
<1>4. QED BY <1>1, <1>2, <1>3

LEMMA RevokeTokensKeeps ==
  ASSUME IInv, NEW r \in Requests, RevokeTokens(r)
  PROVE  IInv'
<1> USE LifetimeAssumption DEF IInv, Workers
<1>1. Types'
  BY MakeWork, ReadWork, RowFields DEF Types, RevokeTokens, At, Revoke, Rest
<1>2. Accounts'
  BY MakeWork, ReadWork, RowFields, <1>1
    DEF Types, Accounts, CodeUntilAccount, HasUsers, Warranted, Exists, Idle, RevokeTokens, At, Revoke,
      Rest
<1>3. Gone'
  BY RowFields, ReadWork, <1>1 DEF Types, Gone, RevokeTokens, At, Revoke, Rest
<1>4. QED BY <1>1, <1>2, <1>3

LEMMA RefusedKeeps ==
  ASSUME IInv, NEW r \in Requests \cup {Shell}, Refused(r)
  PROVE  IInv'
<1> USE LifetimeAssumption DEF IInv, Workers
<1>1. Types'
  BY MakeWork, ReadWork, RowFields DEF Types, Refused, Rest, stored, history
<1>2. Accounts'
  BY MakeWork, ReadWork, RowFields, <1>1
    DEF Types, Accounts, CodeUntilAccount, HasUsers, Warranted, Exists, Idle, Refused, Rest, stored,
      history
<1>3. Gone'
  BY RowFields, ReadWork, <1>1 DEF Types, Gone, Refused, Rest, stored, history
<1>4. QED BY <1>1, <1>2, <1>3

LEMMA LogoutKeeps ==
  ASSUME IInv, NEW s \in Sessions, Logout(s)
  PROVE  IInv'
<1> USE LifetimeAssumption DEF IInv, Workers
<1>1. Types'
  BY MakeWork, ReadWork, RowFields DEF Types, Logout, Delete
<1>2. Accounts'
  BY MakeWork, ReadWork, RowFields, <1>1
    DEF Types, Accounts, CodeUntilAccount, HasUsers, Warranted, Exists, Idle, Logout, Delete
<1>3. Gone'
  BY RowFields, ReadWork, <1>1 DEF Types, Gone, Logout, Delete, Sessions
<1>4. QED BY <1>1, <1>2, <1>3

LEMMA ShellCreateKeeps ==
  ASSUME IInv, NEW u \in Usernames, NEW p \in Passwords, ShellCreate(u, p)
  PROVE  IInv'
<1> USE LifetimeAssumption DEF IInv, Workers
<1>1. Types'
  BY MakeWork, ReadWork, RowFields DEF Types, ShellCreate, stored, history
<1>2. Accounts'
  BY MakeWork, ReadWork, RowFields, <1>1
    DEF Types, Accounts, CodeUntilAccount, HasUsers, Warranted, Exists, Idle, ShellCreate, stored,
      history
<1>3. Gone'
  BY RowFields, ReadWork, <1>1 DEF Types, Gone, ShellCreate, stored, history
<1>4. QED BY <1>1, <1>2, <1>3

LEMMA ShellWritesKeeps ==
  ASSUME IInv, ShellWrites
  PROVE  IInv'
<1> USE LifetimeAssumption DEF IInv, Workers
<1>1. Types'
  BY MakeWork, ReadWork, RowFields DEF Types, ShellWrites, At, CreateUser, Rest, history
<1>2. Accounts'
  BY MakeWork, ReadWork, RowFields, <1>1
    DEF Types, Accounts, CodeUntilAccount, HasUsers, Warranted, Exists, Idle, ShellWrites, At,
      CreateUser, Rest, history
<1>3. Gone'
  BY RowFields, ReadWork, <1>1 DEF Types, Gone, ShellWrites, At, CreateUser, Rest, history
<1>4. QED BY <1>1, <1>2, <1>3

LEMMA ResetPasswordKeeps ==
  ASSUME IInv, NEW u \in Usernames, NEW p \in Passwords, ResetPassword(u, p)
  PROVE  IInv'
<1> USE LifetimeAssumption DEF IInv, Workers
<1>1. Types'
  BY MakeWork, ReadWork, RowFields DEF Types, ResetPassword, SetPassword, Of, Kept, Delete, Revoke, Live
<1>2. Accounts'
  BY MakeWork, ReadWork, RowFields, <1>1
    DEF Types, Accounts, CodeUntilAccount, HasUsers, Warranted, Exists, Idle, ResetPassword,
      SetPassword, Of, Kept, Delete, Revoke, Live
<1>3. Gone'
  BY RowFields, ReadWork, <1>1
    DEF Types, Gone, ResetPassword, SetPassword, Of, Kept, Delete, Revoke, Live, Sessions
<1>4. QED BY <1>1, <1>2, <1>3

LEMMA TickKeeps ==
  ASSUME IInv, Tick
  PROVE  IInv'
<1> USE LifetimeAssumption DEF IInv, Workers
<1>1. Types'
  BY MakeWork, ReadWork, RowFields DEF Types, Tick, stored, history
<1>2. Accounts'
  BY MakeWork, ReadWork, RowFields, <1>1
    DEF Types, Accounts, CodeUntilAccount, HasUsers, Warranted, Exists, Idle, Tick, stored, history
<1>3. Gone'
  BY RowFields, ReadWork, <1>1 DEF Types, Gone, Tick, stored, history
<1>4. QED BY <1>1, <1>2, <1>3

-----------------------------------------------------------------------------
LEMMA InitHolds == Init => IInv
BY LifetimeAssumption, MakeWork, RowFields
DEF Init, IInv, Types, Accounts, Gone, CodeUntilAccount, HasUsers, Warranted, Idle, Workers, Sessions,
  Tokens

\* Every step keeps the invariant.
LEMMA StepKeeps == IInv /\ [Next]_vars => IInv'
<1> SUFFICES ASSUME IInv, [Next]_vars PROVE IInv'
  OBVIOUS
<1>1. CASE Restart
  BY <1>1, RestartKeeps
<1>2. CASE Bootstrap
  BY <1>2, BootstrapKeeps
<1>3. CASE PrepareAccess
  BY <1>3, PrepareAccessKeeps
<1>4. CASE \E r \in Requests, u \in Usernames, p \in Passwords : Setup(r, u, p)
  BY <1>4, SetupKeeps
<1>5. CASE \E r \in Requests, u \in Usernames : Authenticate(r, u)
  BY <1>5, AuthenticateKeeps
<1>6. CASE \E r \in Requests : CompleteSetup(r)
  BY <1>6, CompleteSetupKeeps
<1>7. CASE \E r \in Requests : Login(r)
  BY <1>7, LoginKeeps
<1>8. CASE \E r \in Requests, s \in Sessions, op \in {"read", "password", "tokens"} :
              ResolveSession(r, s, op)
  BY <1>8, ResolveSessionKeeps
<1>9. CASE \E r \in Requests : CommitLookup(r)
  BY <1>9, CommitLookupKeeps
<1>10. CASE \E r \in Requests, t \in Tokens : ResolveToken(r, t)
  BY <1>10, ResolveTokenKeeps
<1>11. CASE \E r \in Requests : CommitToken(r)
  BY <1>11, CommitTokenKeeps
<1>12. CASE \E r \in Requests, current \in Passwords \cup {None}, new \in Passwords :
               VerifyCurrent(r, current, new)
  BY <1>12, VerifyCurrentKeeps
<1>13. CASE \E r \in Requests : ChangePassword(r)
  BY <1>13, ChangePasswordKeeps
<1>14. CASE \E r \in Requests, t \in Tokens : CreateToken(r, t)
  BY <1>14, CreateTokenKeeps
<1>15. CASE \E r \in Requests, ts \in SUBSET Tokens : ReadTokens(r, ts)
  BY <1>15, ReadTokensKeeps
<1>16. CASE \E r \in Requests : RevokeTokens(r)
  BY <1>16, RevokeTokensKeeps
<1>17. CASE \E r \in Requests \cup {Shell} : Refused(r)
  BY <1>17, RefusedKeeps
<1>18. CASE \E s \in Sessions : Logout(s)
  BY <1>18, LogoutKeeps
<1>19. CASE \E u \in Usernames, p \in Passwords : ShellCreate(u, p)
  BY <1>19, ShellCreateKeeps
<1>20. CASE ShellWrites
  BY <1>20, ShellWritesKeeps
<1>21. CASE \E u \in Usernames, p \in Passwords : ResetPassword(u, p)
  BY <1>21, ResetPasswordKeeps
<1>22. CASE Tick
  BY <1>22, TickKeeps
<1>23. CASE UNCHANGED vars
  BY <1>23 DEF vars, IInv, Types, Accounts, Gone, CodeUntilAccount, HasUsers, Warranted, Exists
<1>24. QED BY <1>1, <1>2, <1>3, <1>4, <1>5, <1>6, <1>7, <1>8, <1>9, <1>10, <1>11, <1>12, <1>13, <1>14,
  <1>15, <1>16, <1>17, <1>18, <1>19, <1>20, <1>21, <1>22, <1>23 DEF Next

LEMMA Invariant == Spec => []IInv
BY InitHolds, StepKeeps, PTL DEF Spec

\* While the server runs there is a setup code exactly until there is an
\* account, whoever makes it and whatever is under way (CodeUntilAccount).
THEOREM SetupCodeUntilAccount == Spec => []CodeUntilAccount
<1>1. IInv => CodeUntilAccount
  BY DEF IInv, Accounts
<1>2. QED BY <1>1, Invariant, PTL

-----------------------------------------------------------------------------
(* Look-ups.  Two actions look something up; the others leave what has     *)
(* been looked up as it is, or are done with it.                           *)

Unread == \A q \in Requests : work'[q].at \in {"judged", "bearer"} => work'[q] = work[q]

LEMMA OthersUnread ==
  ASSUME IInv, [Next]_vars
  PROVE  \/ \E r \in Requests, s \in Sessions, op \in {"read", "password", "tokens"} : ResolveSession(r, s, op)
         \/ \E r \in Requests, t \in Tokens : ResolveToken(r, t)
         \/ Unread
<1> USE DEF IInv, Types, Workers
<1>3. ASSUME Restart PROVE Unread
  BY <1>3 DEF Unread, Restart, stored, history, Idle
<1>4. ASSUME Bootstrap PROVE Unread
  BY <1>4 DEF Unread, Bootstrap, CreateUser, history, Idle
<1>5. ASSUME PrepareAccess PROVE Unread
  BY <1>5 DEF Unread, PrepareAccess, IssueSetupCode, history, Idle
<1>6. ASSUME \E r \in Requests, u \in Usernames, p \in Passwords : Setup(r, u, p) PROVE Unread
  BY <1>6 DEF Unread, Setup, Idles, stored, history, Idle
<1>7. ASSUME \E r \in Requests, u \in Usernames : Authenticate(r, u) PROVE Unread
  BY <1>7 DEF Unread, Authenticate, Idles, stored, history, Idle
<1>8. ASSUME \E r \in Requests : CompleteSetup(r) PROVE Unread
  BY <1>8 DEF Unread, CompleteSetup, CreateUser, StartSession, At, Rest, Idle
<1>9. ASSUME \E r \in Requests : Login(r) PROVE Unread
  BY <1>9 DEF Unread, Login, StartSession, At, Rest, Idle
<1>10. ASSUME \E r \in Requests : CommitLookup(r) PROVE Unread
  BY <1>10 DEF Unread, CommitLookup, At, Delete, Touch, NoSession, Idle
<1>11. ASSUME \E r \in Requests : CommitToken(r) PROVE Unread
  BY <1>11 DEF Unread, CommitToken, At, TouchToken, Rest, history, Idle
<1>12. ASSUME \E r \in Requests, current \in Passwords \cup {None}, new \in Passwords :
                VerifyCurrent(r, current, new)
       PROVE  Unread
  BY <1>12 DEF Unread, VerifyCurrent, At, stored, history, Idle
<1>13. ASSUME \E r \in Requests : ChangePassword(r) PROVE Unread
  BY <1>13 DEF Unread, ChangePassword, At, SetPassword, Of, Kept, Delete, NoSession, Rest, Idle
<1>14. ASSUME \E r \in Requests, t \in Tokens : CreateToken(r, t) PROVE Unread
  BY <1>14 DEF Unread, CreateToken, At, Rest, history, Idle
<1>15. ASSUME \E r \in Requests, ts \in SUBSET Tokens : ReadTokens(r, ts) PROVE Unread
  BY <1>15 DEF Unread, ReadTokens, At, stored, history, Live, Idle
<1>16. ASSUME \E r \in Requests : RevokeTokens(r) PROVE Unread
  BY <1>16 DEF Unread, RevokeTokens, At, Revoke, Rest, Idle
<1>17. ASSUME \E r \in Requests \cup {Shell} : Refused(r) PROVE Unread
  BY <1>17 DEF Unread, Refused, Rest, stored, history, Idle
<1>18. ASSUME \E s \in Sessions : Logout(s) PROVE Unread
  BY <1>18 DEF Unread, Logout, Delete, NoSession, Idle
<1>19. ASSUME \E u \in Usernames, p \in Passwords : ShellCreate(u, p) PROVE Unread
  BY <1>19 DEF Unread, ShellCreate, stored, history, Idle
<1>20. ASSUME ShellWrites PROVE Unread
  BY <1>20 DEF Unread, ShellWrites, At, CreateUser, Rest, history, Idle
<1>21. ASSUME \E u \in Usernames, p \in Passwords : ResetPassword(u, p) PROVE Unread
  BY <1>21 DEF Unread, ResetPassword, SetPassword, Of, Kept, Delete, NoSession, Revoke, Live, Idle
<1>22. ASSUME Tick PROVE Unread
  BY <1>22 DEF Unread, Tick, stored, history, Idle
<1>23. ASSUME UNCHANGED vars PROVE Unread
  BY <1>23 DEF Unread, vars
<1>24. QED BY <1>3, <1>4, <1>5, <1>6, <1>7, <1>8, <1>9, <1>10, <1>11, <1>12, <1>13, <1>14,
  <1>15, <1>16, <1>17, <1>18, <1>19, <1>20, <1>21, <1>22, <1>23 DEF Next

\* What a look-up accepts is not gone.
LEMMA AcceptsLiving ==
  ASSUME IInv, [Next]_vars
  PROVE  \A q \in Requests : work[q].at = "idle" =>
           /\ work'[q].at = "judged" => (work'[q].verdict = "accepted" => work'[q].session \notin ended)
           /\ work'[q].at = "bearer" => work'[q].tokens \cap revoked = {}
<1> USE DEF IInv, Types, Workers
<1>1. ASSUME NEW r \in Requests, NEW s \in Sessions, NEW op \in {"read", "password", "tokens"},
             ResolveSession(r, s, op)
      PROVE  \A q \in Requests : work[q].at = "idle" =>
               /\ work'[q].at = "judged" => (work'[q].verdict = "accepted" => work'[q].session \notin ended)
               /\ work'[q].at # "bearer"
  <2>1. s \in ended => Judge(sessions[s]) # "accepted"
    BY DEF Gone, Judge
  <2>2. QED BY <1>1, <2>1, ReadWork DEF ResolveSession
<1>2. ASSUME NEW r \in Requests, NEW t \in Tokens, ResolveToken(r, t)
      PROVE  \A q \in Requests : work[q].at = "idle" =>
               /\ work'[q].at # "judged"
               /\ work'[q].at = "bearer" => work'[q].tokens \cap revoked = {}
  BY <1>2 DEF ResolveToken, Gone
<1>3. ASSUME Unread PROVE \A q \in Requests : work[q].at = "idle" => work'[q].at \notin {"judged", "bearer"}
  BY <1>3 DEF Unread
<1>4. QED BY <1>1, <1>2, <1>3, OthersUnread

\* A session that was signed out and a token that was revoked are not accepted
\* again, whatever was under way (EndedStaysEnded).
THEOREM EndedStays == Spec => EndedStaysEnded
<1>1. IInv /\ [Next]_vars => [ /\ Finds("accepted") \cap ended = {}
      /\ \A r \in Requests : work'[r].at = "bearer" /\ work[r].at = "idle" => work'[r].tokens \cap revoked = {} ]_vars
  BY AcceptsLiving DEF Finds
<1>2. QED BY <1>1, Invariant, PTL DEF Spec, EndedStaysEnded

-----------------------------------------------------------------------------
(* How long a session is accepted.  A row says what the histories say: the *)
(* hour of the sign-in, and that of the last request but for what a touch  *)
(* may lag behind.  An accepted look-up that writes nothing is committed   *)
(* before the row it found is due.                                         *)

RowTimes(s) ==
  sessions[s].user # None =>
    /\ sessions[s].expires = signedIn[s] + SessionAbsolute
    /\ sessions[s].seen <= lastRequest[s] /\ lastRequest[s] <= now
    /\ lastRequest[s] < sessions[s].seen + TouchInterval

LookupTimes(r) ==
  work[r].at = "judged" =>
    ( work[r].verdict = "accepted" /\ ~work[r].touch /\ sessions[work[r].session].user # None
        => now < sessions[work[r].session].seen + TouchInterval )

Lifetimes ==
  /\ signedIn \in [Sessions -> Nat] /\ lastRequest \in [Sessions -> Nat]
  /\ \A s \in Sessions : RowTimes(s)
  /\ \A r \in Requests : LookupTimes(r)

\* The steps that leave the rows, their hours and the clock as they are.
Leaves == UNCHANGED <<now, sessions, signedIn, lastRequest>>

LEMMA OthersLeave ==
  ASSUME [Next]_vars
  PROVE  \/ Leaves \/ Tick
         \/ \E r \in Requests : CompleteSetup(r) \/ Login(r) \/ CommitLookup(r) \/ ChangePassword(r)
         \/ \E u \in Usernames, p \in Passwords : ResetPassword(u, p)
         \/ \E s \in Sessions : Logout(s)
BY DEF Next, vars, stored, history, Leaves, Restart, Bootstrap, PrepareAccess, Setup, Authenticate,
  ResolveSession, ResolveToken, CommitToken, VerifyCurrent, CreateToken, ReadTokens, RevokeTokens,
  Refused, ShellCreate, ShellWrites

LEMMA LeavesLifetimes ==
  ASSUME IInv, Lifetimes, [Next]_vars, Leaves
  PROVE  Lifetimes'
<1> USE DEF IInv, Types, Workers, Leaves
<1>1. \A s \in Sessions : RowTimes(s)'
  BY DEF Lifetimes, RowTimes
<1>2. ASSUME NEW r \in Requests, NEW s \in Sessions, NEW op \in {"read", "password", "tokens"},
             ResolveSession(r, s, op)
      PROVE  \A q \in Requests : LookupTimes(q)'
  <2>1. \A q \in Requests : q # r => work'[q] = work[q]
    BY <1>2 DEF ResolveSession
  <2>2. /\ work'[r].session = s /\ work'[r].verdict = Judge(sessions[s])
        /\ work'[r].touch = TouchDue(sessions[s])
    BY <1>2 DEF ResolveSession
  <2>3. sessions[s].user # None /\ ~TouchDue(sessions[s]) => now < sessions[s].seen + TouchInterval
    BY LifetimeAssumption, RowFields DEF TouchDue, Lifetimes, RowTimes
  <2>4. LookupTimes(r)'
    BY <2>2, <2>3 DEF LookupTimes
  <2>5. QED BY <2>1, <2>4 DEF Lifetimes, LookupTimes
<1>3. ASSUME NEW r \in Requests, NEW t \in Tokens, ResolveToken(r, t)
      PROVE  \A q \in Requests : LookupTimes(q)'
  BY <1>3 DEF ResolveToken, Lifetimes, LookupTimes
<1>4. ASSUME Unread
      PROVE  \A q \in Requests : LookupTimes(q)'
  BY <1>4 DEF Unread, Lifetimes, LookupTimes
<1>5. QED BY <1>1, <1>2, <1>3, <1>4, OthersUnread DEF Lifetimes

\* A session is started on a row of its own.
LEMMA StartsLifetimes ==
  ASSUME IInv, Lifetimes, NEW r \in Requests, CompleteSetup(r) \/ Login(r)
  PROVE  Lifetimes'
<1> USE DEF IInv, Types, Workers
<1> DEFINE n == issued + 1
<1>1. /\ now' = now /\ n \in Sessions /\ now \in Nat
      /\ sessions'[n] = [user |-> work[r].user, expires |-> now + SessionAbsolute, seen |-> now]
      /\ signedIn' = [signedIn EXCEPT ![n] = now] /\ lastRequest' = [lastRequest EXCEPT ![n] = now]
      /\ \A s \in Sessions \ {n} : sessions'[s] = sessions[s]
      /\ work' = [work EXCEPT ![r] = Idle]
  <2>1. /\ now' = now /\ StartSession(work[r].user) /\ Rest(r)
    BY DEF CompleteSetup, Login
  <2>2. n \in Sessions
    BY <2>1, LifetimeAssumption DEF Sessions, StartSession
  <2>3. QED BY <2>1, <2>2 DEF StartSession, Rest
<1> HIDE DEF n
<1>2. \A s \in Sessions : RowTimes(s)'
  BY <1>1, LifetimeAssumption DEF Lifetimes, RowTimes
<1>3. ASSUME NEW q \in Requests, (work[q].at = "judged")', work'[q].session = n
      PROVE  LookupTimes(q)'
  BY <1>1, <1>3, LifetimeAssumption DEF LookupTimes
<1>4. ASSUME NEW q \in Requests, (work[q].at = "judged")', work'[q].session # n
      PROVE  LookupTimes(q)'
  <2>1. work'[q] = work[q]
    BY <1>1, <1>4 DEF Idle
  <2>2. work[q].session \in Sessions
    BY <1>4, <2>1, ReadWork
  <2>3. QED BY <1>1, <1>4, <2>1, <2>2 DEF Lifetimes, LookupTimes
<1>5. \A q \in Requests : LookupTimes(q)'
  BY <1>3, <1>4 DEF LookupTimes
<1>6. QED BY <1>1, <1>2, <1>5 DEF Lifetimes

\* Rows that are deleted are gone.
LEMMA DeletesLifetimes ==
  ASSUME IInv, Lifetimes, UNCHANGED <<now, signedIn, lastRequest>>, Unread,
         \A s \in Sessions : sessions'[s] \in {sessions[s], NoSession}
  PROVE  Lifetimes'
<1> USE RowFields DEF IInv, Types, Workers
<1>1. \A s \in Sessions : RowTimes(s)'
  BY DEF Lifetimes, RowTimes
<1>2. ASSUME NEW q \in Requests, (work[q].at = "judged")'
      PROVE  LookupTimes(q)'
  <2>1. work'[q] = work[q] /\ work[q].session \in Sessions
    BY <1>2, ReadWork DEF Unread
  <2>2. QED BY <1>2, <2>1 DEF Lifetimes, LookupTimes
<1>3. QED BY <1>1, <1>2 DEF Lifetimes, LookupTimes

\* The rows a commit leaves as they are were looked at in time.
LEMMA CommitsLifetimes ==
  ASSUME IInv, Lifetimes, NEW r \in Requests, CommitLookup(r)
  PROVE  Lifetimes'
<1> USE RowFields, LifetimeAssumption DEF IInv, Types, Workers
<1>0. PICK s \in Sessions : s = work[r].session
  BY ReadWork DEF CommitLookup, At
<1>1. work[r] \in Works /\ work[r].at = "judged" /\ work[r].session = s /\ s \in Sessions /\ now \in Nat
  BY <1>0 DEF CommitLookup, At
<1>2. UNCHANGED <<now, signedIn>> /\ \A q \in Requests : work'[q].at = "judged" => work'[q] = work[q]
  BY <1>1 DEF CommitLookup, Idle
<1>3. \A x \in Sessions : x # s => sessions'[x] = sessions[x] /\ lastRequest'[x] = lastRequest[x]
  BY <1>1 DEF CommitLookup, Delete, Touch, Lifetimes
<1>4. Unread /\ lastRequest' \in [Sessions -> Nat]
  BY <1>1 DEF CommitLookup, Idle, Unread, Lifetimes
<1>5. CASE work[r].verdict = "expired"
  <2>1. /\ \A x \in Sessions : sessions'[x] \in {sessions[x], NoSession}
        /\ lastRequest' = lastRequest
    BY <1>1, <1>5 DEF CommitLookup, Delete
  <2>2. QED BY <1>2, <1>4, <2>1, DeletesLifetimes
<1>6. CASE work[r].verdict = "accepted" /\ work[r].touch /\ sessions[s].user # None
  <2>1. /\ sessions' = [sessions EXCEPT ![s].seen = now]
        /\ lastRequest' = [lastRequest EXCEPT ![s] = now]
    BY <1>1, <1>6 DEF CommitLookup, Touch
  <2>5. sessions'[s].expires = sessions[s].expires /\ sessions'[s].seen = now /\ lastRequest'[s] = now
    BY <1>1, <2>1 DEF Rows, Lifetimes
  <2>2. RowTimes(s)'
    <3>1. sessions[s].expires = signedIn[s] + SessionAbsolute
      BY <1>1, <1>6 DEF Lifetimes, RowTimes
    <3>2. QED BY <1>1, <1>2, <2>5, <3>1 DEF RowTimes
  <2>3. \A q \in Requests : LookupTimes(q)'
    <3>1. ASSUME NEW q \in Requests, (work[q].at = "judged")'
          PROVE  LookupTimes(q)'
      <4>1. work'[q] = work[q] /\ work[q].session \in Sessions
        BY <1>2, <3>1, ReadWork
      <4>2. QED BY <1>1, <1>2, <1>3, <2>5, <4>1 DEF Lifetimes, LookupTimes
    <3>2. QED BY <3>1 DEF LookupTimes
  <2>4. ASSUME NEW x \in Sessions, x # s
        PROVE  RowTimes(x)'
    BY <1>2, <1>3, <2>4 DEF Lifetimes, RowTimes
  <2>6. QED BY <1>2, <1>4, <2>2, <2>3, <2>4 DEF Lifetimes
<1>7. CASE ~(work[r].verdict = "expired") /\ ~(work[r].verdict = "accepted" /\ work[r].touch /\ sessions[s].user # None)
  <2>1. sessions' = sessions
    BY <1>1, <1>7 DEF CommitLookup, Touch
  <2>2. \A q \in Requests : LookupTimes(q)'
    BY <1>2, <2>1 DEF Lifetimes, LookupTimes
  <2>3. ASSUME NEW x \in Sessions, lastRequest'[x] = lastRequest[x] \/ sessions[x].user = None
        PROVE  RowTimes(x)'
    BY <1>2, <2>1, <2>3 DEF Lifetimes, RowTimes
  <2>4. ASSUME lastRequest'[s] # lastRequest[s], sessions[s].user # None
        PROVE  RowTimes(s)'
    <3>1. work[r].verdict = "accepted" /\ ~work[r].touch /\ lastRequest'[s] = now
      BY <1>1, <1>7, <2>4 DEF CommitLookup, Lifetimes
    <3>2. now < sessions[s].seen + TouchInterval
      BY <1>1, <2>4, <3>1 DEF Lifetimes, LookupTimes
    <3>3. /\ sessions[s].expires = signedIn[s] + SessionAbsolute
          /\ sessions[s].seen <= lastRequest[s] /\ lastRequest[s] <= now
      BY <1>1, <2>4 DEF Lifetimes, RowTimes
    <3>4. sessions[s].seen \in Nat /\ lastRequest[s] \in Nat
      BY <1>1 DEF Lifetimes
    <3>5. QED BY <1>1, <1>2, <2>1, <3>1, <3>2, <3>3, <3>4 DEF RowTimes
  <2>5. QED BY <1>2, <1>3, <1>4, <2>2, <2>3, <2>4 DEF Lifetimes
<1>8. QED BY <1>5, <1>6, <1>7

\* Nothing is being looked up while an hour passes.
LEMMA TickLifetimes ==
  ASSUME IInv, Lifetimes, Tick
  PROVE  Lifetimes'
BY DEF IInv, Types, Tick, At, stored, history, Lifetimes, RowTimes, LookupTimes

LEMMA LifetimesStep == IInv /\ Lifetimes /\ [Next]_vars => Lifetimes'
<1> SUFFICES ASSUME IInv, Lifetimes, [Next]_vars PROVE Lifetimes'
  OBVIOUS
<1> USE DEF IInv, Types
<1>1. CASE Leaves
  BY <1>1, LeavesLifetimes
<1>2. CASE \E r \in Requests : CompleteSetup(r) \/ Login(r)
  BY <1>2, StartsLifetimes
<1>3. CASE \E r \in Requests : CommitLookup(r)
  BY <1>3, CommitsLifetimes
<1>4. CASE \E r \in Requests : ChangePassword(r)
  <2>1. /\ UNCHANGED <<now, signedIn, lastRequest>>
        /\ \A s \in Sessions : sessions'[s] \in {sessions[s], NoSession}
    BY <1>4 DEF ChangePassword, SetPassword, Delete
  <2>2. Unread
    BY <1>4 DEF Unread, ChangePassword, Rest, Workers, Idle
  <2>3. QED BY <2>1, <2>2, DeletesLifetimes
<1>5. CASE \E u \in Usernames, p \in Passwords : ResetPassword(u, p)
  <2>1. /\ UNCHANGED <<now, signedIn, lastRequest>> /\ Unread
        /\ \A s \in Sessions : sessions'[s] \in {sessions[s], NoSession}
    BY <1>5 DEF ResetPassword, SetPassword, Delete, Unread
  <2>2. QED BY <2>1, DeletesLifetimes
<1>6. CASE \E s \in Sessions : Logout(s)
  <2>1. /\ UNCHANGED <<now, signedIn, lastRequest>> /\ Unread
        /\ \A s \in Sessions : sessions'[s] \in {sessions[s], NoSession}
    BY <1>6 DEF Logout, Delete, Unread
  <2>2. QED BY <2>1, DeletesLifetimes
<1>7. CASE Tick
  BY <1>7, TickLifetimes
<1>8. QED BY <1>1, <1>2, <1>3, <1>4, <1>5, <1>6, <1>7, OthersLeave

LEMMA LifetimesHold == Spec => []Lifetimes
<1>1. Init => Lifetimes
  BY DEF Init, Lifetimes, RowTimes, LookupTimes, Idle, NoSession
<1>2. QED BY <1>1, LifetimesStep, Invariant, PTL DEF Spec

\* What a look-up finds is what the row says, and the row says what the
\* histories do.
LEMMA FindsByTheRow ==
  ASSUME IInv, Lifetimes, [Next]_vars
  PROVE  /\ \A s \in Finds("accepted") :
              now < signedIn[s] + SessionAbsolute /\ now < lastRequest[s] + SessionIdle
         /\ \A s \in Finds("expired") :
              now >= signedIn[s] + SessionAbsolute \/ now - lastRequest[s] > SessionIdle - TouchInterval
<1> USE DEF IInv, Types, Workers
<1>1. ASSUME NEW r \in Requests, NEW s \in Sessions, NEW op \in {"read", "password", "tokens"},
             ResolveSession(r, s, op), NEW verdict \in {"accepted", "expired"}, NEW x \in Finds(verdict)
      PROVE  x = s /\ verdict = Judge(sessions[s])
  BY <1>1 DEF Finds, ResolveSession
<1>2. ASSUME NEW s \in Sessions, Judge(sessions[s]) = "accepted"
      PROVE  now < signedIn[s] + SessionAbsolute /\ now < lastRequest[s] + SessionIdle
  BY <1>2, LifetimeAssumption, RowFields DEF Judge, Expired, Lifetimes, RowTimes
<1>3. ASSUME NEW s \in Sessions, Judge(sessions[s]) = "expired"
      PROVE  now >= signedIn[s] + SessionAbsolute \/ now - lastRequest[s] > SessionIdle - TouchInterval
  BY <1>3, LifetimeAssumption, RowFields DEF Judge, Expired, Lifetimes, RowTimes
<1>4. CASE \E r \in Requests, s \in Sessions, op \in {"read", "password", "tokens"} : ResolveSession(r, s, op)
  BY <1>1, <1>2, <1>3, <1>4
<1>5. CASE \E r \in Requests, t \in Tokens : ResolveToken(r, t)
  BY <1>5 DEF Finds, ResolveToken
<1>6. CASE Unread
  BY <1>6 DEF Finds, Unread
<1>7. QED BY <1>4, <1>5, <1>6, OthersUnread

\* A session is accepted for as long as it should be, and refused as too old
\* only when it is (SessionLifetime).
THEOREM SessionsLastAsTheyShould == Spec => SessionLifetime
<1>1. IInv /\ Lifetimes /\ [Next]_vars =>
        [ /\ \A s \in Finds("accepted") :
               now < signedIn[s] + SessionAbsolute /\ now < lastRequest[s] + SessionIdle
          /\ \A s \in Finds("expired") :
               now >= signedIn[s] + SessionAbsolute \/ now - lastRequest[s] > SessionIdle - TouchInterval ]_vars
  BY FindsByTheRow
<1>2. QED BY <1>1, Invariant, LifetimesHold, PTL DEF Spec, SessionLifetime
-----------------------------------------------------------------------------
(* The dashboard.  What an answer says of a job is not undone, and what    *)
(* was told of has ended.  Unless another request about a job was under    *)
(* way when its end was told, none is after: the page is off the job, no   *)
(* look finds it again and no timer asks, so the next end told is another  *)
(* job's.                                                                  *)

Replies == {"none", "active", "ended", "pruned", "refused", "nothing"}
Asked == [kind : Kinds \cup {"none"}, about : Jobs \cup {NoJob}, answer : Replies, current : BOOLEAN]
Tellers == {"poll", "start", "get", "cancel"}

FollowTypes ==
  /\ status \in [Jobs -> {"none", "active", "ended", "pruned"}]
  /\ job \in Jobs \cup {NoJob} /\ effect \in Jobs \cup {NoJob}
  /\ request \in [Slots -> Asked]
  /\ told \in [Jobs -> Nat] /\ followed \subseteq Jobs
  /\ left \subseteq Jobs /\ doubled \subseteq Jobs

\* What a request in a slot is, and that its answer still holds.
Answered(q) ==
  /\ q.kind \in Tellers \/ q.answer = "active" => q.about \in Jobs
  /\ q.kind = "none" => q.answer = "none"
  /\ q.answer = "active" => status[q.about] # "none"
  /\ q.answer = "ended" => q.kind \in Tellers /\ status[q.about] \in {"ended", "pruned"}
  /\ q.answer = "pruned" => q.kind \in Tellers /\ status[q.about] = "pruned"

Ended == \A j \in Jobs : told[j] > 0 => status[j] \in {"ended", "pruned"}

\* Once the end of a job is told, no request about it is left to tell of it.
ToldOver ==
  \A j \in Jobs : told[j] > 0 /\ j \notin doubled =>
    told[j] = 1 /\ j # job /\ About(j) = {}

\* What the page is off was told of, or given up for another.
Untold == \A j \in followed \ (left \cup {job}) : told[j] > 0

Sound == FollowTypes /\ Ended /\ \A s \in Slots : Answered(request[s])
FollowInv == Sound /\ ToldOver /\ Untold

\* A job goes on only, from waiting to gone.
Onward ==
  \A j \in Jobs :
    /\ status[j] # "none" => status'[j] # "none"
    /\ status[j] \in {"ended", "pruned"} => status'[j] \in {"ended", "pruned"}
    /\ status[j] = "pruned" => status'[j] = "pruned"

LEMMA NoRequestAsked ==
  /\ NoRequest \in Asked /\ NoRequest.kind = "none" /\ NoRequest.answer = "none" /\ NoRequest.current = FALSE
  /\ \A q \in Asked : /\ q.kind \in Kinds \cup {"none"} /\ q.about \in Jobs \cup {NoJob}
                       /\ q.answer \in Replies /\ q.current \in BOOLEAN
BY DEF NoRequest, Asked, Replies

LEMMA SetAbout ==
  ASSUME NEW q \in Asked, NEW about \in Jobs \cup {NoJob}
  PROVE  /\ [q EXCEPT !.about = about] \in Asked
         /\ [q EXCEPT !.about = about].kind = q.kind /\ [q EXCEPT !.about = about].about = about
         /\ [q EXCEPT !.about = about].current = q.current
BY DEF Asked

LEMMA SetAnswer ==
  ASSUME NEW q \in Asked, NEW answer \in Replies
  PROVE  /\ [q EXCEPT !.answer = answer] \in Asked
         /\ [q EXCEPT !.answer = answer].kind = q.kind /\ [q EXCEPT !.answer = answer].about = q.about
         /\ [q EXCEPT !.answer = answer].current = q.current /\ [q EXCEPT !.answer = answer].answer = answer
BY DEF Asked

LEMMA AnswerIs ==
  ASSUME FollowTypes, NEW s \in Slots, NEW about \in Jobs \cup {NoJob}, NEW answer \in Replies,
         Answer(s, about, answer)
  PROVE  \E q \in Asked :
           /\ request' = [request EXCEPT ![s] = q]
           /\ q.kind = request[s].kind /\ q.current = request[s].current
           /\ q.about = about /\ q.answer = answer
<1> DEFINE r == request[s]
           r1 == [r EXCEPT !.about = about]
           r2 == [r1 EXCEPT !.answer = answer]
<1>1. request' = [request EXCEPT ![s] = r2]
  BY DEF Answer, FollowTypes
<1>2. r \in Asked
  BY DEF FollowTypes
<1> HIDE DEF r
<1>3. r1 \in Asked /\ r1.kind = r.kind /\ r1.about = about /\ r1.current = r.current
  BY <1>2, SetAbout
<1> HIDE DEF r1
<1>4. r2 \in Asked /\ r2.kind = r.kind /\ r2.about = about /\ r2.answer = answer /\ r2.current = r.current
  BY <1>3, SetAnswer
<1> HIDE DEF r2
<1>5. QED BY <1>1, <1>4 DEF r

\* What an action does to one slot, and what it may do to the rest.
LEMMA SoundSlot ==
  ASSUME Sound, NEW s \in Slots, NEW q \in Asked, request' = [request EXCEPT ![s] = q],
         status' \in [Jobs -> {"none", "active", "ended", "pruned"}], Onward, Answered(q)',
         job' \in Jobs \cup {NoJob}, UNCHANGED effect, followed' \subseteq Jobs,
         left' \subseteq Jobs, doubled' \subseteq Jobs,
         told' \in [Jobs -> Nat],
         \A j \in Jobs : told'[j] > 0 => told[j] > 0 \/ status[j] \in {"ended", "pruned"}
  PROVE  Sound'
<1>1. FollowTypes' /\ Ended'
  BY DEF Sound, FollowTypes, Ended, Onward
<1>2. ASSUME NEW t \in Slots, t # s
      PROVE  Answered(request[t])'
  <2>1. request'[t] = request[t] /\ request[t] \in Asked
    BY <1>2 DEF Sound, FollowTypes
  <2>2. QED BY <2>1, NoRequestAsked DEF Sound, Answered, Onward
<1>3. request'[s] = q
  BY DEF Sound, FollowTypes
<1>4. Answered(request[s])'
  BY <1>3 DEF Answered
<1>5. QED BY <1>1, <1>2, <1>4 DEF Sound

\* A slot that changes while the page stays: it is not turned to what is over.
LEMMA OverSlot ==
  ASSUME FollowTypes, ToldOver, Untold, NEW s \in Slots, NEW q \in Asked, request' = [request EXCEPT ![s] = q],
         UNCHANGED <<job, followed, told, left>>, doubled \subseteq doubled',
         \A j \in Jobs : told[j] > 0 /\ j \notin doubled' => q.about # j
  PROVE  ToldOver' /\ Untold'
<1>1. request'[s] = q /\ \A t \in Slots : t # s => request'[t] = request[t]
  BY DEF FollowTypes
<1>2. ToldOver'
  <2>1. SUFFICES ASSUME NEW j \in Jobs, told[j] > 0, j \notin doubled'
                 PROVE  told[j] = 1 /\ j # job /\ \A t \in Slots : request'[t].about # j
    BY DEF ToldOver, About
  <2>2. told[j] = 1 /\ j # job /\ \A t \in Slots : request[t].about # j
    BY <2>1 DEF ToldOver, About
  <2>3. QED BY <1>1, <2>1, <2>2
<1>3. QED BY <1>2 DEF Untold

LEMMA ServerStepFollows == FollowInv /\ ServerStep => FollowInv'
<1> SUFFICES ASSUME FollowInv, ServerStep PROVE FollowInv'
  OBVIOUS
<1>1. UNCHANGED <<job, effect, request, followed, told, left, doubled>>
  BY DEF ServerStep, pageVars
<1>2. Onward /\ status' \in [Jobs -> {"none", "active", "ended", "pruned"}]
  BY DEF ServerStep, Begins, Ends, Prunes, Server, Onward, FollowInv, Sound, FollowTypes
<1>3. Sound'
  BY <1>1, <1>2, NoRequestAsked DEF FollowInv, Sound, FollowTypes, Ended, Answered, Onward
<1>4. ToldOver' /\ Untold'
  BY <1>1 DEF FollowInv, ToldOver, Untold, About
<1>5. QED BY <1>3, <1>4 DEF FollowInv

LEMMA RenderFollows == FollowInv /\ Render => FollowInv'
<1> SUFFICES ASSUME FollowInv, Render PROVE FollowInv'
  OBVIOUS
<1>1. \A s \in Slots :
        /\ request[s] \in Asked /\ request'[s] \in Asked
        /\ request'[s].kind = request[s].kind /\ request'[s].about = request[s].about
        /\ request'[s].answer = request[s].answer /\ request'[s].current = FALSE
  BY DEF Render, FollowInv, Sound, FollowTypes, Asked
<1>2. UNCHANGED <<status, job, followed, told, left, doubled>> /\ effect' = job
  BY DEF Render, pageVars
<1>3. Sound'
  <2>1. request' \in [Slots -> Asked]
    BY <1>1 DEF Render
  <2>2. \A s \in Slots : Answered(request[s])'
    BY <1>1, <1>2 DEF FollowInv, Sound, Answered
  <2>3. QED BY <1>2, <2>1, <2>2 DEF FollowInv, Sound, FollowTypes, Ended
<1>4. ToldOver' /\ Untold'
  BY <1>1, <1>2 DEF FollowInv, ToldOver, Untold, About
<1>5. QED BY <1>3, <1>4 DEF FollowInv

\* What is asked is about a job that was not told of, or is marked.
LEMMA SendFollows ==
  ASSUME FollowInv, NEW s \in Slots, NEW kind \in Kinds, NEW j \in Jobs \cup {NoJob},
         kind \in Tellers => j \in Jobs, Send(s, kind, j), UNCHANGED <<status, job, effect, followed, told, left>>,
         doubled \subseteq doubled', doubled' \subseteq Jobs,
         j \in Jobs /\ told[j] > 0 => j \in doubled'
  PROVE  FollowInv'
<1> DEFINE q == [kind |-> kind, about |-> j, answer |-> "none", current |-> TRUE]
<1>1. q \in Asked /\ q.about = j /\ request' = [request EXCEPT ![s] = q]
  BY DEF Asked, Replies, Send
<1>2. Answered(q)'
  BY DEF Answered, Kinds, Tellers
<1> HIDE DEF q
<1>3. Sound'
  <2>1. Onward /\ Sound
    BY DEF Onward, FollowInv
  <2>2. QED BY <1>1, <1>2, <2>1, SoundSlot DEF Sound, FollowTypes
<1>4. ToldOver' /\ Untold'
  BY <1>1, OverSlot DEF FollowInv, Sound
<1>5. QED BY <1>3, <1>4 DEF FollowInv

LEMMA AsksFollow ==
  ASSUME FollowInv, NEW s \in Slots,
         Poll(s) \/ Look(s) \/ Cancel(s) \/ \E j \in Jobs : Start(s, j)
  PROVE  FollowInv'
<1> USE FollowAssumption
<1>1. Sound /\ job \in Jobs \cup {NoJob} /\ effect \in Jobs \cup {NoJob} /\ doubled \subseteq Jobs
  BY DEF FollowInv, Sound, FollowTypes
<1>2. \A j \in Jobs \ doubled : told[j] > 0 => j # job
  BY DEF FollowInv, ToldOver
<1>3. CASE Poll(s)
  <2>1. effect \in Jobs /\ "poll" \in Kinds
    BY <1>1, <1>3 DEF Poll, Kinds
  <2>2. /\ Send(s, "poll", effect) /\ UNCHANGED <<status, job, effect, followed, told, left>>
        /\ doubled' = doubled \cup ({effect} \ {job})
    BY <1>3 DEF Poll
  <2>3. told[effect] > 0 => effect \in doubled'
    BY <1>2, <2>1, <2>2
  <2>4. QED BY <1>1, <2>1, <2>2, <2>3, SendFollows
<1>4. CASE Look(s)
  BY <1>1, <1>4, SendFollows DEF Look, Kinds, Tellers, pageVars
<1>5. CASE Cancel(s)
  <2>1. job \in Jobs /\ "cancel" \in Kinds
    BY <1>1, <1>5 DEF Cancel, Kinds
  <2>2. Send(s, "cancel", job) /\ UNCHANGED <<status, job, effect, followed, told, left, doubled>>
    BY <1>5 DEF Cancel, pageVars
  <2>3. told[job] > 0 => job \in doubled'
    BY <1>2, <2>1, <2>2
  <2>4. QED BY <1>1, <2>1, <2>2, <2>3, SendFollows
<1>6. ASSUME NEW j \in Jobs, Start(s, j)
      PROVE  FollowInv'
  <2>1. ~(told[j] > 0) /\ "start" \in Kinds
    BY <1>1, <1>6 DEF Start, Sound, Ended, Kinds
  <2>2. Send(s, "start", j) /\ UNCHANGED <<status, job, effect, followed, told, left, doubled>>
    BY <1>6 DEF Start, pageVars
  <2>3. QED BY <1>1, <2>1, <2>2, SendFollows
<1>7. QED BY <1>3, <1>4, <1>5, <1>6

LEMMA DroppedFollows ==
  ASSUME FollowInv, NEW s \in Slots, request' = [request EXCEPT ![s] = NoRequest],
         UNCHANGED <<status, pageVars, effect>>
  PROVE  FollowInv'
<1>1. Answered(NoRequest)' /\ \A j \in Jobs : NoRequest.about # j
  BY NoRequestAsked, FollowAssumption DEF Answered, Tellers, NoRequest
<1>2. Sound'
  BY <1>1, NoRequestAsked, SoundSlot DEF FollowInv, Sound, FollowTypes, Onward, pageVars
<1>3. ToldOver' /\ Untold'
  BY <1>1, NoRequestAsked, OverSlot DEF FollowInv, Sound, pageVars
<1>4. QED BY <1>2, <1>3 DEF FollowInv

\* An answer that is true when it is given changes no more than its slot.
LEMMA AnswerFollows ==
  ASSUME FollowInv, NEW s \in Slots, NEW about \in Jobs \cup {NoJob}, NEW answer \in Replies,
         Answer(s, about, answer), UNCHANGED <<pageVars, effect>>,
         status' \in [Jobs -> {"none", "active", "ended", "pruned"}], Onward,
         about = request[s].about \/ about = NoJob \/ told[about] = 0,
         \A q \in Asked : q.kind = request[s].kind /\ q.about = about /\ q.answer = answer => Answered(q)'
  PROVE  FollowInv'
<1>1. PICK q \in Asked :
        /\ request' = [request EXCEPT ![s] = q]
        /\ q.kind = request[s].kind /\ q.current = request[s].current
        /\ q.about = about /\ q.answer = answer
  BY AnswerIs DEF FollowInv, Sound
<1>2. Sound'
  BY <1>1, SoundSlot DEF FollowInv, Sound, FollowTypes, pageVars
<1>3. \A j \in Jobs : told[j] > 0 /\ j \notin doubled => q.about # j
  BY <1>1, FollowAssumption DEF FollowInv, ToldOver, About
<1>4. ToldOver' /\ Untold'
  BY <1>1, <1>3, OverSlot DEF FollowInv, Sound, pageVars
<1>5. QED BY <1>2, <1>4 DEF FollowInv

LEMMA ServedFollows ==
  ASSUME FollowInv, NEW s \in Slots, Served(s)
  PROVE  FollowInv'
<1> DEFINE about == request[s].about
           kind == request[s].kind
<1>1. /\ UNCHANGED <<pageVars, effect>>
      /\ status \in [Jobs -> {"none", "active", "ended", "pruned"}]
      /\ kind \in Tellers => about \in Jobs
      /\ about \in Jobs \cup {NoJob}
  BY NoRequestAsked DEF Served, FollowInv, Sound, FollowTypes, Answered
<1>2. UNCHANGED status => Onward
  BY DEF Onward
<1>3. CASE kind \in {"poll", "get"} /\ Answer(s, about, status[about]) /\ UNCHANGED status
  <2>1. about \in Jobs /\ status[about] \in {"none", "active", "ended", "pruned"} /\ kind \in Tellers
    BY <1>1, <1>3 DEF Tellers
  <2>2. \A q \in Asked : q.kind = kind /\ q.about = about /\ q.answer = status[about] => Answered(q)'
    BY <1>3, <2>1 DEF Answered, Tellers
  <2>3. status[about] \in Replies
    BY <2>1 DEF Replies
  <2>4. QED BY <1>1, <1>2, <1>3, <2>1, <2>2, <2>3, AnswerFollows
<1>4. CASE kind = "start" /\ Begins(about) /\ Answer(s, about, "active")
  <2>1. about \in Jobs /\ kind \in Tellers /\ "active" \in Replies
    BY <1>1, <1>4 DEF Tellers, Replies
  <2>2. Onward /\ status' \in [Jobs -> {"none", "active", "ended", "pruned"}] /\ status'[about] = "active"
    BY <1>1, <1>4, <2>1 DEF Begins, Server, Onward
  <2>3. \A q \in Asked : q.kind = kind /\ q.about = about /\ q.answer = "active" => Answered(q)'
    BY <1>4, <2>1, <2>2 DEF Answered
  <2>4. QED BY <1>1, <1>4, <2>1, <2>2, <2>3, AnswerFollows
<1>5. ASSUME kind = "cancel", status[about] = "active", NEW to \in {"active", "ended"}, Answer(s, about, to),
             status' = [status EXCEPT ![about] = to]
      PROVE  FollowInv'
  <2>1. about \in Jobs /\ kind \in Tellers /\ to \in Replies
    BY <1>1, <1>5 DEF Tellers, Replies
  <2>2. Onward /\ status' \in [Jobs -> {"none", "active", "ended", "pruned"}] /\ status'[about] = to
    BY <1>1, <1>5, <2>1 DEF Onward
  <2>3. \A q \in Asked : q.kind = kind /\ q.about = about /\ q.answer = to => Answered(q)'
    BY <1>5, <2>1, <2>2 DEF Answered
  <2>4. QED BY <1>1, <1>5, <2>1, <2>2, <2>3, AnswerFollows
<1>6. CASE kind = "cancel" /\ Answer(s, about, "refused") /\ UNCHANGED status
  <2>1. about \in Jobs /\ kind \in Tellers /\ "refused" \in Replies
    BY <1>1, <1>6 DEF Tellers, Replies
  <2>2. \A q \in Asked : q.kind = kind /\ q.about = about /\ q.answer = "refused" => Answered(q)'
    BY <1>6, <2>1 DEF Answered
  <2>3. QED BY <1>1, <1>2, <1>6, <2>1, <2>2, AnswerFollows
<1>7. ASSUME kind = "look", UNCHANGED status, NEW j \in Jobs, status[j] = "active", Answer(s, j, "active")
      PROVE  FollowInv'
  <2>1. kind \notin Tellers /\ "active" \in Replies /\ told[j] = 0
    BY <1>7 DEF Tellers, Replies, FollowInv, Sound, Ended, FollowTypes
  <2>2. \A q \in Asked : q.kind = kind /\ q.about = j /\ q.answer = "active" => Answered(q)'
    BY <1>7, <2>1 DEF Answered
  <2>3. QED BY <1>1, <1>2, <1>7, <2>1, <2>2, AnswerFollows
<1>8. CASE kind = "look" /\ UNCHANGED status /\ Answer(s, NoJob, "nothing")
  <2>1. kind \notin Tellers /\ "nothing" \in Replies
    BY <1>8 DEF Tellers, Replies
  <2>2. \A q \in Asked : q.kind = kind /\ q.about = NoJob /\ q.answer = "nothing" => Answered(q)'
    BY <1>8, <2>1 DEF Answered
  <2>3. QED BY <1>1, <1>2, <1>8, <2>1, <2>2, AnswerFollows
<1>9. QED BY <1>3, <1>4, <1>5, <1>6, <1>7, <1>8 DEF Served

\* An answer that turns the page: it is about a job that was not told of, or is
\* marked, and after it tells no other request is left, or the job is marked.
LEMMA PageFollows ==
  ASSUME FollowInv, NEW s \in Slots, request' = [request EXCEPT ![s] = NoRequest],
         UNCHANGED <<status, effect>>, NEW j \in Jobs, j = request[s].about,
         \/ Keep(j)
         \/ Turn(NoJob, j) /\ Tell(s, j) /\ request[s].answer \in {"ended", "pruned"}
  PROVE  FollowInv'
<1> USE FollowAssumption
<1>1. /\ request'[s] = NoRequest /\ \A t \in Slots \ {s} : request'[t] = request[t]
      /\ job \in Jobs \cup {NoJob} /\ told \in [Jobs -> Nat] /\ followed \subseteq Jobs
      /\ left \subseteq Jobs /\ doubled \subseteq Jobs
      /\ NoRequest.about = NoJob
  BY DEF FollowInv, Sound, FollowTypes, NoRequest
<1>2. \/ job' = j /\ told' = told /\ doubled' = doubled
      \/ /\ job' = NoJob /\ status[j] \in {"ended", "pruned"}
         /\ told' = [told EXCEPT ![j] = IF @ < MaxTold THEN @ + 1 ELSE @]
         /\ doubled' = IF About(j) \subseteq {s} THEN doubled ELSE doubled \cup {j}
  BY DEF Keep, Turn, Tell, FollowInv, Sound, Answered
<1>3. followed' = followed \cup {j} /\ left' = (left \cup ({job} \ {NoJob})) \ {j}
  BY DEF Keep, Turn
<1>4. /\ told' \in [Jobs -> Nat] /\ \A i \in Jobs : i # j => told'[i] = told[i]
      /\ told'[j] \in {told[j], told[j] + 1}
      /\ job' \in {j, NoJob} /\ (job' = NoJob => told'[j] > 0 /\ status[j] \in {"ended", "pruned"})
      /\ told'[j] # told[j] => job' = NoJob
      /\ doubled \subseteq doubled' /\ doubled' \subseteq Jobs
  BY <1>1, <1>2
<1>5. told[j] = 0 \/ j \in doubled
  BY <1>1 DEF FollowInv, ToldOver, About
<1>6. Sound'
  <2>1. Answered(NoRequest)' /\ Onward
    BY NoRequestAsked DEF Answered, Tellers, Onward
  <2>2. \A i \in Jobs : told'[i] > 0 => told[i] > 0 \/ status[i] \in {"ended", "pruned"}
    BY <1>1, <1>4
  <2>3. QED BY <1>1, <1>3, <1>4, <2>1, <2>2, NoRequestAsked, SoundSlot DEF FollowInv, Sound, FollowTypes
<1>7. ASSUME NEW i \in Jobs, told'[i] > 0, i \notin doubled'
      PROVE  told'[i] = 1 /\ i # job' /\ \A t \in Slots : request'[t].about # i
  <2>1. CASE i # j
    <3>1. told[i] = 1 /\ \A t \in Slots : request[t].about # i
      BY <1>4, <1>7, <2>1 DEF FollowInv, ToldOver, About
    <3>2. QED BY <1>1, <1>4, <2>1, <3>1
  <2>2. CASE i = j
    <3>1. told[j] = 0 /\ job' = NoJob /\ About(j) \subseteq {s}
      BY <1>2, <1>4, <1>5, <1>7, <2>2
    <3>2. told'[j] = 1
      BY <1>4, <1>7, <2>2, <3>1
    <3>3. \A t \in Slots : request'[t].about # j
      BY <1>1, <3>1 DEF About
    <3>4. QED BY <2>2, <3>1, <3>2, <3>3
  <2>3. QED BY <2>1, <2>2
<1>8. ToldOver'
  BY <1>7 DEF ToldOver, About
<1>9. ASSUME NEW i \in followed', i \notin left', i # job'
      PROVE  told'[i] > 0
  <2>1. CASE i = j
    BY <1>4, <1>9, <2>1
  <2>2. CASE i # j
    BY <1>1, <1>3, <1>4, <1>9, <2>2 DEF FollowInv, Untold
  <2>3. QED BY <2>1, <2>2
<1>10. Untold'
  BY <1>9 DEF Untold
<1>11. QED BY <1>6, <1>8, <1>10 DEF FollowInv

LEMMA ArrivesFollows ==
  ASSUME FollowInv, NEW s \in Slots, Arrives(s)
  PROVE  FollowInv'
<1> DEFINE q == request[s]
<1>1. UNCHANGED <<status, effect>> /\ q \in Asked
  BY DEF Arrives, FollowInv, Sound, FollowTypes
<1>2. q.kind \in Tellers \/ q.answer = "active" => q.about \in Jobs
  BY DEF FollowInv, Sound, Answered
<1>3. CASE /\ q.kind \in {"poll", "get", "cancel"} /\ q.answer \in {"active", "ended"}
           /\ Follow(s, q.about, q.answer) /\ request' = [request EXCEPT ![s] = NoRequest]
  BY <1>1, <1>2, <1>3, PageFollows DEF Follow, Tellers
<1>4. CASE /\ q.kind = "poll" /\ q.answer = "pruned"
           /\ Turn(NoJob, q.about) /\ Tell(s, q.about) /\ request' = [request EXCEPT ![s] = NoRequest]
  BY <1>1, <1>2, <1>4, PageFollows DEF Tellers
<1>5. CASE /\ q.kind = "start" /\ request' = [request EXCEPT ![s] = [q EXCEPT !.kind = "get", !.answer = "none"]]
           /\ UNCHANGED pageVars
  <2> DEFINE g == [q EXCEPT !.kind = "get"]
             m == [g EXCEPT !.answer = "none"]
  <2>1. request' = [request EXCEPT ![s] = m]
    BY <1>5
  <2>2. g \in Asked /\ g.kind = "get" /\ g.about = q.about
    BY <1>1 DEF Asked, Kinds
  <2> HIDE DEF g
  <2>3. m \in Asked /\ m.kind = "get" /\ m.about = q.about /\ m.answer = "none"
    BY <2>2, SetAnswer DEF Replies
  <2> HIDE DEF m
  <2>4. PICK n \in Asked :
          /\ request' = [request EXCEPT ![s] = n]
          /\ n.kind = "get" /\ n.about = q.about /\ n.answer = "none"
    BY <2>1, <2>3
  <2>5. q.about \in Jobs /\ Onward /\ Answered(n)'
    BY <1>1, <1>2, <1>5, <2>4 DEF Answered, Tellers, Onward
  <2>6. Sound'
    BY <1>1, <1>5, <2>4, <2>5, SoundSlot DEF FollowInv, Sound, FollowTypes, pageVars
  <2>7. \A j \in Jobs : told[j] > 0 /\ j \notin doubled => n.about # j
    BY <2>4 DEF FollowInv, ToldOver, About
  <2>8. ToldOver' /\ Untold'
    BY <1>5, <2>4, <2>7, OverSlot DEF FollowInv, Sound, pageVars
  <2>9. QED BY <2>6, <2>8 DEF FollowInv
<1>6. CASE /\ q.kind = "look" /\ q.current /\ q.answer = "active" /\ job = NoJob
           /\ Keep(q.about) /\ request' = [request EXCEPT ![s] = NoRequest]
  BY <1>1, <1>2, <1>6, PageFollows
<1>7. CASE request' = [request EXCEPT ![s] = NoRequest] /\ UNCHANGED pageVars
  BY <1>1, <1>7, DroppedFollows
<1>8. QED BY <1>3, <1>4, <1>5, <1>6, <1>7 DEF Arrives

LEMMA FollowStep == FollowInv /\ [FollowNext]_followVars => FollowInv'
<1> SUFFICES ASSUME FollowInv, [FollowNext]_followVars PROVE FollowInv'
  OBVIOUS
<1>1. ASSUME NEW s \in Slots, Lost(s) PROVE FollowInv'
  BY <1>1, DroppedFollows DEF Lost
<1>2. CASE UNCHANGED followVars
  BY <1>2 DEF followVars, FollowInv, Sound, FollowTypes, Ended, Answered, ToldOver, Untold, About
<1>3. QED BY <1>1, <1>2, ServerStepFollows, RenderFollows, AsksFollow, ServedFollows, ArrivesFollows DEF FollowNext

\* The end of a job is told once and none is left untold, for any number of jobs
\* and requests, whatever overlaps, is lost or late: but for the jobs that were
\* asked about by another request as they were told of, or by a timer that was
\* left, or given up for another (EndToldOnce).
THEOREM EndsAreToldOnce == FollowSpec => []EndToldOnce
<1>1. FollowInit => FollowInv
  <2> SUFFICES ASSUME FollowInit PROVE FollowInv
    OBVIOUS
  <2>1. \A s \in Slots : request[s] = NoRequest
    BY DEF FollowInit
  <2>2. FollowTypes
    BY NoRequestAsked DEF FollowInit, FollowTypes
  <2>3. \A j \in Jobs : told[j] = 0
    BY DEF FollowInit
  <2>4. Ended /\ ToldOver /\ Untold
    BY <2>3 DEF Ended, ToldOver, Untold, FollowInit
  <2>5. \A s \in Slots : Answered(request[s])
    BY <2>1, NoRequestAsked DEF Answered, Tellers
  <2>6. QED BY <2>2, <2>4, <2>5 DEF FollowInv, Sound
<1>2. FollowInv => EndToldOnce
  BY DEF FollowInv, Sound, Ended, ToldOver, Untold, EndToldOnce
<1>3. QED BY <1>1, <1>2, FollowStep, PTL DEF FollowSpec

-----------------------------------------------------------------------------
(* Sign-ins.  What an address has had worked on is paid for by the time    *)
(* its delays took, but for what it is free to fail and what is worked on: *)
(* by the time until now before a failure, until the last failure after.   *)

Entries == [failures : Nat, lockedUntil : Nat, lastFailure : Nat]
Tries == {NoAttempt} \cup [client : Clients, name : Typed]

ThrottleTypes ==
  /\ clock \in Nat /\ overflowed \subseteq Keys
  /\ entries \in [Keys -> Entries]
  /\ trying \in [Threads -> Tries]
  /\ attempts \in [Keys -> Nat] /\ since \in [Keys -> Nat]

On(k) == {t \in Threads : trying[t] # NoAttempt /\ k \in KeysOf(trying[t].client, trying[t].name)}

Allowed(k) == Free(k) + Cardinality(Threads) - 1
Paid(k, s, x) == Allowed(k) * ((x - s) \div BASE_DELAY)

\* The entry e of a key that began to count at s and had a attempts, n of them
\* under way, at the time x.
Fits(k, e, a, n, s, x) ==
  /\ s <= x /\ e.lastFailure <= x
  /\ e.failures > 0 => s <= e.lastFailure
  /\ e.failures < Free(k) => e.lockedUntil = 0
  /\ e.failures >= Free(k) => e.lockedUntil >= e.lastFailure + BASE_DELAY
  /\ e.failures = 0 => a <= Paid(k, s, x) + n
  /\ 0 < e.failures /\ e.failures < Free(k) => a <= Paid(k, s, e.lastFailure) + e.failures + n
  /\ e.failures >= Free(k) /\ x < e.lockedUntil => a <= Paid(k, s, e.lastFailure) + Allowed(k)
  /\ e.failures >= Free(k) /\ x >= e.lockedUntil => a <= Paid(k, s, e.lastFailure) + Allowed(k) + n

ThrottleInv ==
  /\ ThrottleTypes
  /\ \A k \in Keys \ overflowed : Fits(k, entries[k], attempts[k], Cardinality(On(k)), since[k], clock)

LEMMA Constants ==
  /\ BASE_DELAY \in Nat \ {0} /\ FORGET_AFTER \in Nat /\ BASE_DELAY <= FORGET_AFTER
  /\ Cardinality(Threads) \in Nat
  /\ \A k \in Keys : Free(k) \in Nat \ {0} /\ Allowed(k) \in Nat /\ Allowed(k) >= Cardinality(Threads)
<1>1. Cardinality(Threads) \in Nat
  BY ThrottleAssumption, FS_CardinalityType
<1>2. \A k \in Keys : Free(k) \in Nat \ {0}
  BY ThrottleAssumption DEF Free
<1>3. QED BY ThrottleAssumption, <1>1, <1>2 DEF Allowed

LEMMA QuotientGrows ==
  ASSUME NEW b \in Nat \ {0}, NEW x \in Nat, NEW y \in Nat, x <= y
  PROVE  x \div b \in Nat /\ y \div b \in Nat /\ x \div b <= y \div b
OBVIOUS

LEMMA QuotientSteps ==
  ASSUME NEW b \in Nat \ {0}, NEW x \in Nat, NEW y \in Nat, x + b <= y
  PROVE  (x \div b) + 1 <= y \div b
OBVIOUS

LEMMA TimesGrows ==
  ASSUME NEW w \in Nat, NEW x \in Nat, NEW y \in Nat, x <= y
  PROVE  w * x \in Nat /\ w * x <= w * y
OBVIOUS

LEMMA TimesSteps ==
  ASSUME NEW w \in Nat, NEW x \in Nat
  PROVE  w * (x + 1) = w * x + w
OBVIOUS

\* What is paid for grows with time, and by all that is allowed in a delay.
LEMMA PaidGrows ==
  ASSUME NEW k \in Keys, NEW s \in Nat, NEW x \in Nat, NEW y \in Nat, s <= x, x <= y
  PROVE  Paid(k, s, x) \in Nat /\ Paid(k, s, y) \in Nat /\ Paid(k, s, x) <= Paid(k, s, y)
<1>1. x - s \in Nat /\ y - s \in Nat /\ x - s <= y - s
  OBVIOUS
<1>2. /\ (x - s) \div BASE_DELAY \in Nat /\ (y - s) \div BASE_DELAY \in Nat
      /\ (x - s) \div BASE_DELAY <= (y - s) \div BASE_DELAY
  BY <1>1, Constants, QuotientGrows
<1>3. QED BY <1>2, Constants, TimesGrows DEF Paid

LEMMA PaidAfterDelay ==
  ASSUME NEW k \in Keys, NEW s \in Nat, NEW x \in Nat, NEW y \in Nat, s <= x, x + BASE_DELAY <= y
  PROVE  Paid(k, s, x) \in Nat /\ Paid(k, s, x) + Allowed(k) <= Paid(k, s, y)
<1>1. x - s \in Nat /\ y - s \in Nat /\ (x - s) + BASE_DELAY <= y - s
  BY Constants
<1>2. /\ (x - s) \div BASE_DELAY \in Nat /\ (y - s) \div BASE_DELAY \in Nat
      /\ (x - s) \div BASE_DELAY + 1 <= (y - s) \div BASE_DELAY
  BY <1>1, Constants, QuotientSteps, QuotientGrows
<1> DEFINE p == (x - s) \div BASE_DELAY
           q == (y - s) \div BASE_DELAY
<1> HIDE DEF p, q
<1>3. p \in Nat /\ q \in Nat /\ p + 1 <= q
  BY <1>2 DEF p, q
<1>4. /\ Allowed(k) * (p + 1) = Allowed(k) * p + Allowed(k) /\ Allowed(k) * p \in Nat
      /\ Allowed(k) * (p + 1) <= Allowed(k) * q
  BY <1>3, Constants, TimesSteps, TimesGrows
<1>5. QED BY <1>4 DEF p, q, Paid

LEMMA PaidNothing ==
  ASSUME NEW k \in Keys, NEW s \in Nat
  PROVE  Paid(k, s, s) = 0
<1>1. 0 \div BASE_DELAY = 0
  BY Constants
<1>2. QED BY <1>1, Constants DEF Paid

-----------------------------------------------------------------------------
(* What each call does to a key's entry.                                   *)

\* What is known of a key and of an entry that fits it.
Reads(k, e, s, x) ==
  /\ e.failures \in Nat /\ e.lockedUntil \in Nat /\ e.lastFailure \in Nat
  /\ Free(k) \in Nat \ {0} /\ Allowed(k) \in Nat /\ Cardinality(Threads) \in Nat
  /\ Allowed(k) = Free(k) + Cardinality(Threads) - 1 /\ BASE_DELAY \in Nat \ {0}
  /\ s <= x /\ e.lastFailure <= x /\ (x - s) \div BASE_DELAY \in Nat /\ Paid(k, s, x) \in Nat
  /\ e.failures > 0 =>
       /\ s <= e.lastFailure
       /\ Paid(k, s, e.lastFailure) \in Nat /\ Paid(k, s, e.lastFailure) <= Paid(k, s, x)
       /\ e.lastFailure + BASE_DELAY <= x => Paid(k, s, e.lastFailure) + Allowed(k) <= Paid(k, s, x)

LEMMA FitsReads ==
  ASSUME NEW k \in Keys, NEW e \in Entries, NEW a \in Nat, NEW n \in Nat, NEW s \in Nat, NEW x \in Nat,
         Fits(k, e, a, n, s, x)
  PROVE  Reads(k, e, s, x)
<1>1. /\ e.failures \in Nat /\ e.lockedUntil \in Nat /\ e.lastFailure \in Nat
      /\ s <= x /\ e.lastFailure <= x /\ (e.failures > 0 => s <= e.lastFailure)
  BY DEF Entries, Fits
<1>2. /\ Free(k) \in Nat \ {0} /\ Allowed(k) \in Nat /\ Cardinality(Threads) \in Nat
      /\ Allowed(k) = Free(k) + Cardinality(Threads) - 1 /\ BASE_DELAY \in Nat \ {0}
  BY Constants DEF Allowed
<1>3. Paid(k, s, x) \in Nat
  BY <1>1, PaidGrows
<1>4. (x - s) \div BASE_DELAY \in Nat
  <2>1. x - s \in Nat
    BY <1>1
  <2>2. QED BY <1>2, <2>1, QuotientGrows
<1>5. ASSUME e.failures > 0
      PROVE  /\ Paid(k, s, e.lastFailure) \in Nat /\ Paid(k, s, e.lastFailure) <= Paid(k, s, x)
             /\ e.lastFailure + BASE_DELAY <= x => Paid(k, s, e.lastFailure) + Allowed(k) <= Paid(k, s, x)
  BY <1>1, <1>5, PaidGrows, PaidAfterDelay
<1>6. QED BY <1>1, <1>2, <1>3, <1>4, <1>5 DEF Reads

LEMMA FitsForgotten ==
  ASSUME NEW k \in Keys, NEW e \in Entries, NEW a \in Nat, NEW n \in Nat, NEW s \in Nat, NEW x \in Nat,
         Fits(k, e, a, n, s, x), e.failures > 0, x - e.lastFailure > FORGET_AFTER, x >= e.lockedUntil
  PROVE  Fits(k, NoEntry, a, n, s, x)
<1>0. Reads(k, e, s, x)
  BY FitsReads
<1>1. s <= e.lastFailure /\ e.lastFailure + BASE_DELAY <= x
  BY <1>0, Constants DEF Reads
<1>2. a <= Paid(k, s, x) + n
  BY <1>1, <1>0 DEF Reads, Fits
<1>3. QED BY <1>2, <1>0 DEF Reads, Fits, NoEntry

LEMMA FitsFailed ==
  ASSUME NEW k \in Keys, NEW e \in Entries, NEW a \in Nat, NEW n \in 1 .. Cardinality(Threads),
         NEW s \in Nat, NEW x \in Nat, Fits(k, e, a, n, s, x), NEW f \in Entries,
         f.failures = e.failures + 1, f.lastFailure = x,
         f.failures < Free(k) => f.lockedUntil = e.lockedUntil,
         f.failures >= Free(k) => f.lockedUntil >= x + BASE_DELAY
  PROVE  Fits(k, f, a, n - 1, s, x)
<1>0. Reads(k, e, s, x)
  BY FitsReads
<1>1. f.lockedUntil \in Nat
  BY DEF Entries
<1>2. CASE e.failures = 0
  BY <1>1, <1>2, <1>0 DEF Reads, Fits
<1>3. CASE 0 < e.failures /\ e.failures < Free(k)
  BY <1>1, <1>3, <1>0 DEF Reads, Fits
<1>4. CASE e.failures >= Free(k) /\ x < e.lockedUntil
  BY <1>1, <1>4, <1>0 DEF Reads, Fits
<1>5. CASE e.failures >= Free(k) /\ x >= e.lockedUntil
  <2>1. e.failures > 0 /\ e.lastFailure + BASE_DELAY <= x
    BY <1>5, <1>0 DEF Reads, Fits
  <2>2. QED BY <1>1, <1>5, <2>1, <1>0 DEF Reads, Fits
<1>6. QED BY <1>2, <1>3, <1>4, <1>5, <1>0 DEF Reads

LEMMA FitsTried ==
  ASSUME NEW k \in Keys, NEW e \in Entries, NEW a \in Nat, NEW n \in Nat, NEW s \in Nat, NEW x \in Nat,
         Fits(k, e, a, n, s, x), e.lockedUntil <= x
  PROVE  Fits(k, e, a + 1, n + 1, s, x)
<1>0. Reads(k, e, s, x)
  BY FitsReads
<1>1. QED BY <1>0 DEF Reads, Fits

LEMMA FitsSucceeded ==
  ASSUME NEW k \in Keys, NEW n \in Nat, NEW x \in Nat
  PROVE  Fits(k, NoEntry, n, n, x, x)
<1>1. Free(k) \in Nat \ {0} /\ Paid(k, x, x) = 0
  BY Constants, PaidNothing
<1>2. QED BY <1>1 DEF Fits, NoEntry

LEMMA FitsLater ==
  ASSUME NEW k \in Keys, NEW e \in Entries, NEW a \in Nat, NEW n \in Nat, NEW s \in Nat, NEW x \in Nat,
         Fits(k, e, a, n, s, x)
  PROVE  Fits(k, e, a, n, s, x + 1)
<1>0. Reads(k, e, s, x)
  BY FitsReads
<1>1. x + 1 \in Nat /\ s \in Nat /\ x <= x + 1 /\ s <= x
  BY <1>0 DEF Reads
<1>2. Paid(k, s, x + 1) \in Nat /\ Paid(k, s, x) <= Paid(k, s, x + 1)
  BY <1>1, PaidGrows
<1>3. QED BY <1>2, <1>0 DEF Reads, Fits

LEMMA FitsBound ==
  ASSUME NEW k \in Keys, NEW e \in Entries, NEW a \in Nat, NEW n \in 0 .. Cardinality(Threads),
         NEW s \in Nat, NEW x \in Nat, Fits(k, e, a, n, s, x)
  PROVE  a <= Allowed(k) * (1 + (x - s) \div BASE_DELAY)
<1>0. Reads(k, e, s, x)
  BY FitsReads
<1>1. a <= Paid(k, s, x) + Allowed(k)
  <2>1. CASE e.failures = 0
    BY <2>1, <1>0 DEF Reads, Fits
  <2>2. CASE e.failures > 0 /\ x < e.lastFailure + BASE_DELAY
    BY <2>2, <1>0 DEF Reads, Fits
  <2>3. CASE e.failures > 0 /\ x >= e.lastFailure + BASE_DELAY
    BY <2>3, <1>0 DEF Reads, Fits
  <2>4. QED BY <2>1, <2>2, <2>3, <1>0 DEF Reads
<1>2. Allowed(k) * (1 + (x - s) \div BASE_DELAY) = Paid(k, s, x) + Allowed(k)
  <2>1. (x - s) \div BASE_DELAY \in Nat
    BY <1>0 DEF Reads
  <2>2. QED BY <2>1, Constants, TimesSteps DEF Paid
<1>3. QED BY <1>1, <1>2

-----------------------------------------------------------------------------
(* Keys, attempts under way, and the steps.                                *)

LEMMA KeysAre ==
  ASSUME NEW c \in Clients, NEW u \in Typed
  PROVE  AccountKey(c, u) \in Keys /\ ClientKey(c) \in Keys /\ AccountKey(c, u) # ClientKey(c)
<1>1. KeysOf(c, u) \subseteq Keys
  BY DEF Keys
<1>2. Len(<<c>>) = 1 /\ Len(<<c, Account(u)>>) = 2
  OBVIOUS
<1>3. QED BY <1>1, <1>2 DEF KeysOf, AccountKey, ClientKey

LEMMA TriesAre ==
  /\ NoAttempt \in Tries /\ NoEntry \in Entries
  /\ \A c \in Clients, u \in Typed : [client |-> c, name |-> u] \in Tries /\ [client |-> c, name |-> u] # NoAttempt
  /\ \A w \in Tries : w # NoAttempt => w.client \in Clients /\ w.name \in Typed
BY ThrottleAssumption DEF Tries, NoAttempt, Entries, NoEntry

LEMMA OnIsFinite ==
  ASSUME NEW k
  PROVE  IsFiniteSet(On(k)) /\ Cardinality(On(k)) \in 0 .. Cardinality(Threads)
<1>1. On(k) \subseteq Threads
  BY DEF On
<1>2. QED BY <1>1, ThrottleAssumption, FS_Subset, FS_CardinalityType

\* An attempt that is over is one less for its keys, and for no others.
LEMMA OnLeft ==
  ASSUME ThrottleTypes, NEW t \in Threads, trying[t] # NoAttempt, trying' = [trying EXCEPT ![t] = NoAttempt], NEW k
  PROVE  /\ k \in KeysOf(trying[t].client, trying[t].name) =>
              /\ Cardinality(On(k)) \in 1 .. Cardinality(Threads)
              /\ On(k)' = On(k) \ {t} /\ Cardinality(On(k)') = Cardinality(On(k)) - 1
         /\ k \notin KeysOf(trying[t].client, trying[t].name) => On(k)' = On(k)
<1>1. trying'[t] = NoAttempt /\ \A o \in Threads \ {t} : trying'[o] = trying[o]
  BY DEF ThrottleTypes
<1>2. ASSUME k \in KeysOf(trying[t].client, trying[t].name)
      PROVE  /\ Cardinality(On(k)) \in 1 .. Cardinality(Threads)
             /\ On(k)' = On(k) \ {t} /\ Cardinality(On(k)') = Cardinality(On(k)) - 1
  <2>1. t \in On(k) /\ On(k)' = On(k) \ {t}
    BY <1>1, <1>2 DEF On
  <2>2. Cardinality(On(k) \ {t}) = Cardinality(On(k)) - 1
    BY <2>1, OnIsFinite, FS_RemoveElement
  <2>3. IsFiniteSet(On(k) \ {t})
    BY OnIsFinite, FS_Subset
  <2>4. Cardinality(On(k) \ {t}) \in Nat
    BY <2>3, FS_CardinalityType
  <2>5. QED BY <2>1, <2>2, <2>4, OnIsFinite, Constants
<1>3. k \notin KeysOf(trying[t].client, trying[t].name) => On(k)' = On(k)
  BY <1>1 DEF On
<1>4. QED BY <1>2, <1>3

LEMMA OnBegun ==
  ASSUME ThrottleTypes, NEW t \in Threads, trying[t] = NoAttempt, NEW c \in Clients, NEW u \in Typed,
         trying' = [trying EXCEPT ![t] = [client |-> c, name |-> u]], NEW k
  PROVE  /\ k \in KeysOf(c, u) => Cardinality(On(k)') = Cardinality(On(k)) + 1
         /\ k \notin KeysOf(c, u) => On(k)' = On(k)
<1>1. trying'[t] = [client |-> c, name |-> u] /\ \A o \in Threads \ {t} : trying'[o] = trying[o]
  BY DEF ThrottleTypes
<1>2. ASSUME k \in KeysOf(c, u)
      PROVE  Cardinality(On(k)') = Cardinality(On(k)) + 1
  <2>1. t \notin On(k) /\ On(k)' = On(k) \cup {t}
    BY <1>1, <1>2, TriesAre DEF On
  <2>2. QED BY <2>1, OnIsFinite, FS_AddElement
<1>3. k \notin KeysOf(c, u) => On(k)' = On(k)
  BY <1>1 DEF On
<1>4. QED BY <1>2, <1>3

LEMMA ForgetFits ==
  ASSUME ThrottleTypes
  PROVE  /\ ForgetStale(entries) \in [Keys -> Entries]
         /\ \A k \in Keys, a, n, s \in Nat :
              Fits(k, entries[k], a, n, s, clock) => Fits(k, ForgetStale(entries)[k], a, n, s, clock)
<1>1. ForgetStale(entries) \in [Keys -> Entries]
  BY TriesAre DEF ForgetStale, ThrottleTypes
<1>2. ASSUME NEW k \in Keys, NEW a \in Nat, NEW n \in Nat, NEW s \in Nat, Fits(k, entries[k], a, n, s, clock),
             Stale(entries[k])
      PROVE  Fits(k, NoEntry, a, n, s, clock)
  BY <1>2, FitsForgotten DEF Stale, ThrottleTypes
<1>3. QED BY <1>1, <1>2 DEF ForgetStale

LEMMA FailFits ==
  ASSUME clock \in Nat, NEW k \in Keys, NEW es \in [Keys -> Entries]
  PROVE  /\ Fail(k, es) \in [Keys -> Entries]
         /\ \A i \in Keys \ {k} : Fail(k, es)[i] = es[i]
         /\ ~Overflows(k, es) => \A a, s \in Nat, n \in 1 .. Cardinality(Threads) :
              Fits(k, es[k], a, n, s, clock) => Fits(k, Fail(k, es)[k], a, n - 1, s, clock)
<1> DEFINE due == es[k].failures + 1 >= Free(k) /\ ~Overflows(k, es)
           f == [failures |-> es[k].failures + 1, lastFailure |-> clock,
                 lockedUntil |-> IF due THEN clock + Delay(Over(k, es)) ELSE es[k].lockedUntil]
<1>1. es[k] \in Entries /\ es[k].failures \in Nat /\ es[k].lockedUntil \in Nat /\ Free(k) \in Nat \ {0}
  BY Constants DEF Entries
<1>2. due => Delay(Over(k, es)) \in Nat /\ BASE_DELAY <= Delay(Over(k, es))
  <2>1. due => Over(k, es) \in 0 .. FloatExponent /\ Over(k, es) < FloatExponent
    BY <1>1, ThrottleAssumption DEF Over, Overflows
  <2>2. QED BY <2>1, DelayAssumption
<1>3. f \in Entries
  BY <1>1, <1>2 DEF Entries
<1>4. Fail(k, es) = [es EXCEPT ![k] = f]
  BY DEF Fail
<1>5. ASSUME ~Overflows(k, es), NEW a \in Nat, NEW s \in Nat, NEW n \in 1 .. Cardinality(Threads),
             Fits(k, es[k], a, n, s, clock)
      PROVE  Fits(k, f, a, n - 1, s, clock)
  <2>1. /\ f.failures = es[k].failures + 1 /\ f.lastFailure = clock
        /\ f.failures < Free(k) => f.lockedUntil = es[k].lockedUntil
        /\ f.failures >= Free(k) => f.lockedUntil >= clock + BASE_DELAY
    BY <1>1, <1>2, <1>5, Constants
  <2> HIDE DEF f
  <2>2. QED BY <1>1, <1>3, <1>5, <2>1, FitsFailed
<1> HIDE DEF f
<1>6. QED BY <1>3, <1>4, <1>5

LEMMA AttemptThrottles ==
  ASSUME ThrottleInv, NEW t \in Threads, NEW c \in Clients, NEW u \in Typed, Attempt(t, c, u)
  PROVE  ThrottleInv'
<1> USE DEF ThrottleInv
<1>1. ThrottleTypes'
  BY TriesAre DEF Attempt, ThrottleTypes
<1>2. ASSUME NEW k \in KeysOf(c, u)
      PROVE  entries[k].lockedUntil <= clock
  <2>1. \A i \in KeysOf(c, u) : entries[i].lockedUntil \in Nat /\ Wait(i) \in Nat
    BY KeysAre DEF KeysOf, Wait, ThrottleTypes, Entries
  <2>2. \E x \in {Wait(i) : i \in KeysOf(c, u)} : \A y \in {Wait(i) : i \in KeysOf(c, u)} : y <= x
    <3>1. CASE Wait(AccountKey(c, u)) <= Wait(ClientKey(c))
      BY <2>1, <3>1 DEF KeysOf
    <3>2. CASE Wait(ClientKey(c)) <= Wait(AccountKey(c, u))
      BY <2>1, <3>2 DEF KeysOf
    <3>3. QED BY <2>1, <3>1, <3>2 DEF KeysOf
  <2>3. \A y \in {Wait(i) : i \in KeysOf(c, u)} : y <= RetryAfter(c, u)
    BY <2>2 DEF RetryAfter, Greatest
  <2>4. Wait(k) <= 0
    BY <2>3 DEF Attempt
  <2>5. QED BY <2>1, <2>4 DEF Wait, ThrottleTypes
<1>3. ASSUME NEW k \in Keys \ overflowed'
      PROVE  Fits(k, entries[k], attempts[k], Cardinality(On(k)), since[k], clock)'
  <2>1. /\ Fits(k, entries[k], attempts[k], Cardinality(On(k)), since[k], clock)
        /\ UNCHANGED <<entries, since, clock>>
    BY <1>3 DEF Attempt
  <2>2. CASE k \in KeysOf(c, u)
    <3>1. attempts'[k] = attempts[k] + 1 /\ Cardinality(On(k)') = Cardinality(On(k)) + 1
      BY <2>2, OnBegun DEF Attempt
    <3>2. entries[k] \in Entries /\ attempts[k] \in Nat /\ since[k] \in Nat /\ clock \in Nat /\ Cardinality(On(k)) \in Nat
      BY OnIsFinite, Constants DEF ThrottleTypes
    <3>3. Fits(k, entries[k], attempts[k] + 1, Cardinality(On(k)) + 1, since[k], clock)
      BY <1>2, <2>1, <2>2, <3>2, FitsTried
    <3>4. QED BY <2>1, <3>1, <3>3
  <2>3. CASE k \notin KeysOf(c, u)
    <3>1. attempts'[k] = attempts[k] /\ On(k)' = On(k)
      BY <2>3, OnBegun DEF Attempt
    <3>2. QED BY <2>1, <3>1
  <2>4. QED BY <2>2, <2>3
<1>4. QED BY <1>1, <1>3

LEMMA FailedThrottles ==
  ASSUME ThrottleInv, NEW t \in Threads, Failed(t)
  PROVE  ThrottleInv'
<1> USE DEF ThrottleInv
<1> DEFINE c == trying[t].client
           u == trying[t].name
<1>1. trying[t] # NoAttempt /\ c \in Clients /\ u \in Typed
  BY TriesAre DEF Failed, ThrottleTypes
<1>2. PICK ak \in Keys, ck \in Keys : ak = AccountKey(c, u) /\ ck = ClientKey(c) /\ ak # ck
  BY <1>1, KeysAre
<1>3. PICK kept \in [Keys -> Entries] : kept = ForgetStale(entries)
  BY ForgetFits
<1>4. PICK failed \in [Keys -> Entries] : failed = Fail(ak, kept) /\ \A i \in Keys \ {ak} : failed[i] = kept[i]
  BY FailFits DEF ThrottleTypes
<1>5. /\ entries' = IF Overflows(ak, kept) THEN failed ELSE Fail(ck, failed)
      /\ overflowed' = IF Overflows(ak, kept) THEN overflowed \cup {ak, ck}
                        ELSE IF Overflows(ck, failed) THEN overflowed \cup {ck} ELSE overflowed
  BY <1>2, <1>3, <1>4 DEF Failed, RecordFailure, KeysOf
<1>6. /\ UNCHANGED <<clock, attempts, since>> /\ trying' = [trying EXCEPT ![t] = NoAttempt]
      /\ clock \in Nat
  BY DEF Failed, ThrottleTypes
<1>7. ThrottleTypes'
  <2>1. entries' \in [Keys -> Entries]
    BY <1>5, <1>6, FailFits
  <2>2. overflowed' \subseteq Keys
    BY <1>5 DEF ThrottleTypes
  <2>3. QED BY <1>6, <2>1, <2>2, TriesAre DEF ThrottleTypes
<1>8. ASSUME NEW k \in Keys \ overflowed'
      PROVE  Fits(k, entries[k], attempts[k], Cardinality(On(k)), since[k], clock)'
  <2>1. /\ k \in Keys \ overflowed
        /\ k = ak => ~Overflows(ak, kept)
        /\ k = ck => ~Overflows(ak, kept) /\ ~Overflows(ck, failed)
        /\ \A i \in Keys \ {ck} : entries'[i] = failed[i]
        /\ ~Overflows(ak, kept) => entries' = Fail(ck, failed)
    BY <1>5, <1>6, <1>8, FailFits
  <2>2. attempts[k] \in Nat /\ since[k] \in Nat /\ Cardinality(On(k)) \in Nat
    BY OnIsFinite, Constants DEF ThrottleTypes
  <2>3. Fits(k, kept[k], attempts[k], Cardinality(On(k)), since[k], clock)
    BY <1>3, <2>1, <2>2, ForgetFits
  <2>4. k \in {ak, ck} <=> k \in KeysOf(trying[t].client, trying[t].name)
    BY <1>2 DEF KeysOf
  <2>5. CASE k \in {ak, ck}
    <3>1. Cardinality(On(k)) \in 1 .. Cardinality(Threads) /\ Cardinality(On(k)') = Cardinality(On(k)) - 1
      BY <1>1, <1>6, <2>4, <2>5, OnLeft
    <3>2. CASE k = ak
      <4>1. entries'[ak] = failed[ak]
        BY <1>2, <1>6, <2>1, FailFits
      <4>2. Fits(ak, failed[ak], attempts[ak], Cardinality(On(ak)) - 1, since[ak], clock)
        BY <1>4, <1>6, <2>1, <2>2, <2>3, <3>1, <3>2, FailFits
      <4>3. QED BY <1>6, <3>1, <3>2, <4>1, <4>2
    <3>3. CASE k = ck
      <4>1. failed[ck] = kept[ck]
        BY <1>2, <1>4
      <4>2. Fits(ck, entries'[ck], attempts[ck], Cardinality(On(ck)) - 1, since[ck], clock)
        BY <1>6, <2>1, <2>2, <2>3, <3>1, <3>3, <4>1, FailFits
      <4>3. QED BY <1>6, <3>1, <3>3, <4>2
    <3>4. QED BY <2>5, <3>2, <3>3
  <2>6. CASE k \notin {ak, ck}
    <3>1. On(k)' = On(k)
      BY <1>1, <1>6, <2>4, <2>6, OnLeft
    <3>2. entries'[k] = failed[k] /\ failed[k] = kept[k]
      BY <1>4, <1>6, <2>1, <2>6, FailFits
    <3>3. QED BY <1>6, <2>3, <3>1, <3>2
  <2>7. QED BY <2>5, <2>6
<1>9. QED BY <1>7, <1>8

LEMMA SucceededThrottles ==
  ASSUME ThrottleInv, NEW t \in Threads, Succeeded(t)
  PROVE  ThrottleInv'
<1> USE DEF ThrottleInv
<1> DEFINE keys == KeysOf(trying[t].client, trying[t].name)
<1>1. /\ trying[t] # NoAttempt /\ clock' = clock /\ overflowed' = overflowed \ keys /\ trying' = [trying EXCEPT ![t] = NoAttempt]
      /\ entries' = [k \in Keys |-> IF k \in keys THEN NoEntry ELSE entries[k]]
      /\ attempts' = [k \in Keys |-> IF k \in keys THEN Cardinality(Under(k, t)) ELSE attempts[k]]
      /\ since' = [k \in Keys |-> IF k \in keys THEN clock ELSE since[k]]
  BY DEF Succeeded
<1>2. \A k : Under(k, t) = On(k) \ {t} /\ Cardinality(Under(k, t)) \in Nat
  <2>1. ASSUME NEW k
        PROVE  Under(k, t) = On(k) \ {t} /\ Cardinality(Under(k, t)) \in Nat
    <3>1. Under(k, t) = On(k) \ {t}
      BY DEF Under, On
    <3>2. IsFiniteSet(On(k) \ {t})
      BY OnIsFinite, FS_Subset
    <3>3. QED BY <3>1, <3>2, FS_CardinalityType
  <2>2. QED BY <2>1
<1>3. ThrottleTypes'
  BY <1>1, <1>2, TriesAre DEF ThrottleTypes
<1>4. ASSUME NEW k \in Keys \ overflowed'
      PROVE  Fits(k, entries[k], attempts[k], Cardinality(On(k)), since[k], clock)'
  <2>1. CASE k \in keys
    <3>1. On(k)' = On(k) \ {t}
      BY <1>1, <2>1, OnLeft
    <3>2. /\ entries'[k] = NoEntry /\ since'[k] = clock /\ clock' = clock
          /\ attempts'[k] = Cardinality(Under(k, t)) /\ Cardinality(On(k)') = Cardinality(Under(k, t))
      BY <1>1, <1>2, <2>1, <3>1
    <3>3. Fits(k, NoEntry, Cardinality(Under(k, t)), Cardinality(Under(k, t)), clock, clock)
      BY <1>2, FitsSucceeded DEF ThrottleTypes
    <3>4. QED BY <3>2, <3>3
  <2>2. CASE k \notin keys
    <3>1. On(k)' = On(k)
      BY <1>1, <2>2, OnLeft
    <3>2. entries'[k] = entries[k] /\ since'[k] = since[k] /\ attempts'[k] = attempts[k] /\ clock' = clock
      BY <1>1, <2>2
    <3>3. k \in Keys \ overflowed
      BY <1>1, <1>4, <2>2
    <3>4. QED BY <3>1, <3>2, <3>3
  <2>3. QED BY <2>1, <2>2
<1>5. QED BY <1>3, <1>4

LEMMA PassThrottles ==
  ASSUME ThrottleInv, Pass
  PROVE  ThrottleInv'
<1> USE DEF ThrottleInv
<1>1. /\ clock \in Nat /\ clock' = clock + 1
      /\ UNCHANGED <<entries, trying, attempts, since, overflowed>>
  BY DEF Pass, ThrottleTypes
<1>2. ThrottleTypes'
  BY <1>1 DEF ThrottleTypes
<1>3. ASSUME NEW k \in Keys \ overflowed'
      PROVE  Fits(k, entries[k], attempts[k], Cardinality(On(k)), since[k], clock)'
  <2>1. On(k)' = On(k)
    BY <1>1 DEF On
  <2>2. entries[k] \in Entries /\ attempts[k] \in Nat /\ since[k] \in Nat /\ Cardinality(On(k)) \in Nat
    BY OnIsFinite, Constants DEF ThrottleTypes
  <2>3. Fits(k, entries[k], attempts[k], Cardinality(On(k)), since[k], clock + 1)
    BY <1>1, <1>3, <2>2, FitsLater
  <2>4. QED BY <1>1, <2>1, <2>3
<1>4. QED BY <1>2, <1>3

LEMMA ThrottleStep == ThrottleInv /\ [ThrottleNext]_throttleVars => ThrottleInv'
<1> SUFFICES ASSUME ThrottleInv, [ThrottleNext]_throttleVars PROVE ThrottleInv'
  OBVIOUS
<1>1. CASE UNCHANGED throttleVars
  BY <1>1 DEF throttleVars, ThrottleInv, ThrottleTypes, On
<1>2. QED BY <1>1, AttemptThrottles, FailedThrottles, SucceededThrottles, PassThrottles DEF ThrottleNext

LEMMA ThrottleStart == ThrottleInit => ThrottleInv
<1> SUFFICES ASSUME ThrottleInit PROVE ThrottleInv
  OBVIOUS
<1>1. ThrottleTypes
  BY TriesAre DEF ThrottleInit, ThrottleTypes
<1>2. ASSUME NEW k \in Keys
      PROVE  Fits(k, entries[k], attempts[k], Cardinality(On(k)), since[k], clock)
  <2>1. On(k) = {}
    BY DEF ThrottleInit, On
  <2>2. Cardinality(On(k)) = 0
    BY <2>1, FS_EmptySet
  <2>3. entries[k] = NoEntry /\ attempts[k] = 0 /\ since[k] = 0 /\ clock = 0
    BY DEF ThrottleInit
  <2>4. QED BY <2>2, <2>3, FitsSucceeded
<1>3. QED BY <1>1, <1>2 DEF ThrottleInv

\* However many names are tried and attempts come at once, the passwords an
\* address makes the server work on are bounded by what it is free to fail and
\* the time since its last success, for any delays that grow and any number of
\* threads; a delay that overflows takes the bound off its own keys alone
\* (WorkIsBounded).
THEOREM SignInWorkIsBounded == ThrottleSpec => []WorkIsBounded
<1>1. ThrottleInv => WorkIsBounded
  <2> SUFFICES ASSUME ThrottleInv, NEW k \in Keys \ overflowed
               PROVE  attempts[k] <= (Free(k) + Cardinality(Threads) - 1) * (1 + (clock - since[k]) \div BASE_DELAY)
    BY DEF WorkIsBounded
  <2>1. /\ Fits(k, entries[k], attempts[k], Cardinality(On(k)), since[k], clock)
        /\ entries[k] \in Entries /\ attempts[k] \in Nat /\ since[k] \in Nat /\ clock \in Nat
        /\ Cardinality(On(k)) \in 0 .. Cardinality(Threads)
    BY OnIsFinite DEF ThrottleInv, ThrottleTypes
  <2>2. QED BY <2>1, FitsBound DEF Allowed
<1>2. QED BY <1>1, ThrottleStart, ThrottleStep, PTL DEF ThrottleSpec

-----------------------------------------------------------------------------
(* Bringing the schema up to date.  While nobody is done the database is   *)
(* on its way: from a release, of whose pending statements some have been  *)
(* committed one by one (Climbing), or from before there were revisions    *)
(* (Adopting).  A process is then about to upgrade, or at a place of the   *)
(* pending statements that has been passed already - it is bound to be     *)
(* refused, for what is committed cannot be run twice - or it is the one   *)
(* that goes further.  Only a transaction that runs all that is left leads *)
(* to what the classes declare (AtHead), and there what is still under way *)
(* is refused or finds nothing to do.  That is the inductive invariant.    *)

Line(n, x) ==
  IF x <= Len(Pending[n]) THEN Pending[n][x]
  ELSE IF x = Len(Pending[n]) + 1 THEN Do("commit", 0) ELSE Do("check", 0)
Ahead(n, i) == [x \in 1..(Len(Pending[n]) + 2 - i) |-> Line(n, i + x)]

Closing == <<Do("commit", 0), Do("check", 0)>>
Recording == {<<Do("stamp", 1)>>, <<Do("ensure", 0), Do("insert", 1)>>, <<Do("insert", 1)>>, <<Do("update", 1)>>}

Running == {p \in Processes : at[p] = "running"}

\* From a release n, of whose pending statements k have been committed.
Climbs(p, n, k) ==
  \/ todo[p] = Upgrading /\ writer # p
  \/ \E i \in 0..Len(Pending[n]) :
       /\ todo[p] = Ahead(n, i)
       /\ IF writer = p THEN k < i /\ k + 1 \notin Alone(n) /\ draft = Stages[n][i] ELSE i <= k
Sole(n, k) ==
  \A p, q \in Running : \A i, j \in k..Len(Pending[n]) : todo[p] = Ahead(n, i) /\ todo[q] = Ahead(n, j) => p = q
Climbing(n, k) ==
  /\ k \in Alone(n) /\ disk = Stages[n][k]
  /\ (\A p \in Running : Climbs(p, n, k)) /\ (k # 0 => Sole(n, k))

\* From a database that was not under version control.
Adopts(p) ==
  \/ /\ writer # p
     /\ \/ todo[p] = Ahead(0, 0)
        \/ todo[p] = <<Do("stamp", 1)>> \o Upgrading
        \/ todo[p] = <<Do("ensure", 0), Do("insert", 1)>> \o Upgrading
        \/ disk.versioned = TRUE /\ todo[p] = <<Do("insert", 1)>> \o Upgrading
        \/ disk.versioned = TRUE /\ todo[p] = Upgrading
  \/ writer = p /\ draft = Released[1] /\ todo[p] = Upgrading
  \/ writer = p /\ \E i \in 0..Len(Pending[1]) : draft = Stages[1][i] /\ todo[p] = Ahead(1, i)
Adopting ==
  /\ \E v \in BOOLEAN : disk = Database(Released[1].tables, Released[1].copies, v, {})
  /\ \A p \in Running : Adopts(p)

IsDatabase(db) == db = Database(db.tables, db.copies, db.versioned, db.rows)

\* On what the classes declare.
Doomed(p, n, i) ==
  /\ todo[p] = Ahead(n, i)
  /\ \E j \in (i + 1)..Len(Pending[n]) : Makes(Pending[n][j])
  /\ IF writer = p
     THEN IsDatabase(draft)
          /\ DOMAIN Metadata \subseteq DOMAIN draft.tables
     ELSE i \in Alone(n) /\ (n = 0 => i = 0)
Stays(p) ==
  \/ /\ Declared(View(p))
     /\ \/ todo[p] = Upgrading
        \/ \E r \in Recording : todo[p] = r \o Upgrading
        \/ HeadRevision \in View(p).rows /\ todo[p] \in {Closing, <<Do("check", 0)>>, <<>>}
  \/ \E n \in 0..(HeadRevision - 1) : \E i \in 0..Len(Pending[n]) : Doomed(p, n, i)
AtHead == Declared(disk) /\ HeadRevision \in disk.rows /\ \A p \in Running : Stays(p)

MigrateTypes ==
  /\ at \in [Processes -> {"off", "running", "done", "failed"}] /\ DOMAIN todo = Processes
  /\ writer # Nobody => writer \in Running
MigrateInv ==
  /\ MigrateTypes /\ torn = FALSE
  /\ \/ AtHead
     \/ /\ \A p \in Processes : at[p] # "done"
        /\ Adopting \/ \E n \in 1..(HeadRevision - 1) : \E k \in Alone(n) : Climbing(n, k)

-----------------------------------------------------------------------------
(* The place a process has come to.                                        *)

\* The order of the natural numbers, as the library's theorem has it.
LEMMA NatOrder == ASSUME NEW x \in Nat, NEW y \in Nat PROVE <<x, y>> \in OpToRel(<, Nat) <=> x < y
  BY DEF OpToRel

\* A nonempty set of natural numbers has a least.
LEMMA LeastExists == ASSUME NEW S, S \subseteq Nat, S # {} PROVE \E x \in S : \A y \in S : x <= y
<1>1. \E x \in S : \A y \in S : ~(<<y, x>> \in OpToRel(<, Nat))
  BY NatLessThanWellFounded, WFMin
<1>2. PICK x \in S : \A y \in S : ~(<<y, x>> \in OpToRel(<, Nat)) BY <1>1
<1>3. ASSUME NEW y \in S PROVE x <= y
  <2>1. x \in Nat /\ y \in Nat OBVIOUS
  <2>2. ~(y < x) BY <1>2, <2>1, NatOrder
  <2> QED BY <2>1, <2>2
<1> QED BY <1>3

\* The pending statements are a sequence.
LEMMA PendingShape ==
  ASSUME NEW n \in 0..HeadRevision
  PROVE /\ n \in Nat /\ HeadRevision \in Nat /\ HeadRevision > 1 /\ Len(Pending[n]) \in Nat
        /\ Pending[n] \in Seq({Pending[n][k] : k \in 1..Len(Pending[n])})
<1>1. n \in Nat /\ HeadRevision \in Nat /\ HeadRevision > 1 /\ Len(Pending[n]) \in Nat BY SchemaAssumption
<1>2. Pending[n] = [k \in 1..Len(Pending[n]) |-> Pending[n][k]] BY SchemaAssumption
<1> HIDE SchemaAssumption
<1>3. Pending[n] \in Seq({Pending[n][k] : k \in 1..Len(Pending[n])}) BY <1>1, <1>2, SMT
<1> QED BY <1>1, <1>3

\* The tail of a sequence, place by place.
LEMMA TailOf ==
  ASSUME NEW m \in Nat, NEW s, s = [x \in 1..(m + 1) |-> s[x]]
  PROVE s # <<>> /\ Tail(s) = [x \in 1..m |-> s[x + 1]]
<1>1. s \in Seq({s[x] : x \in 1..(m + 1)}) /\ Len(s) = m + 1 BY SMT
<1>2. Tail(s) = [x \in 1..m |-> s[x + 1]] BY <1>1, SMT
<1> QED BY <1>1, <1>2, SMT

\* What is ahead of a process, a statement later.
LEMMA AheadStep ==
  ASSUME NEW n \in 0..HeadRevision, NEW i \in 0..(Len(Pending[n]) + 1)
  PROVE /\ Ahead(n, i) # <<>> /\ Ahead(n, i)[1] = Line(n, i + 1)
        /\ Tail(Ahead(n, i)) = Ahead(n, i + 1)
<1> DEFINE m == Len(Pending[n]) + 1 - i
<1>1. Len(Pending[n]) \in Nat /\ i \in Nat /\ m \in Nat BY PendingShape, SMT
<1>2. Ahead(n, i) = [x \in 1..(m + 1) |-> Line(n, i + x)] BY <1>1, SMT DEF Ahead
<1>3. Ahead(n, i + 1) = [x \in 1..m |-> Line(n, i + 1 + x)] BY <1>1, SMT DEF Ahead
<1> HIDE DEF m
<1>4. Ahead(n, i) = [x \in 1..(m + 1) |-> Ahead(n, i)[x]] BY <1>2
<1>5. Ahead(n, i) # <<>> /\ Tail(Ahead(n, i)) = [x \in 1..m |-> Ahead(n, i)[x + 1]] BY <1>1, <1>4, TailOf
<1>6. Ahead(n, i)[1] = Line(n, i + 1) BY <1>1, <1>2, SMT
<1>7. \A x \in 1..m : Ahead(n, i)[x + 1] = Line(n, i + 1 + x)
  <2> TAKE x \in 1..m
  <2>1. x + 1 \in 1..(m + 1) /\ i + (x + 1) = i + 1 + x BY <1>1, SMT
  <2> QED BY <1>2, <2>1
<1> QED BY <1>3, <1>5, <1>6, <1>7

\* It tells the place it has come to.
LEMMA AheadPlace ==
  ASSUME NEW n \in 0..HeadRevision, NEW i \in 0..Len(Pending[n]), NEW j \in 0..Len(Pending[n]), Ahead(n, i) = Ahead(n, j)
  PROVE i = j
<1>1. Len(Pending[n]) \in Nat /\ i \in Nat /\ j \in Nat BY PendingShape, SMT
<1>2. DOMAIN Ahead(n, i) = 1..(Len(Pending[n]) + 2 - i) /\ DOMAIN Ahead(n, j) = 1..(Len(Pending[n]) + 2 - j)
  BY DEF Ahead
<1>3. 1..(Len(Pending[n]) + 2 - i) = 1..(Len(Pending[n]) + 2 - j) BY <1>2
<1> QED BY <1>1, <1>3, SMT

\* What an upgrade from a release decides to run.
LEMMA WholeAhead ==
  ASSUME NEW n \in 0..HeadRevision
  PROVE Pending[n] \o <<Do("commit", 0), Do("check", 0)>> = Ahead(n, 0)
<1> DEFINE s == Pending[n]
<1>1. s \in Seq({s[k] : k \in 1..Len(s)}) /\ Len(s) \in Nat BY PendingShape
<1> HIDE DEF s
<1>2. s \o <<Do("commit", 0), Do("check", 0)>>
      = [x \in 1..(Len(s) + 2) |-> IF x <= Len(s) THEN s[x] ELSE IF x = Len(s) + 1 THEN Do("commit", 0) ELSE Do("check", 0)]
  BY <1>1, SMT
<1>3. Ahead(n, 0)
      = [x \in 1..(Len(s) + 2) |-> IF x <= Len(s) THEN s[x] ELSE IF x = Len(s) + 1 THEN Do("commit", 0) ELSE Do("check", 0)]
  BY <1>1, SMT DEF Ahead, Line, s
<1> QED BY <1>2, <1>3 DEF s

\* What the statements ahead are.
LEMMA LineShape ==
  ASSUME NEW n \in 0..HeadRevision, NEW i \in 0..Len(Pending[n])
  PROVE /\ i = Len(Pending[n]) => Line(n, i + 1) = Do("commit", 0)
        /\ i < Len(Pending[n]) => /\ Line(n, i + 1) = Pending[n][i + 1] /\ ~Queries(Line(n, i + 1))
                                  /\ Line(n, i + 1).do # "commit" /\ Line(n, i + 1).do # "stamp"
<1>1. Len(Pending[n]) \in Nat /\ i \in Nat BY PendingShape, SMT
<1>2. i < Len(Pending[n]) => i + 1 \in 1..Len(Pending[n]) BY <1>1, SMT
<1>3. i < Len(Pending[n]) => ~Queries(Pending[n][i + 1]) /\ Pending[n][i + 1].do # "commit" BY <1>2, SchemaAssumption
<1>4. i < Len(Pending[n]) => Line(n, i + 1) = Pending[n][i + 1] BY <1>1, SMT DEF Line
<1>5. i = Len(Pending[n]) => Line(n, i + 1) = Do("commit", 0) BY <1>1, SMT DEF Line
<1> QED BY <1>3, <1>4, <1>5 DEF Queries

\* The stages of a release follow one another.
LEMMA StagesStep ==
  ASSUME NEW n \in 1..HeadRevision
  PROVE /\ Stages[n][0] = Released[n]
        /\ \A k \in 1..Len(Pending[n]) : Stages[n][k] = Effect(Stages[n][k - 1], Pending[n][k])
<1> DEFINE D == Len(Pending[n])
           R == Released[n]
           E(db, k) == Effect(db, Pending[n][k])
           IsUpTo(f, m) == f = [k \in 0..m |-> IF k = 0 THEN R ELSE E(f[k - 1], k)]
           made[k \in 0..D] == IF k = 0 THEN R ELSE E(made[k - 1], k)
<1>1. D \in Nat BY PendingShape, SMT
<1>2. Stages[n] = made BY DEF Stages
<1> HIDE DEF D, R, E
<1>3. \A m \in Nat : \E f : IsUpTo(f, m)
  <2> DEFINE Bad == {m \in Nat : ~\E f : IsUpTo(f, m)}
  <2> HIDE DEF IsUpTo
  <2> SUFFICES ASSUME Bad # {} PROVE FALSE OBVIOUS
  <2>0. Bad \subseteq Nat OBVIOUS
  <2>a. \E m \in Bad : \A l \in Bad : m <= l
    <3> HIDE DEF Bad
    <3> QED BY <2>0, LeastExists
  <2>b. PICK m \in Bad : \A l \in Bad : m <= l BY <2>a
  <2>1. m \in Nat /\ ~(\E f : IsUpTo(f, m)) /\ \A l \in Nat : ~(\E f : IsUpTo(f, l)) => m <= l BY <2>b
  <2>2. CASE m = 0
    <3>1. IsUpTo([k \in 0..m |-> R], m) BY <2>2, SMT DEF IsUpTo
    <3> QED BY <2>1, <3>1
  <2>3. CASE m # 0
    <3>1. m - 1 \in Nat /\ ~(m <= m - 1) BY <2>1, <2>3, SMT
    <3>2. PICK g : IsUpTo(g, m - 1) BY <2>1, <3>1
    <3> DEFINE f == [k \in 0..m |-> IF k = 0 THEN R ELSE E(g[k - 1], k)]
    <3>3. \A k \in 0..(m - 1) : f[k] = g[k]
      <4> TAKE k \in 0..(m - 1)
      <4>1. k \in 0..m BY <2>1, SMT
      <4>2. g[k] = IF k = 0 THEN R ELSE E(g[k - 1], k) BY <3>2 DEF IsUpTo
      <4> QED BY <4>1, <4>2
    <3>4. \A k \in 0..m : k # 0 => f[k - 1] = g[k - 1]
      <4> SUFFICES ASSUME NEW k \in 0..m, k # 0 PROVE f[k - 1] = g[k - 1] OBVIOUS
      <4>1. k - 1 \in 0..(m - 1) BY <2>1, SMT
      <4> QED BY <3>3, <4>1
    <3> HIDE DEF f
    <3>5. f = [k \in 0..m |-> IF k = 0 THEN R ELSE E(g[k - 1], k)] BY DEF f
    <3>6. \A k \in 0..m : f[k] = IF k = 0 THEN R ELSE E(f[k - 1], k) BY <3>4, <3>5
    <3>7. f = [k \in 0..m |-> f[k]] BY <3>5
    <3>8. IsUpTo(f, m) BY <3>6, <3>7 DEF IsUpTo
    <3> QED BY <2>1, <3>8
  <2> QED BY <2>2, <2>3
<1>4. \E f : IsUpTo(f, D) BY <1>1, <1>3
<1>5. made = CHOOSE f : IsUpTo(f, D) BY DEF made
<1>6. IsUpTo(made, D) BY <1>4, <1>5
<1> HIDE DEF made
<1>7. made[0] = R /\ \A k \in 1..D : made[k] = E(made[k - 1], k) BY <1>1, <1>6, SMT
<1> QED BY <1>2, <1>7 DEF D, R, E

-----------------------------------------------------------------------------
(* Statements, and what they make of a database.                           *)

\* A statement before a sequence of them.
LEMMA ConsOf ==
  ASSUME NEW a, NEW S, NEW s \in Seq(S)
  PROVE <<a>> \o s # <<>> /\ (<<a>> \o s)[1] = a /\ Tail(<<a>> \o s) = s /\ <<>> \o s = s
<1>1. <<a>> \in Seq({a}) /\ s \in Seq(S \cup {a}) /\ <<a>> \in Seq(S \cup {a}) BY SMT
<1>2. <<a>> \o s # <<>> /\ (<<a>> \o s)[1] = a BY <1>1, SMT
<1>3. Tail(<<a>> \o s) = s BY <1>1, SMT
<1>4. <<>> \o s = s BY SMT
<1> QED BY <1>2, <1>3, <1>4

\* What a statement about alembic_version is.
LEMMA DoFacts ==
  ASSUME NEW d, NEW to
  PROVE Do(d, to).do = d /\ Do(d, to).to = to
BY DEF Do

Statements == {Do("upgrade", HeadRevision), Do("commit", 0), Do("check", 0), Do("stamp", 1), Do("ensure", 0), Do("insert", 1), Do("update", 1)}

\* A process that is about to upgrade, statement by statement.
LEMMA Lists ==
  /\ Closing # <<>> /\ Closing[1] = Do("commit", 0) /\ Tail(Closing) = <<Do("check", 0)>>
  /\ <<Do("check", 0)>> # <<>> /\ <<Do("check", 0)>>[1] = Do("check", 0) /\ Tail(<<Do("check", 0)>>) = <<>>
  /\ Upgrading # <<>> /\ Upgrading[1] = Do("upgrade", HeadRevision) /\ Tail(Upgrading) = Closing
  /\ <<>> \o Closing = Closing /\ <<>> \o Upgrading = Upgrading /\ <<>> \o <<>> = <<>>
  /\ \A s \in Statements : /\ <<s>> \o Upgrading # <<>> /\ (<<s>> \o Upgrading)[1] = s
                           /\ Tail(<<s>> \o Upgrading) = Upgrading
  /\ <<Do("ensure", 0), Do("insert", 1)>> \o Upgrading # <<>>
  /\ (<<Do("ensure", 0), Do("insert", 1)>> \o Upgrading)[1] = Do("ensure", 0)
  /\ Tail(<<Do("ensure", 0), Do("insert", 1)>> \o Upgrading) = <<Do("insert", 1)>> \o Upgrading
<1> USE DEF Statements
<1> HIDE DEF Do
<1>1. Closing \in Seq(Statements) /\ <<Do("check", 0)>> \in Seq(Statements) /\ <<>> \in Seq(Statements) BY SMT DEF Closing
<1>2. Closing # <<>> /\ Closing[1] = Do("commit", 0) /\ Tail(Closing) = <<Do("check", 0)>> BY SMT DEF Closing
<1>3. <<Do("check", 0)>> # <<>> /\ <<Do("check", 0)>>[1] = Do("check", 0) /\ Tail(<<Do("check", 0)>>) = <<>> BY SMT
<1>4. Upgrading # <<>> /\ Upgrading[1] = Do("upgrade", HeadRevision) /\ Tail(Upgrading) = Closing
  BY SMT DEF Upgrading, Closing
<1>5. Upgrading \in Seq(Statements) BY SMT DEF Upgrading
<1>6. <<>> \o Closing = Closing /\ <<>> \o Upgrading = Upgrading /\ <<>> \o <<>> = <<>> BY <1>1, <1>5, ConsOf
<1>7. \A s \in Statements : /\ <<s>> \o Upgrading # <<>> /\ (<<s>> \o Upgrading)[1] = s
                            /\ Tail(<<s>> \o Upgrading) = Upgrading
  BY <1>5, ConsOf
<1>8. <<Do("insert", 1)>> \o Upgrading \in Seq(Statements) BY <1>5, SMT
<1>9. <<Do("ensure", 0), Do("insert", 1)>> \o Upgrading = <<Do("ensure", 0)>> \o (<<Do("insert", 1)>> \o Upgrading)
  BY <1>5, <1>8, SMT
<1>10. /\ <<Do("ensure", 0), Do("insert", 1)>> \o Upgrading # <<>>
       /\ (<<Do("ensure", 0), Do("insert", 1)>> \o Upgrading)[1] = Do("ensure", 0)
       /\ Tail(<<Do("ensure", 0), Do("insert", 1)>> \o Upgrading) = <<Do("insert", 1)>> \o Upgrading
  BY <1>8, <1>9, ConsOf
<1> QED BY <1>2, <1>3, <1>4, <1>6, <1>7, <1>10

\* There are revisions after the first.
LEMMA HeadFacts == HeadRevision \in Nat /\ HeadRevision > 1
BY SchemaAssumption

\* The statements that are committed one by one come first.
LEMMA AloneFacts ==
  ASSUME NEW n \in 0..HeadRevision
  PROVE /\ 0 \in Alone(n) /\ Alone(n) \subseteq 0..Len(Pending[n])
        /\ \A k \in Alone(n) : \A i \in 0..k : i \in Alone(n)
        /\ \A k \in Alone(n) : k < Len(Pending[n]) => (k + 1 \in Alone(n) <=> ~Writes(Pending[n][k + 1]))
        /\ \A k \in Alone(n) : \A j \in 1..k : ~Writes(Pending[n][j])
<1>1. Len(Pending[n]) \in Nat BY PendingShape
<1> QED BY <1>1, SMT DEF Alone

\* What is known of a database that some of them have changed.
LEMMA StageFacts ==
  ASSUME NEW n \in 1..HeadRevision, NEW k \in Alone(n)
  PROVE /\ Stages[n][k] = Database(Stages[n][k].tables, Stages[n][k].copies, TRUE, {n})
        /\ DOMAIN Stages[n][k].tables \cap DOMAIN Metadata # {}
        /\ \A j \in 1..k : ~Possible(Stages[n][k], Pending[n][j])
BY SchemaAssumption

\* The fields of a database that is given by them.
LEMMA FieldsGiven ==
  ASSUME NEW t, NEW c, NEW v, NEW r, NEW db, db = Database(t, c, v, r)
  PROVE db.tables = t /\ db.copies = c /\ db.versioned = v /\ db.rows = r /\ IsDatabase(db)
BY DEF Database, IsDatabase

\* The fields of a database of which two are known.
LEMMA FieldsOf ==
  ASSUME NEW db, NEW v, NEW r, db = Database(db.tables, db.copies, v, r)
  PROVE db.rows = r /\ db.versioned = v /\ IsDatabase(db)
BY DEF Database, IsDatabase

\* It is recorded at the release, and under version control.
LEMMA StageFields ==
  ASSUME NEW n \in 1..HeadRevision, NEW k \in Alone(n)
  PROVE Stages[n][k].rows = {n} /\ Stages[n][k].versioned = TRUE /\ IsDatabase(Stages[n][k])
<1> DEFINE db == Stages[n][k]
<1>1. db = Database(db.tables, db.copies, TRUE, {n}) BY StageFacts
<1> HIDE DEF db
<1>2. db.rows = {n} /\ db.versioned = TRUE /\ IsDatabase(db) BY <1>1, FieldsOf
<1> QED BY <1>2 DEF db

\* Where the pending statements of an earlier release lead.
LEMMA EndFacts ==
  ASSUME NEW n \in 1..(HeadRevision - 1)
  PROVE /\ n \in 1..HeadRevision /\ n \in 0..HeadRevision
        /\ Declared(Stages[n][Len(Pending[n])]) /\ HeadRevision \in Stages[n][Len(Pending[n])].rows
        /\ Len(Pending[n]) \notin Alone(n)
        /\ \E j \in 1..Len(Pending[n]) : Makes(Pending[n][j]) /\ \A k \in Alone(n) : k <= j
<1>1. n \in 1..HeadRevision /\ n \in 0..HeadRevision BY HeadFacts, SMT
<1>2. Declared(Stages[n][Len(Pending[n])]) /\ HeadRevision \in Stages[n][Len(Pending[n])].rows
  BY <1>1, SchemaAssumption
<1>3. /\ Len(Pending[n]) \notin Alone(n)
      /\ \E j \in 1..Len(Pending[n]) : Makes(Pending[n][j]) /\ \A k \in Alone(n) : k <= j
  BY SchemaAssumption
<1> QED BY <1>1, <1>2, <1>3

\* The fields of a database.
LEMMA DatabaseFields ==
  ASSUME NEW t, NEW c, NEW v, NEW r
  PROVE /\ Database(t, c, v, r).tables = t /\ Database(t, c, v, r).copies = c
        /\ Database(t, c, v, r).versioned = v /\ Database(t, c, v, r).rows = r
BY DEF Database

\* The fields of a database with what the classes declare.
LEMMA DeclaredFields ==
  ASSUME NEW db, Declared(db)
  PROVE db.tables = Metadata /\ db.versioned = TRUE /\ IsDatabase(db)
BY DEF Declared, Database, IsDatabase

\* A database of which one thing changes.
LEMMA DatabaseChanges ==
  ASSUME NEW db, IsDatabase(db), NEW new
  PROVE /\ [db EXCEPT !.tables = new] = Database(new, db.copies, db.versioned, db.rows)
        /\ [db EXCEPT !.copies = new] = Database(db.tables, new, db.versioned, db.rows)
        /\ [db EXCEPT !.versioned = new] = Database(db.tables, db.copies, new, db.rows)
        /\ [db EXCEPT !.rows = new] = Database(db.tables, db.copies, db.versioned, new)
BY DEF IsDatabase, Database

\* A database of which two things change.
LEMMA TwoChanges ==
  ASSUME NEW db, IsDatabase(db), NEW new, NEW other
  PROVE [db EXCEPT !.tables = new, !.copies = other] = Database(new, other, db.versioned, db.rows)
<1> DEFINE w == [db EXCEPT !.tables = new]
<1>1. w = Database(new, db.copies, db.versioned, db.rows) BY DatabaseChanges
<1>2. [db EXCEPT !.tables = new, !.copies = other] = [w EXCEPT !.copies = other] OBVIOUS
<1> HIDE DEF w
<1>3. [w EXCEPT !.copies = other] = Database(new, other, db.versioned, db.rows) BY <1>1 DEF Database
<1> QED BY <1>2, <1>3

\* What recording a later revision changes.
LEMMA EffectOfUpdate ==
  ASSUME NEW db, NEW s, IsDatabase(db), s.do = "update"
  PROVE Effect(db, s) = Database(db.tables, db.copies, db.versioned, Moved(db.rows, s.to))
<1> DEFINE new == Moved(db.rows, s.to)
<1>1. Effect(db, s) = [db EXCEPT !.rows = new] BY DEF Effect
<1> HIDE DEF new
<1>2. Effect(db, s) = Database(db.tables, db.copies, db.versioned, new) BY <1>1, DatabaseChanges
<1> QED BY <1>2 DEF new

\* What a statement changes of a database, and what it leaves.
LEMMA Effects ==
  ASSUME NEW db, NEW s, IsDatabase(db)
  PROVE /\ s.do = "create" => Effect(db, s) = Database(With(db.tables, s.table, s.columns), db.copies, db.versioned, db.rows)
        /\ s.do = "add" => Effect(db, s) = Database(Changed(db, s), db.copies, db.versioned, db.rows)
        /\ s.do = "index" => Effect(db, s) = Database(Changed(db, s), db.copies, db.versioned, db.rows)
        /\ s.do = "copy" => Effect(db, s) = Database(db.tables, db.copies \cup {s.table}, db.versioned, db.rows)
        /\ s.do = "ensure" => Effect(db, s) = Database(db.tables, db.copies, TRUE, db.rows)
        /\ s.do = "insert" => Effect(db, s) = Database(db.tables, db.copies, db.versioned, db.rows \cup {s.to})
        /\ s.do = "update" => Effect(db, s) = Database(db.tables, db.copies, db.versioned, Moved(db.rows, s.to))
        /\ s.do = "replace" => Effect(db, s) = Database(Changed(db, s), db.copies \ {s.table}, db.versioned, db.rows)
        /\ s.do \notin {"create", "add", "index", "copy", "replace", "ensure", "insert", "update"} => Effect(db, s) = db
<1>1. s.do = "create" => Effect(db, s) = Database(With(db.tables, s.table, s.columns), db.copies, db.versioned, db.rows)
  <2> DEFINE new == With(db.tables, s.table, s.columns)
  <2>1. s.do = "create" => Effect(db, s) = [db EXCEPT !.tables = new] BY DEF Effect
  <2> HIDE DEF new
  <2>2. s.do = "create" => Effect(db, s) = Database(new, db.copies, db.versioned, db.rows) BY <2>1, DatabaseChanges
  <2> QED BY <2>2 DEF new
<1>2. s.do = "add" => Effect(db, s) = Database(Changed(db, s), db.copies, db.versioned, db.rows)
  <2> DEFINE new == Changed(db, s)
  <2>1. s.do = "add" => Effect(db, s) = [db EXCEPT !.tables = new] BY DEF Effect
  <2> HIDE DEF new
  <2>2. s.do = "add" => Effect(db, s) = Database(new, db.copies, db.versioned, db.rows) BY <2>1, DatabaseChanges
  <2> QED BY <2>2 DEF new
<1>3. s.do = "index" => Effect(db, s) = Database(Changed(db, s), db.copies, db.versioned, db.rows)
  <2> DEFINE new == Changed(db, s)
  <2>1. s.do = "index" => Effect(db, s) = [db EXCEPT !.tables = new] BY DEF Effect
  <2> HIDE DEF new
  <2>2. s.do = "index" => Effect(db, s) = Database(new, db.copies, db.versioned, db.rows) BY <2>1, DatabaseChanges
  <2> QED BY <2>2 DEF new
<1>4. s.do = "copy" => Effect(db, s) = Database(db.tables, db.copies \cup {s.table}, db.versioned, db.rows)
  <2> DEFINE new == db.copies \cup {s.table}
  <2>1. s.do = "copy" => Effect(db, s) = [db EXCEPT !.copies = new] BY DEF Effect
  <2> HIDE DEF new
  <2>2. s.do = "copy" => Effect(db, s) = Database(db.tables, new, db.versioned, db.rows) BY <2>1, DatabaseChanges
  <2> QED BY <2>2 DEF new
<1>5. s.do = "ensure" => Effect(db, s) = Database(db.tables, db.copies, TRUE, db.rows)
  <2> DEFINE new == TRUE
  <2>1. s.do = "ensure" => Effect(db, s) = [db EXCEPT !.versioned = new] BY DEF Effect
  <2> HIDE DEF new
  <2>2. s.do = "ensure" => Effect(db, s) = Database(db.tables, db.copies, new, db.rows) BY <2>1, DatabaseChanges
  <2> QED BY <2>2 DEF new
<1>6. s.do = "insert" => Effect(db, s) = Database(db.tables, db.copies, db.versioned, db.rows \cup {s.to})
  <2> DEFINE new == db.rows \cup {s.to}
  <2>1. s.do = "insert" => Effect(db, s) = [db EXCEPT !.rows = new] BY DEF Effect
  <2> HIDE DEF new
  <2>2. s.do = "insert" => Effect(db, s) = Database(db.tables, db.copies, db.versioned, new) BY <2>1, DatabaseChanges
  <2> QED BY <2>2 DEF new
<1>7. s.do = "update" => Effect(db, s) = Database(db.tables, db.copies, db.versioned, Moved(db.rows, s.to))
  BY EffectOfUpdate
<1>8. s.do = "replace" => Effect(db, s) = Database(Changed(db, s), db.copies \ {s.table}, db.versioned, db.rows)
  <2> DEFINE new == Changed(db, s)
             other == db.copies \ {s.table}
  <2>1. s.do = "replace" => Effect(db, s) = [db EXCEPT !.tables = new, !.copies = other] BY DEF Effect
  <2> HIDE DEF new, other
  <2>2. s.do = "replace" => Effect(db, s) = Database(new, other, db.versioned, db.rows) BY <2>1, TwoChanges
  <2> QED BY <2>2 DEF new, other
<1>9. s.do \notin {"create", "add", "index", "copy", "replace", "ensure", "insert", "update"} => Effect(db, s) = db
  BY DEF Effect
<1> QED BY <1>1, <1>2, <1>3, <1>4, <1>5, <1>6, <1>7, <1>8, <1>9

\* A statement committed by itself changes nothing that is declared.
LEMMA AloneKeeps ==
  ASSUME NEW n \in 1..(HeadRevision - 1), NEW j \in Alone(n) \ {0}, NEW db, Declared(db), Possible(db, Pending[n][j])
  PROVE Declared(Effect(db, Pending[n][j])) /\ Effect(db, Pending[n][j]).rows = db.rows
<1> DEFINE s == Pending[n][j]
           made == Stages[n][Len(Pending[n])]
<1>1. s.do = "copy" \/ (s.do \in {"create", "add", "index"} /\ ~Possible(made, s)) BY SchemaAssumption
<1>2. Declared(made) BY EndFacts
<1> HIDE DEF s, made
<1>3. made.tables = Metadata /\ db.tables = Metadata BY <1>2, DeclaredFields
<1>4. s.do \in {"create", "add", "index"} => (Possible(db, s) <=> Possible(made, s)) BY <1>3 DEF Possible, Has
<1>5. s.do = "copy" BY <1>1, <1>4 DEF s
<1>6. Effect(db, s) = Database(db.tables, db.copies \cup {s.table}, db.versioned, db.rows) BY <1>5, Effects, DeclaredFields
<1>7. db.tables = Metadata /\ db.versioned = TRUE BY DeclaredFields
<1>8. Effect(db, s).copies = db.copies \cup {s.table} /\ Effect(db, s).rows = db.rows BY <1>6, DatabaseFields
<1>9. Declared(Effect(db, s)) BY <1>6, <1>7, <1>8 DEF Declared
<1> QED BY <1>8, <1>9 DEF s

\* What makes a table cannot be run where there is one.
LEMMA MakesFails ==
  ASSUME NEW db, NEW s, Makes(s), DOMAIN Metadata \subseteq DOMAIN db.tables
  PROVE ~Possible(db, s)
BY DEF Makes, Possible, Has

\* No statement drops a table.
LEMMA TablesGrow ==
  ASSUME NEW db, NEW s, IsDatabase(db)
  PROVE IsDatabase(Effect(db, s)) /\ DOMAIN db.tables \subseteq DOMAIN Effect(db, s).tables
<1>1. \A t, c, v, r : IsDatabase(Database(t, c, v, r)) /\ Database(t, c, v, r).tables = t
  BY DatabaseFields DEF IsDatabase
<1>2. \A t, c : DOMAIN db.tables \subseteq DOMAIN With(db.tables, t, c) BY DEF With
<1> DEFINE Grows(d) == IsDatabase(d) /\ DOMAIN db.tables \subseteq DOMAIN d.tables
<1>3. \A c, v, r : Grows(Database(db.tables, c, v, r)) BY <1>1
<1>4. \A t, w, c, v, r : Grows(Database(With(db.tables, t, w), c, v, r)) BY <1>1, <1>2
<1>5. Grows(db) OBVIOUS
<1> SUFFICES Grows(Effect(db, s)) OBVIOUS
<1> HIDE DEF Grows
<1>6. CASE s.do = "create"
  <2>1. Effect(db, s) = Database(With(db.tables, s.table, s.columns), db.copies, db.versioned, db.rows) BY <1>6, Effects
  <2> QED BY <2>1, <1>4
<1>7. CASE s.do = "add"
  <2>1. Effect(db, s) = Database(Changed(db, s), db.copies, db.versioned, db.rows) BY <1>7, Effects
  <2> QED BY <2>1, <1>4 DEF Changed
<1>8. CASE s.do = "index"
  <2>1. Effect(db, s) = Database(Changed(db, s), db.copies, db.versioned, db.rows) BY <1>8, Effects
  <2> QED BY <2>1, <1>4 DEF Changed
<1>9. CASE s.do = "copy"
  <2>1. Effect(db, s) = Database(db.tables, db.copies \cup {s.table}, db.versioned, db.rows) BY <1>9, Effects
  <2> QED BY <2>1, <1>3
<1>10. CASE s.do = "replace"
  <2>1. Effect(db, s) = Database(Changed(db, s), db.copies \ {s.table}, db.versioned, db.rows) BY <1>10, Effects
  <2> QED BY <2>1, <1>4 DEF Changed
<1>11. CASE s.do = "ensure"
  <2>1. Effect(db, s) = Database(db.tables, db.copies, TRUE, db.rows) BY <1>11, Effects
  <2> QED BY <2>1, <1>3
<1>12. CASE s.do = "insert"
  <2>1. Effect(db, s) = Database(db.tables, db.copies, db.versioned, db.rows \cup {s.to}) BY <1>12, Effects
  <2> QED BY <2>1, <1>3
<1>13. CASE s.do = "update"
  <2>1. Effect(db, s) = Database(db.tables, db.copies, db.versioned, Moved(db.rows, s.to)) BY <1>13, Effects
  <2> QED BY <2>1, <1>3
<1>14. CASE s.do \notin {"create", "add", "index", "copy", "replace", "ensure", "insert", "update"} BY <1>14, <1>5, Effects
<1> QED BY <1>6, <1>7, <1>8, <1>9, <1>10, <1>11, <1>12, <1>13, <1>14

\* The greatest of some revisions.
LEMMA LatestIs ==
  ASSUME NEW rows, rows \subseteq 1..HeadRevision, rows # {}
  PROVE Latest(rows) \in rows /\ \A o \in rows : o <= Latest(rows)
<1>1. HeadRevision \in Nat BY HeadFacts
<1> DEFINE Below == {HeadRevision - r : r \in rows}
<1>2. \A r \in rows : HeadRevision - r \in Nat BY <1>1, SMT
<1>3. PICK d \in Below : \A e \in Below : d <= e
  <2>1. Below \subseteq Nat /\ Below # {} BY <1>2
  <2> HIDE DEF Below
  <2> QED BY <2>1, LeastExists
<1>4. PICK r \in rows : d = HeadRevision - r BY <1>3
<1>5. \A o \in rows : o <= r
  <2> TAKE o \in rows
  <2>1. HeadRevision - o \in Below OBVIOUS
  <2>2. d <= HeadRevision - o BY <1>3, <2>1
  <2> QED BY <1>1, <1>4, <2>2, SMT
<1> QED BY <1>5 DEF Latest

-----------------------------------------------------------------------------
(* One step.                                                               *)

\* A step of a process.
Steps(p) == Open(p) \/ Decide(p) \/ Run(p) \/ Commit(p) \/ GiveUp(p) \/ Finish(p) \/ Stop(p)

\* What it leaves to the others.
LEMMA Frame ==
  ASSUME MigrateTypes, NEW p \in Processes, Steps(p)
  PROVE /\ MigrateTypes'
        /\ \A q \in Processes \ {p} :
             /\ at'[q] = at[q] /\ todo'[q] = todo[q] /\ (q \in Running' <=> q \in Running)
             /\ (writer' = q <=> writer = q) /\ (writer = q => draft' = draft)
<1>1. p # Nobody BY NobodyAssumption
<1> USE <1>1 DEF MigrateTypes, Running
<1>2. CASE Open(p) BY <1>2 DEF Open
<1>3. CASE Decide(p) BY <1>3 DEF Decide, Runs
<1>4. CASE Run(p)
  <2>1. /\ at[p] = "running" /\ at' = at /\ todo' = [todo EXCEPT ![p] = Tail(@)] /\ writer \in {p, Nobody}
        /\ writer' \in {p, writer} /\ (writer' # writer \/ draft' = draft \/ writer = p)
    BY <1>4 DEF Run, Runs
  <2> QED BY <2>1, NobodyAssumption
<1>5. CASE Commit(p)
  <2>1. /\ at[p] = "running" /\ at' = at /\ todo' = [todo EXCEPT ![p] = Tail(@)]
        /\ writer' = (IF writer = p THEN Nobody ELSE writer) /\ draft' = (IF writer = p THEN Nothing ELSE draft)
    BY <1>5 DEF Commit, RollBack, Runs
  <2> QED BY <2>1, NobodyAssumption
<1>6. ASSUME NEW how \in {"off", "done", "failed"}, Leave(p, how)
      PROVE /\ MigrateTypes'
            /\ \A q \in Processes \ {p} :
                 /\ at'[q] = at[q] /\ todo'[q] = todo[q] /\ (q \in Running' <=> q \in Running)
                 /\ (writer' = q <=> writer = q) /\ (writer = q => draft' = draft)
  <2>1. /\ at' = [at EXCEPT ![p] = how] /\ todo' = [todo EXCEPT ![p] = <<>>]
        /\ writer' = (IF writer = p THEN Nobody ELSE writer) /\ draft' = (IF writer = p THEN Nothing ELSE draft)
    BY <1>6 DEF Leave, RollBack
  <2> QED BY <2>1, NobodyAssumption
<1>7. CASE GiveUp(p) BY <1>6, <1>7 DEF GiveUp
<1>8. CASE Finish(p) BY <1>6, <1>8 DEF Finish
<1>9. CASE Stop(p) BY <1>6, <1>9 DEF Stop
<1> QED BY <1>2, <1>3, <1>4, <1>5, <1>7, <1>8, <1>9 DEF Steps

\* A process that leaves takes its transaction with it.
LEMMA LeavesDisk ==
  ASSUME MigrateTypes, NEW p \in Processes, GiveUp(p) \/ Finish(p) \/ Stop(p)
  PROVE p \notin Running' /\ disk' = disk
<1>1. \A how \in {"off", "done", "failed"} : Leave(p, how) => at' = [at EXCEPT ![p] = how] /\ disk' = disk BY DEF Leave
<1> QED BY <1>1 DEF MigrateTypes, Running, GiveUp, Finish, Stop

\* What a step makes of the process itself.
LEMMA OpenIs ==
  ASSUME MigrateTypes, NEW p \in Processes, Open(p)
  PROVE p \notin Running /\ writer # p /\ writer' # p /\ todo'[p] = UpgradeToHead(disk) /\ disk' = disk
BY NobodyAssumption DEF MigrateTypes, Open, Running

\* What a decision makes of it.
LEMMA DecideIs ==
  ASSUME MigrateTypes, NEW p \in Processes, Decide(p)
  PROVE /\ p \in Running /\ todo[p] # <<>> /\ Queries(This(p)) /\ Possible(View(p), This(p))
        /\ todo'[p] = Expand(View(p), This(p)) \o Tail(todo[p])
        /\ disk' = disk /\ writer' = writer /\ draft' = draft /\ View(p)' = View(p)
BY DEF MigrateTypes, Decide, Runs, Running, View

\* What a statement makes of it.
LEMMA RunIs ==
  ASSUME MigrateTypes, NEW p \in Processes, Run(p)
  PROVE /\ p \in Running /\ todo[p] # <<>> /\ ~Queries(This(p)) /\ This(p).do # "commit" /\ writer \in {p, Nobody}
        /\ Possible(View(p), This(p)) /\ todo'[p] = Tail(todo[p])
        /\ writer = p \/ Writes(This(p)) => writer' = p /\ draft' = Effect(View(p), This(p)) /\ disk' = disk
        /\ ~(writer = p \/ Writes(This(p))) => disk' = Effect(View(p), This(p)) /\ writer' = Nobody /\ writer = Nobody
        /\ View(p)' = Effect(View(p), This(p))
<1>1. /\ p \in Running /\ todo[p] # <<>> /\ ~Queries(This(p)) /\ This(p).do # "commit" /\ writer \in {p, Nobody}
      /\ Possible(View(p), This(p)) /\ todo'[p] = Tail(todo[p])
  BY DEF MigrateTypes, Run, Runs, Running
<1>2. writer = p \/ Writes(This(p)) => writer' = p /\ draft' = Effect(View(p), This(p)) /\ disk' = disk BY DEF Run
<1>3. ~(writer = p \/ Writes(This(p))) => disk' = Effect(View(p), This(p)) /\ writer' = writer BY DEF Run
<1> QED BY <1>1, <1>2, <1>3, NobodyAssumption DEF View

\* What a commit makes of it.
LEMMA CommitIs ==
  ASSUME MigrateTypes, NEW p \in Processes, Commit(p)
  PROVE /\ p \in Running /\ todo[p] # <<>> /\ This(p).do = "commit" /\ todo'[p] = Tail(todo[p])
        /\ disk' = View(p) /\ writer' # p /\ View(p)' = View(p)
BY NobodyAssumption DEF MigrateTypes, Commit, RollBack, Runs, Running, View

-----------------------------------------------------------------------------
(* Climbing.                                                               *)

\* On the way from a release: what a process has to run.
LEMMA ClimbsThis ==
  ASSUME NEW n \in 0..HeadRevision, NEW p, NEW i \in 0..Len(Pending[n]), todo[p] = Ahead(n, i)
  PROVE /\ todo[p] # <<>> /\ Tail(todo[p]) = Ahead(n, i + 1) /\ ~Queries(This(p)) /\ i \in Nat
        /\ i = Len(Pending[n]) => This(p).do = "commit" /\ Tail(todo[p]) = <<Do("check", 0)>>
        /\ i < Len(Pending[n]) => /\ This(p) = Pending[n][i + 1] /\ This(p).do # "commit"
                                  /\ i + 1 \in 1..Len(Pending[n])
<1>1. Len(Pending[n]) \in Nat /\ i \in Nat /\ i \in 0..(Len(Pending[n]) + 1) BY PendingShape, SMT
<1>2. todo[p] # <<>> /\ Tail(todo[p]) = Ahead(n, i + 1) /\ This(p) = Line(n, i + 1) BY <1>1, AheadStep DEF This
<1>3. i < Len(Pending[n]) => /\ This(p) = Pending[n][i + 1] /\ ~Queries(This(p)) /\ This(p).do # "commit"
  BY <1>2, LineShape
<1>4. i < Len(Pending[n]) => i + 1 \in 1..Len(Pending[n]) BY <1>1, SMT
<1>5. i = Len(Pending[n]) => This(p) = Do("commit", 0) BY <1>2, LineShape
<1>6. i = Len(Pending[n]) => This(p).do = "commit" /\ ~Queries(This(p)) BY <1>5, DoFacts DEF Queries
<1>7. i = Len(Pending[n]) => Ahead(n, i + 1) = <<Do("check", 0)>>
  <2> SUFFICES ASSUME i = Len(Pending[n]) PROVE Ahead(n, i + 1) = <<Do("check", 0)>> OBVIOUS
  <2>1. Len(Pending[n]) + 2 - (i + 1) = 1 BY <1>1, SMT
  <2>2. Ahead(n, i + 1) = [x \in 1..1 |-> Line(n, i + 1 + x)] BY <2>1 DEF Ahead
  <2>3. \A x \in 1..1 : Line(n, i + 1 + x) = Do("check", 0) BY <1>1, SMT DEF Line
  <2>4. Ahead(n, i + 1) = [x \in 1..1 |-> Do("check", 0)] BY <2>2, <2>3
  <2> HIDE DEF Do
  <2>5. [x \in 1..1 |-> Do("check", 0)] = <<Do("check", 0)>> BY SMT
  <2> QED BY <2>4, <2>5
<1>8. i < Len(Pending[n]) \/ i = Len(Pending[n]) BY <1>1, SMT
<1> QED BY <1>1, <1>2, <1>3, <1>4, <1>6, <1>7, <1>8

\* A process that is about to upgrade decides next.
LEMMA UpgradingThis ==
  ASSUME NEW p, todo[p] = Upgrading
  PROVE /\ todo[p] # <<>> /\ This(p) = Do("upgrade", HeadRevision) /\ This(p).do = "upgrade" /\ Tail(todo[p]) = Closing
        /\ Queries(This(p)) /\ This(p).do # "commit"
BY Lists, DoFacts DEF This, Queries

\* One that is not has come to a place of the pending statements.
LEMMA NotUpgrading ==
  ASSUME NEW n \in 0..HeadRevision, NEW i \in 0..Len(Pending[n])
  PROVE Upgrading # Ahead(n, i)
<1>1. Len(Pending[n]) \in Nat /\ i \in 0..(Len(Pending[n]) + 1) /\ (i = Len(Pending[n]) \/ i < Len(Pending[n]))
  BY PendingShape, SMT
<1>2. Ahead(n, i)[1] = Line(n, i + 1) BY <1>1, AheadStep
<1>3. ~Queries(Line(n, i + 1)) BY <1>1, LineShape, DoFacts DEF Queries
<1>4. Queries(Upgrading[1]) BY Lists, DoFacts DEF Queries
<1> QED BY <1>2, <1>3, <1>4

\* A step of one process leaves the others where they may be.
LEMMA ClimbingFrame ==
  ASSUME MigrateTypes, NEW p \in Processes, Steps(p),
         NEW n \in 1..(HeadRevision - 1), NEW k \in Alone(n), Climbing(n, k), disk' = disk,
         p \in Running' => Climbs(p, n, k)',
         \A i \in k..Len(Pending[n]) :
           p \in Running' /\ todo'[p] = Ahead(n, i) /\ k # 0
           => p \in Running /\ \E j \in k..Len(Pending[n]) : todo[p] = Ahead(n, j)
  PROVE Climbing(n, k)'
<1>1. \A q \in Processes \ {p} :
        /\ todo'[q] = todo[q] /\ (q \in Running' <=> q \in Running)
        /\ (writer' = q <=> writer = q) /\ (writer = q => draft' = draft)
  BY Frame
<1>2. \A q \in Running' : Climbs(q, n, k)'
  <2> SUFFICES ASSUME NEW q \in Running', q # p PROVE Climbs(q, n, k)' OBVIOUS
  <2>1. q \in Processes /\ q \in Running BY <1>1 DEF Running
  <2>2. Climbs(q, n, k) BY <2>1 DEF Climbing
  <2> QED BY <1>1, <2>1, <2>2 DEF Climbs
<1>3. k # 0 => Sole(n, k)'
  <2> SUFFICES ASSUME k # 0, NEW a \in Running', NEW b \in Running',
                      NEW i \in k..Len(Pending[n]), NEW j \in k..Len(Pending[n]),
                      todo'[a] = Ahead(n, i), todo'[b] = Ahead(n, j)
               PROVE a = b
    BY DEF Sole
  <2>1. Sole(n, k) BY DEF Climbing
  <2>2. a \in Processes /\ b \in Processes BY DEF Running
  <2>3. a \in Running /\ \E x \in k..Len(Pending[n]) : todo[a] = Ahead(n, x) BY <1>1, <2>2
  <2>4. b \in Running /\ \E x \in k..Len(Pending[n]) : todo[b] = Ahead(n, x) BY <1>1, <2>2
  <2> QED BY <2>1, <2>3, <2>4 DEF Sole
<1> QED BY <1>2, <1>3 DEF Climbing

\* A process may leave at any place.
LEMMA ClimbingLeaves ==
  ASSUME MigrateTypes, NEW p \in Processes, GiveUp(p) \/ Finish(p) \/ Stop(p),
         NEW n \in 1..(HeadRevision - 1), NEW k \in Alone(n), Climbing(n, k)
  PROVE Climbing(n, k)' /\ ~Finish(p)
<1>1. p \notin Running' /\ disk' = disk BY LeavesDisk
<1>2. Climbing(n, k)' BY <1>1, ClimbingFrame DEF Steps
<1>3. ASSUME Finish(p) PROVE FALSE
  <2>1. p \in Running /\ todo[p] = <<>> BY <1>3 DEF Finish, Running
  <2>2. Climbs(p, n, k) BY <2>1 DEF Climbing
  <2> QED BY <2>1, <2>2, UpgradingThis, ClimbsThis, EndFacts DEF Climbs
<1> QED BY <1>2, <1>3

\* One that opens the database is about to upgrade.
LEMMA ClimbingOpen ==
  ASSUME MigrateTypes, NEW p \in Processes, Open(p),
         NEW n \in 1..(HeadRevision - 1), NEW k \in Alone(n), Climbing(n, k)
  PROVE Climbing(n, k)'
<1>1. n \in 1..HeadRevision /\ n \in 0..HeadRevision BY EndFacts
<1>2. disk = Stages[n][k] BY DEF Climbing
<1>3. DOMAIN disk.tables \cap DOMAIN Metadata # {} /\ disk.versioned = TRUE BY <1>1, <1>2, StageFacts, StageFields
<1>4. UpgradeToHead(disk) = Upgrading BY <1>3 DEF UpgradeToHead
<1>5. todo'[p] = Upgrading /\ writer' # p /\ disk' = disk BY <1>4, OpenIs
<1>6. Climbs(p, n, k)' BY <1>5 DEF Climbs
<1>7. \A i \in k..Len(Pending[n]) : todo'[p] # Ahead(n, i)
  <2> TAKE i \in k..Len(Pending[n])
  <2>1. i \in 0..Len(Pending[n]) BY <1>1, AloneFacts, PendingShape, SMT
  <2> QED BY <1>1, <1>5, <2>1, NotUpgrading
<1> QED BY <1>5, <1>6, <1>7, ClimbingFrame DEF Steps

\* The revision of a release.
LEMMA CurrentOf == ASSUME NEW n \in 1..HeadRevision PROVE Current({n}) = n
<1>1. Latest({n}) \in {n} BY LatestIs
<1> QED BY <1>1 DEF Current

\* One that decides begins with all of the pending statements.
LEMMA ClimbingDecide ==
  ASSUME MigrateTypes, NEW p \in Processes, Decide(p),
         NEW n \in 1..(HeadRevision - 1), NEW k \in Alone(n), Climbing(n, k)
  PROVE Climbing(n, k)'
<1>1. n \in 1..HeadRevision /\ n \in 0..HeadRevision BY EndFacts
<1>2. p \in Running /\ Queries(This(p)) BY DecideIs
<1>3. Climbs(p, n, k) BY <1>2 DEF Climbing
<1>4. todo[p] = Upgrading /\ writer # p BY <1>1, <1>2, <1>3, ClimbsThis DEF Climbs
<1>5. View(p) = Stages[n][k] BY <1>4 DEF View, Climbing
<1>6. Current(View(p).rows) = n BY <1>1, <1>5, StageFields, CurrentOf
<1>7. Expand(View(p), This(p)) = Pending[n] BY <1>4, <1>6, UpgradingThis DEF Expand
<1>8. todo'[p] = Ahead(n, 0) BY <1>1, <1>4, <1>7, DecideIs, UpgradingThis, WholeAhead DEF Closing
<1>9. disk' = disk /\ writer' # p BY <1>4, DecideIs
<1>10. k \in Nat /\ Len(Pending[n]) \in Nat /\ 0 \in 0..Len(Pending[n]) /\ 0 <= k BY <1>1, AloneFacts, PendingShape, SMT
<1>11. Climbs(p, n, k)' BY <1>8, <1>9, <1>10 DEF Climbs
<1>12. \A i \in k..Len(Pending[n]) : k # 0 => todo'[p] # Ahead(n, i)
  <2> TAKE i \in k..Len(Pending[n])
  <2>1. i \in 0..Len(Pending[n]) /\ (k # 0 => i # 0) BY <1>10, SMT
  <2> QED BY <1>1, <1>8, <1>10, <2>1, AheadPlace
<1> QED BY <1>9, <1>11, <1>12, ClimbingFrame DEF Steps

\* One that has been passed is refused; the other goes a statement further.
LEMMA ClimbingRun ==
  ASSUME MigrateTypes, NEW p \in Processes, Run(p),
         NEW n \in 1..(HeadRevision - 1), NEW k \in Alone(n), Climbing(n, k)
  PROVE \E m \in Alone(n) : Climbing(n, m)'
<1>1. n \in 1..HeadRevision /\ n \in 0..HeadRevision BY EndFacts
<1>2. /\ p \in Running /\ ~Queries(This(p)) /\ This(p).do # "commit" /\ writer \in {p, Nobody}
      /\ Possible(View(p), This(p)) /\ todo'[p] = Tail(todo[p])
  BY RunIs
<1>3. Climbs(p, n, k) BY <1>2 DEF Climbing
<1>4. PICK i \in 0..Len(Pending[n]) :
        /\ todo[p] = Ahead(n, i)
        /\ IF writer = p THEN k < i /\ k + 1 \notin Alone(n) /\ draft = Stages[n][i] ELSE i <= k
  BY <1>2, <1>3, UpgradingThis DEF Climbs
<1>5. k \in 0..Len(Pending[n]) /\ k \in Nat /\ i \in Nat /\ Len(Pending[n]) \in Nat /\ k # Len(Pending[n])
  BY <1>1, AloneFacts, EndFacts, PendingShape, SMT
<1>6. i # Len(Pending[n]) BY <1>1, <1>2, <1>4, ClimbsThis
<1>7. i < Len(Pending[n]) /\ i + 1 \in 0..Len(Pending[n]) BY <1>5, <1>6, SMT
<1>8. /\ This(p) = Pending[n][i + 1] /\ i + 1 \in 1..Len(Pending[n]) /\ todo'[p] = Ahead(n, i + 1)
  BY <1>1, <1>2, <1>4, <1>7, ClimbsThis
<1>9. Stages[n][i + 1] = Effect(Stages[n][i], This(p))
  <2>1. i + 1 - 1 = i BY <1>5, SMT
  <2> QED BY <1>1, <1>8, <2>1, StagesStep
<1>10. disk = Stages[n][k] BY DEF Climbing
<1>11. CASE writer = p
  <2>1. View(p) = Stages[n][i] /\ k < i /\ k + 1 \notin Alone(n) BY <1>4, <1>11 DEF View
  <2>2. writer' = p /\ draft' = Stages[n][i + 1] /\ disk' = disk BY <1>9, <1>11, <2>1, RunIs
  <2>3. k < i + 1 BY <1>5, <2>1, SMT
  <2>4. Climbs(p, n, k)' BY <1>7, <1>8, <2>1, <2>2, <2>3 DEF Climbs
  <2>5. i \in k..Len(Pending[n]) BY <1>5, <1>7, <2>1, SMT
  <2> QED BY <1>2, <1>4, <2>2, <2>4, <2>5, ClimbingFrame DEF Steps
<1>12. CASE writer # p
  <2>1. View(p) = Stages[n][k] /\ i <= k BY <1>4, <1>10, <1>12 DEF View
  <2>2. i = k
    <3>1. ~(i + 1 \in 1..k) BY <1>1, <1>2, <1>8, <2>1, StageFacts
    <3> QED BY <1>5, <2>1, <3>1, SMT
  <2>3. CASE Writes(This(p))
    <3>1. writer' = p /\ draft' = Stages[n][k + 1] /\ disk' = disk BY <1>9, <2>1, <2>2, <2>3, RunIs
    <3>2. k + 1 \notin Alone(n) BY <1>1, <1>7, <1>8, <2>2, <2>3, AloneFacts
    <3>3. k < k + 1 BY <1>5, SMT
    <3>4. Climbs(p, n, k)' BY <1>7, <1>8, <2>2, <3>1, <3>2, <3>3 DEF Climbs
    <3>5. k \in k..Len(Pending[n]) BY <1>5, SMT
    <3> QED BY <1>2, <1>4, <2>2, <3>1, <3>4, <3>5, ClimbingFrame DEF Steps
  <2>4. CASE ~Writes(This(p))
    <3>1. disk' = Stages[n][k + 1] /\ writer' = Nobody /\ writer = Nobody BY <1>9, <1>12, <2>1, <2>2, <2>4, RunIs
    <3>2. k + 1 \in Alone(n) BY <1>1, <1>7, <1>8, <2>2, <2>4, AloneFacts
    <3>3. \A q \in Processes \ {p} : todo'[q] = todo[q] /\ (q \in Running' <=> q \in Running) BY Frame DEF Steps
    <3>4. \A q \in Processes : writer # q /\ writer' # q BY <3>1, NobodyAssumption
    <3>5. Climbs(p, n, k + 1)' BY <1>5, <1>7, <1>8, <2>2, <3>4 DEF Climbs
    <3>6. \A q \in Processes \ {p} : q \in Running' => Climbs(q, n, k + 1)'
      <4> SUFFICES ASSUME NEW q \in Processes \ {p}, q \in Running' PROVE Climbs(q, n, k + 1)' OBVIOUS
      <4>1. Climbs(q, n, k) /\ todo'[q] = todo[q] BY <3>3 DEF Climbing
      <4>2. \A x \in 0..Len(Pending[n]) : x <= k => x <= k + 1 BY <1>5, SMT
      <4> QED BY <3>4, <4>1, <4>2 DEF Climbs
    <3>7. \A q \in Processes \ {p} : \A x \in (k + 1)..Len(Pending[n]) : q \in Running' => todo'[q] # Ahead(n, x)
      <4> SUFFICES ASSUME NEW q \in Processes \ {p}, NEW x \in (k + 1)..Len(Pending[n]), q \in Running',
                          todo'[q] = Ahead(n, x)
                   PROVE FALSE
        OBVIOUS
      <4>1. Climbs(q, n, k) /\ todo[q] = Ahead(n, x) BY <3>3 DEF Climbing
      <4>2. x \in 0..Len(Pending[n]) /\ ~(x <= k) BY <1>5, SMT
      <4>3. todo[q] # Upgrading BY <1>1, <4>1, <4>2, NotUpgrading
      <4>4. PICK y \in 0..Len(Pending[n]) : todo[q] = Ahead(n, y) /\ y <= k BY <3>4, <4>1, <4>3 DEF Climbs
      <4>5. x = y BY <1>1, <4>1, <4>2, <4>4, AheadPlace
      <4> QED BY <4>2, <4>4, <4>5
    <3>8. Sole(n, k + 1)' BY <3>7 DEF Sole, Running
    <3>9. \A q \in Running' : Climbs(q, n, k + 1)' BY <3>5, <3>6 DEF Running
    <3>10. Climbing(n, k + 1)' BY <3>1, <3>2, <3>8, <3>9 DEF Climbing
    <3> QED BY <3>2, <3>10
  <2> QED BY <2>3, <2>4
<1> QED BY <1>11, <1>12

\* What the classes declare stays declared.
LEMMA DeclaredGrown ==
  ASSUME NEW db, Declared(db)
  PROVE IsDatabase(db) /\ DOMAIN Metadata \subseteq DOMAIN db.tables
BY DeclaredFields

\* What is committed in the end is what the classes declare.
LEMMA ClimbingCommit ==
  ASSUME MigrateTypes, NEW p \in Processes, Commit(p),
         NEW n \in 1..(HeadRevision - 1), NEW k \in Alone(n), Climbing(n, k)
  PROVE AtHead'
<1>1. n \in 1..HeadRevision /\ n \in 0..HeadRevision /\ n \in 0..(HeadRevision - 1) BY EndFacts, HeadFacts, SMT
<1>2. p \in Running /\ This(p).do = "commit" /\ todo'[p] = Tail(todo[p]) /\ disk' = View(p) /\ writer' # p BY CommitIs
<1>3. Climbs(p, n, k) BY <1>2 DEF Climbing
<1>4. PICK i \in 0..Len(Pending[n]) :
        /\ todo[p] = Ahead(n, i)
        /\ IF writer = p THEN k < i /\ k + 1 \notin Alone(n) /\ draft = Stages[n][i] ELSE i <= k
  BY <1>2, <1>3, UpgradingThis DEF Climbs
<1>5. k \in 0..Len(Pending[n]) /\ k \in Nat /\ i \in Nat /\ Len(Pending[n]) \in Nat /\ k # Len(Pending[n])
  BY <1>1, AloneFacts, EndFacts, PendingShape, SMT
<1>6. i = Len(Pending[n])
  <2>1. ~(i < Len(Pending[n])) BY <1>1, <1>2, <1>4, ClimbsThis
  <2> QED BY <1>5, <2>1, SMT
<1>7. writer = p /\ todo'[p] = <<Do("check", 0)>>
  <2>1. ~(i <= k) BY <1>5, <1>6, SMT
  <2> QED BY <1>1, <1>2, <1>4, <1>6, <2>1, ClimbsThis
<1>8. disk' = Stages[n][Len(Pending[n])] BY <1>2, <1>4, <1>6, <1>7 DEF View
<1>9. Declared(disk)' /\ HeadRevision \in disk'.rows BY <1>8, EndFacts
<1>10. \A q \in Processes : writer' # q BY <1>7, NobodyAssumption DEF Commit, RollBack
<1>11. \A q \in Processes : View(q)' = disk' BY <1>10 DEF View
<1>12. Stays(p)' BY <1>7, <1>9, <1>11 DEF Stays
<1>13. \A q \in Processes \ {p} : todo'[q] = todo[q] /\ (q \in Running' <=> q \in Running) BY Frame DEF Steps
<1>14. ASSUME NEW q \in Processes \ {p}, q \in Running' PROVE Stays(q)'
  <2>1. Climbs(q, n, k) /\ todo'[q] = todo[q] /\ q \in Running BY <1>13, <1>14 DEF Climbing
  <2>2. CASE todo[q] = Upgrading BY <1>9, <1>11, <2>1, <2>2 DEF Stays
  <2>3. CASE todo[q] # Upgrading
    <3>1. PICK x \in 0..Len(Pending[n]) : todo[q] = Ahead(n, x) /\ x <= k BY <1>7, <2>1, <2>3 DEF Climbs
    <3>2. PICK j \in 1..Len(Pending[n]) : Makes(Pending[n][j]) /\ \A m \in Alone(n) : m <= j BY EndFacts
    <3>3. x # j
      <4> SUFFICES ASSUME x = j PROVE FALSE OBVIOUS
      <4>1. k # 0 /\ x \in k..Len(Pending[n]) /\ i \in k..Len(Pending[n]) BY <1>5, <1>6, <3>1, <3>2, SMT
      <4>2. Sole(n, k) BY <4>1 DEF Climbing
      <4> QED BY <1>2, <1>4, <2>1, <3>1, <4>1, <4>2 DEF Sole
    <3>4. j \in (x + 1)..Len(Pending[n]) BY <1>5, <3>1, <3>2, <3>3, SMT
    <3>5. x \in Alone(n) /\ n # 0
      <4>1. x \in 0..k /\ n # 0 BY <1>5, <3>1, HeadFacts, SMT
      <4> QED BY <1>1, <4>1, AloneFacts
    <3>6. Doomed(q, n, x)' BY <1>10, <2>1, <3>1, <3>2, <3>4, <3>5 DEF Doomed
    <3> QED BY <1>1, <3>6 DEF Stays
  <2> QED BY <2>2, <2>3
<1>15. \A q \in Running' : Stays(q)' BY <1>12, <1>14 DEF Running
<1> QED BY <1>9, <1>15 DEF AtHead

-----------------------------------------------------------------------------
(* Adopting.                                                               *)

\* Bringing a database under version control.
LEMMA FirstRelease ==
  /\ 1 \in 1..(HeadRevision - 1) /\ 1 \in 0..HeadRevision /\ 0 \in 0..HeadRevision /\ 0 \in Alone(1)
  /\ Released[1] = Stages[1][0] /\ Released[1].rows = {1}
  /\ Released[1] = Database(Released[1].tables, Released[1].copies, TRUE, {1})
  /\ DOMAIN Released[1].tables \cap DOMAIN Metadata # {}
  /\ Len(Pending[0]) \in Nat /\ 0 < Len(Pending[0]) /\ Makes(Pending[0][1]) /\ Has(Released[1], Pending[0][1].table)
<1>1. 1 \in 1..(HeadRevision - 1) /\ 1 \in 0..HeadRevision /\ 0 \in 0..HeadRevision /\ 1 \in 1..HeadRevision
  BY HeadFacts, SMT
<1>2. 0 \in Alone(1) /\ Released[1] = Stages[1][0] BY <1>1, AloneFacts, StagesStep
<1>3. /\ Released[1].rows = {1} /\ DOMAIN Released[1].tables \cap DOMAIN Metadata # {}
      /\ Released[1] = Database(Released[1].tables, Released[1].copies, TRUE, {1})
  <2> DEFINE made == Stages[1][0]
  <2>1. made.rows = {1} /\ DOMAIN made.tables \cap DOMAIN Metadata # {} /\ made = Database(made.tables, made.copies, TRUE, {1})
    BY <1>1, <1>2, StageFacts, StageFields
  <2> HIDE DEF made
  <2>2. Released[1] = made BY <1>2 DEF made
  <2> QED BY <2>1, <2>2
<1>4. Len(Pending[0]) \in Nat /\ Len(Pending[0]) > 0 /\ Makes(Pending[0][1]) /\ Has(Released[1], Pending[0][1].table)
  BY <1>1, PendingShape, SchemaAssumption
<1>5. 0 < Len(Pending[0]) BY <1>4, SMT
<1> QED BY <1>1, <1>2, <1>3, <1>4, <1>5

\* A step of one process leaves the others where they may be.
LEMMA AdoptingFrame ==
  ASSUME MigrateTypes, NEW p \in Processes, Steps(p), Adopting,
         disk' = disk \/ disk' = Database(Released[1].tables, Released[1].copies, TRUE, {}),
         p \in Running' => Adopts(p)'
  PROVE Adopting'
<1>1. \E v \in BOOLEAN : disk' = Database(Released[1].tables, Released[1].copies, v, {}) BY DEF Adopting
<1>2. disk.versioned = TRUE => disk'.versioned = TRUE BY DEF Database
<1>3. ASSUME NEW q \in Processes \ {p}, q \in Running' PROVE Adopts(q)'
  <2>1. q \in Running /\ todo'[q] = todo[q] /\ (writer' = q <=> writer = q) /\ (writer = q => draft' = draft)
    BY <1>3, Frame
  <2>2. Adopts(q) BY <2>1 DEF Adopting
  <2> QED BY <1>2, <2>1, <2>2 DEF Adopts
<1>4. \A q \in Running' : Adopts(q)' BY <1>3 DEF Running
<1> QED BY <1>1, <1>2, <1>4 DEF Adopting

\* The statements about alembic_version differ.
LEMMA Different ==
  /\ <<Do("stamp", 1)>> # <<Do("ensure", 0), Do("insert", 1)>> /\ <<Do("stamp", 1)>> # <<Do("insert", 1)>>
  /\ <<Do("stamp", 1)>> # <<Do("update", 1)>> /\ <<Do("insert", 1)>> # <<Do("ensure", 0), Do("insert", 1)>>
  /\ <<Do("update", 1)>> # <<Do("ensure", 0), Do("insert", 1)>> /\ <<Do("insert", 1)>> # <<Do("update", 1)>>
<1>1. \A x, y : x.do # y.do => x # y OBVIOUS
<1>2. /\ Do("stamp", 1) # Do("ensure", 0) /\ Do("stamp", 1) # Do("insert", 1) /\ Do("stamp", 1) # Do("update", 1)
      /\ Do("insert", 1) # Do("ensure", 0) /\ Do("update", 1) # Do("ensure", 0) /\ Do("insert", 1) # Do("update", 1)
  BY <1>1, DoFacts
<1> HIDE DEF Do
<1> QED BY <1>2, SMT

\* What a process has to run.
LEMMA RecordingThis ==
  ASSUME NEW p, NEW r \in Recording, todo[p] = r \o Upgrading
  PROVE /\ todo[p] # <<>> /\ This(p).do # "commit"
        /\ r = <<Do("stamp", 1)>> => This(p) = Do("stamp", 1) /\ This(p).do = "stamp" /\ This(p).to = 1 /\ Tail(todo[p]) = Upgrading
        /\ r = <<Do("ensure", 0), Do("insert", 1)>>
           => This(p).do = "ensure" /\ Tail(todo[p]) = <<Do("insert", 1)>> \o Upgrading
        /\ r = <<Do("insert", 1)>> => This(p).do = "insert" /\ This(p).to = 1 /\ Tail(todo[p]) = Upgrading
        /\ r = <<Do("update", 1)>> => This(p).do = "update" /\ This(p).to = 1 /\ Tail(todo[p]) = Upgrading
<1> USE DEF This
<1>1. CASE r = <<Do("stamp", 1)>>
  <2>1. todo[p] # <<>> /\ This(p) = Do("stamp", 1) /\ Tail(todo[p]) = Upgrading BY <1>1, Lists DEF Statements
  <2> QED BY <1>1, <2>1, DoFacts, Different
<1>2. CASE r = <<Do("ensure", 0), Do("insert", 1)>>
  <2>1. todo[p] # <<>> /\ This(p) = Do("ensure", 0) /\ Tail(todo[p]) = <<Do("insert", 1)>> \o Upgrading BY <1>2, Lists
  <2> QED BY <1>2, <2>1, DoFacts, Different
<1>3. CASE r = <<Do("insert", 1)>>
  <2>1. todo[p] # <<>> /\ This(p) = Do("insert", 1) /\ Tail(todo[p]) = Upgrading BY <1>3, Lists DEF Statements
  <2> QED BY <1>3, <2>1, DoFacts, Different
<1>4. CASE r = <<Do("update", 1)>>
  <2>1. todo[p] # <<>> /\ This(p) = Do("update", 1) /\ Tail(todo[p]) = Upgrading BY <1>4, Lists DEF Statements
  <2> QED BY <1>4, <2>1, DoFacts, Different
<1> QED BY <1>1, <1>2, <1>3, <1>4 DEF Recording

\* A process may leave at any place.
LEMMA AdoptingLeaves ==
  ASSUME MigrateTypes, NEW p \in Processes, GiveUp(p) \/ Finish(p) \/ Stop(p), Adopting
  PROVE Adopting' /\ ~Finish(p)
<1>1. p \notin Running' /\ disk' = disk BY LeavesDisk
<1>2. Adopting' BY <1>1, AdoptingFrame DEF Steps
<1>3. ASSUME Finish(p) PROVE FALSE
  <2>1. p \in Running /\ todo[p] = <<>> BY <1>3 DEF Finish, Running
  <2>2. Adopts(p) BY <2>1 DEF Adopting
  <2>3. \A n \in 0..HeadRevision : \A i \in 0..Len(Pending[n]) : todo[p] # Ahead(n, i) BY <2>1, ClimbsThis
  <2>4. todo[p] # Ahead(0, 0)
    <3>1. 0 \in 0..Len(Pending[0]) BY FirstRelease, SMT
    <3> QED BY <2>3, <3>1, FirstRelease
  <2>5. todo[p] # Upgrading BY <2>1, UpgradingThis
  <2>6. \A r \in Recording : todo[p] # r \o Upgrading BY <2>1, RecordingThis
  <2> QED BY <2>2, <2>3, <2>4, <2>5, <2>6, FirstRelease DEF Adopts, Recording
<1> QED BY <1>2, <1>3

\* What is seen of the database meanwhile.
LEMMA AdoptingDisk ==
  ASSUME Adopting
  PROVE /\ disk.tables = Released[1].tables /\ disk.copies = Released[1].copies /\ disk.versioned \in BOOLEAN
        /\ disk.rows = {} /\ IsDatabase(disk)
<1>1. PICK v \in BOOLEAN : disk = Database(Released[1].tables, Released[1].copies, v, {}) BY DEF Adopting
<1> QED BY <1>1, DatabaseFields DEF IsDatabase

\* One that opens the database records the first revision, or upgrades.
LEMMA AdoptingOpen ==
  ASSUME MigrateTypes, NEW p \in Processes, Open(p), Adopting
  PROVE Adopting'
<1>1. DOMAIN disk.tables \cap DOMAIN Metadata # {} /\ disk.versioned \in BOOLEAN BY AdoptingDisk, FirstRelease
<1>2. UpgradeToHead(disk) = IF disk.versioned THEN Upgrading ELSE <<Do("stamp", 1)>> \o Upgrading
  BY <1>1 DEF UpgradeToHead
<1>3. todo'[p] = UpgradeToHead(disk) /\ writer' # p /\ disk' = disk BY OpenIs
<1>4. Adopts(p)' BY <1>1, <1>2, <1>3 DEF Adopts
<1> QED BY <1>3, <1>4, AdoptingFrame DEF Steps

\* What it decides then.
LEMMA AdoptingDecide ==
  ASSUME MigrateTypes, NEW p \in Processes, Decide(p), Adopting
  PROVE Adopting'
<1>1. /\ p \in Running /\ todo[p] # <<>> /\ Queries(This(p))
      /\ todo'[p] = Expand(View(p), This(p)) \o Tail(todo[p])
      /\ disk' = disk /\ writer' = writer /\ draft' = draft
  BY DecideIs
<1> SUFFICES Adopts(p)' BY <1>1, AdoptingFrame DEF Steps
<1>2. Adopts(p) BY <1>1 DEF Adopting
<1>3. \A n \in 0..HeadRevision : \A i \in 0..Len(Pending[n]) : todo[p] # Ahead(n, i) BY <1>1, ClimbsThis
<1>4. todo[p] # Ahead(0, 0)
  <2>1. 0 \in 0..Len(Pending[0]) BY FirstRelease, SMT
  <2> QED BY <1>3, <2>1, FirstRelease
<1>5. \A r \in Recording : r # <<Do("stamp", 1)>> => todo[p] # r \o Upgrading
  BY <1>1, RecordingThis DEF Recording, Queries
<1>6. CASE todo[p] = <<Do("stamp", 1)>> \o Upgrading /\ writer # p
  <2>1. This(p).do = "stamp" /\ This(p).to = 1 /\ Tail(todo[p]) = Upgrading BY <1>6, RecordingThis DEF Recording
  <2>2. View(p).rows = {} BY <1>6, AdoptingDisk DEF View
  <2>3. Expand(View(p), This(p)) = <<Do("ensure", 0), Do("insert", 1)>> BY <2>1, <2>2 DEF Expand, Record
  <2> QED BY <1>1, <1>6, <2>1, <2>3 DEF Adopts
<1>7. CASE todo[p] = Upgrading /\ writer # p
  <2>1. This(p).do = "upgrade" /\ Tail(todo[p]) = Closing BY <1>7, UpgradingThis
  <2>2. Current(View(p).rows) = 0 BY <1>7, AdoptingDisk DEF View, Current
  <2>3. Expand(View(p), This(p)) = Pending[0] BY <2>1, <2>2 DEF Expand
  <2>4. todo'[p] = Ahead(0, 0) BY <1>1, <2>1, <2>3, WholeAhead, FirstRelease DEF Closing
  <2> QED BY <1>1, <1>7, <2>4 DEF Adopts
<1>8. CASE todo[p] = Upgrading /\ writer = p /\ draft = Released[1]
  <2>1. This(p).do = "upgrade" /\ Tail(todo[p]) = Closing BY <1>8, UpgradingThis
  <2>2. 1 \in 1..HeadRevision BY HeadFacts, SMT
  <2>3. Current(View(p).rows) = 1 BY <1>8, <2>2, FirstRelease, CurrentOf DEF View
  <2>4. Expand(View(p), This(p)) = Pending[1] BY <2>1, <2>3 DEF Expand
  <2>5. todo'[p] = Ahead(1, 0) BY <1>1, <2>1, <2>4, WholeAhead, FirstRelease DEF Closing
  <2>6. 0 \in 0..Len(Pending[1]) BY FirstRelease, PendingShape, SMT
  <2> QED BY <1>1, <1>8, <2>5, <2>6, FirstRelease DEF Adopts
<1> QED BY <1>2, <1>3, <1>4, <1>5, <1>6, <1>7, <1>8, Different, FirstRelease DEF Adopts, Recording

\* What it runs then.
LEMMA AdoptingRun ==
  ASSUME MigrateTypes, NEW p \in Processes, Run(p), Adopting
  PROVE Adopting'
<1>1. /\ p \in Running /\ ~Queries(This(p)) /\ This(p).do # "commit" /\ writer \in {p, Nobody}
      /\ Possible(View(p), This(p)) /\ todo'[p] = Tail(todo[p])
      /\ writer = p \/ Writes(This(p)) => writer' = p /\ draft' = Effect(View(p), This(p)) /\ disk' = disk
      /\ ~(writer = p \/ Writes(This(p))) => disk' = Effect(View(p), This(p)) /\ writer' = Nobody
  BY RunIs
<1>2. Adopts(p) BY <1>1 DEF Adopting
<1>3. todo[p] # Upgrading BY <1>1, UpgradingThis
<1>4. todo[p] # <<Do("stamp", 1)>> \o Upgrading BY <1>1, RecordingThis DEF Recording, Queries
<1>5. CASE writer # p /\ todo[p] = Ahead(0, 0)
  <2>1. 0 \in 0..Len(Pending[0]) /\ 0 + 1 = 1 BY FirstRelease, SMT
  <2>2. This(p) = Pending[0][1] BY <1>5, <2>1, FirstRelease, ClimbsThis
  <2>3. Has(View(p), This(p).table) BY <1>5, <2>2, FirstRelease, AdoptingDisk DEF View, Has
  <2> QED BY <1>1, <2>2, <2>3, FirstRelease DEF Makes, Possible
<1>6. CASE writer # p /\ todo[p] = <<Do("ensure", 0), Do("insert", 1)>> \o Upgrading
  <2>1. This(p).do = "ensure" /\ todo'[p] = <<Do("insert", 1)>> \o Upgrading BY <1>1, <1>6, RecordingThis DEF Recording
  <2>2. disk' = Effect(disk, This(p)) /\ writer' # p BY <1>1, <1>6, <2>1, NobodyAssumption DEF Writes, View
  <2>3. disk' = Database(Released[1].tables, Released[1].copies, TRUE, {}) 
    <3>1. disk' = Database(disk.tables, disk.copies, TRUE, disk.rows) BY <2>1, <2>2, AdoptingDisk, Effects
    <3> QED BY <3>1, AdoptingDisk
  <2>4. disk'.versioned = TRUE BY <2>3 DEF Database
  <2>5. Adopts(p)' BY <2>1, <2>2, <2>4 DEF Adopts
  <2> QED BY <2>3, <2>5, AdoptingFrame DEF Steps
<1>7. CASE writer # p /\ disk.versioned = TRUE /\ todo[p] = <<Do("insert", 1)>> \o Upgrading
  <2>1. This(p).do = "insert" /\ This(p).to = 1 /\ todo'[p] = Upgrading BY <1>1, <1>7, RecordingThis DEF Recording
  <2>2. writer' = p /\ draft' = Effect(disk, This(p)) /\ disk' = disk BY <1>1, <1>7, <2>1 DEF Writes, View
  <2>3. draft' = Database(disk.tables, disk.copies, disk.versioned, disk.rows \cup {1})
    <3>1. Effect(disk, This(p)) = Database(disk.tables, disk.copies, disk.versioned, disk.rows \cup {This(p).to})
      BY <2>1, AdoptingDisk, Effects
    <3> QED BY <2>1, <2>2, <3>1
  <2>4. disk.rows \cup {1} = {1} BY AdoptingDisk
  <2>5. draft' = Released[1] BY <1>7, <2>3, <2>4, AdoptingDisk, FirstRelease
  <2>6. Adopts(p)' BY <2>1, <2>2, <2>5 DEF Adopts
  <2> QED BY <2>2, <2>6, AdoptingFrame DEF Steps
<1>8. ASSUME writer = p, NEW i \in 0..Len(Pending[1]), draft = Stages[1][i], todo[p] = Ahead(1, i)
      PROVE Adopting'
  <2>1. Len(Pending[1]) \in Nat /\ i \in Nat /\ 1 \in 0..HeadRevision /\ 1 \in 1..HeadRevision
    BY FirstRelease, PendingShape, HeadFacts, SMT
  <2>2. i # Len(Pending[1]) BY <1>1, <1>8, <2>1, ClimbsThis
  <2>3. i < Len(Pending[1]) /\ i + 1 \in 0..Len(Pending[1]) /\ i + 1 - 1 = i BY <2>1, <2>2, SMT
  <2>4. This(p) = Pending[1][i + 1] /\ i + 1 \in 1..Len(Pending[1]) /\ todo'[p] = Ahead(1, i + 1)
    BY <1>1, <1>8, <2>1, <2>3, ClimbsThis
  <2>5. writer' = p /\ draft' = Stages[1][i + 1] /\ disk' = disk BY <1>1, <1>8, <2>1, <2>3, <2>4, StagesStep DEF View
  <2>6. Adopts(p)' BY <2>3, <2>4, <2>5 DEF Adopts
  <2> QED BY <2>5, <2>6, AdoptingFrame DEF Steps
<1> QED BY <1>2, <1>3, <1>4, <1>5, <1>6, <1>7, <1>8 DEF Adopts

\* What is committed in the end is what the classes declare.
LEMMA AdoptingCommit ==
  ASSUME MigrateTypes, NEW p \in Processes, Commit(p), Adopting
  PROVE AtHead'
<1>1. p \in Running /\ This(p).do = "commit" /\ todo'[p] = Tail(todo[p]) /\ disk' = View(p) /\ writer' # p BY CommitIs
<1>2. Adopts(p) BY <1>1 DEF Adopting
<1>3. todo[p] # Upgrading /\ \A r \in Recording : todo[p] # r \o Upgrading BY <1>1, UpgradingThis, RecordingThis
<1>4. todo[p] # Ahead(0, 0)
  <2>1. 0 \in 0..Len(Pending[0]) BY FirstRelease, SMT
  <2> QED BY <1>1, <2>1, FirstRelease, ClimbsThis
<1>5. PICK i \in 0..Len(Pending[1]) : writer = p /\ draft = Stages[1][i] /\ todo[p] = Ahead(1, i)
  BY <1>2, <1>3, <1>4 DEF Adopts, Recording
<1>6. Len(Pending[1]) \in Nat /\ i \in Nat /\ 1 \in 0..HeadRevision BY FirstRelease, PendingShape, SMT
<1>7. i = Len(Pending[1])
  <2>1. ~(i < Len(Pending[1])) BY <1>1, <1>5, <1>6, ClimbsThis
  <2> QED BY <1>6, <2>1, SMT
<1>8. todo'[p] = <<Do("check", 0)>> /\ disk' = Stages[1][Len(Pending[1])] BY <1>1, <1>5, <1>6, <1>7, ClimbsThis DEF View
<1>9. Declared(disk)' /\ HeadRevision \in disk'.rows BY <1>8, FirstRelease, EndFacts
<1>10. \A q \in Processes : writer' # q BY <1>5, NobodyAssumption DEF Commit, RollBack
<1>11. \A q \in Processes : View(q)' = disk' BY <1>10 DEF View
<1>12. Stays(p)' BY <1>8, <1>9, <1>11 DEF Stays
<1>13. ASSUME NEW q \in Processes \ {p}, q \in Running' PROVE Stays(q)'
  <2>1. q \in Running /\ todo'[q] = todo[q] /\ writer # q BY <1>5, <1>13, Frame DEF Steps
  <2>2. Adopts(q) BY <2>1 DEF Adopting
  <2>3. CASE todo[q] = Upgrading \/ \E r \in Recording : todo[q] = r \o Upgrading
    BY <1>9, <1>11, <2>1, <2>3 DEF Stays
  <2>4. CASE todo[q] = Ahead(0, 0)
    <3>1. 0 \in 0..Len(Pending[0]) /\ 1 \in (0 + 1)..Len(Pending[0]) /\ 0 \in 0..(HeadRevision - 1)
      BY FirstRelease, HeadFacts, SMT
    <3>2. 0 \in Alone(0) BY FirstRelease, AloneFacts
    <3>3. Doomed(q, 0, 0)' BY <1>10, <2>1, <2>4, <3>1, <3>2, FirstRelease DEF Doomed
    <3> QED BY <3>1, <3>3 DEF Stays
  <2> QED BY <2>1, <2>2, <2>3, <2>4 DEF Adopts, Recording
<1>14. \A q \in Running' : Stays(q)' BY <1>12, <1>13 DEF Running
<1> QED BY <1>9, <1>14 DEF AtHead

-----------------------------------------------------------------------------
(* At head.                                                                *)

\* On what the classes declare.
LEMMA StaysThis ==
  ASSUME NEW n \in 0..(HeadRevision - 1), NEW p, NEW i \in 0..Len(Pending[n]), Doomed(p, n, i)
  PROVE /\ n \in 0..HeadRevision /\ Len(Pending[n]) \in Nat /\ i \in Nat /\ i < Len(Pending[n])
        /\ todo[p] # <<>> /\ Tail(todo[p]) = Ahead(n, i + 1) /\ ~Queries(This(p)) /\ This(p).do # "commit"
        /\ This(p) = Pending[n][i + 1] /\ i + 1 \in 1..Len(Pending[n])
<1>1. n \in 0..HeadRevision BY HeadFacts, SMT
<1>2. Len(Pending[n]) \in Nat BY <1>1, PendingShape
<1>3. PICK j \in (i + 1)..Len(Pending[n]) : Makes(Pending[n][j]) BY DEF Doomed
<1>4. i \in Nat /\ i < Len(Pending[n]) BY <1>2, <1>3, SMT
<1> QED BY <1>1, <1>2, <1>4, ClimbsThis DEF Doomed

\* A step of one process leaves the others where they may be.
LEMMA AtHeadFrame ==
  ASSUME MigrateTypes, NEW p \in Processes, Steps(p), AtHead,
         Declared(disk)', HeadRevision \in disk'.rows, p \in Running' => Stays(p)'
  PROVE AtHead'
<1>1. ASSUME NEW q \in Processes \ {p}, q \in Running' PROVE Stays(q)'
  <2>1. q \in Running /\ todo'[q] = todo[q] /\ (writer' = q <=> writer = q) /\ (writer = q => draft' = draft)
    BY <1>1, Frame
  <2>2. Stays(q) BY <2>1 DEF AtHead
  <2>3. CASE writer = q
    <3>1. View(q)' = View(q) BY <2>1, <2>3 DEF View
    <3>2. \A n \in 0..(HeadRevision - 1) : \A i \in 0..Len(Pending[n]) : Doomed(q, n, i) => Doomed(q, n, i)'
      BY <2>1, <2>3 DEF Doomed
    <3> QED BY <2>1, <2>2, <3>1, <3>2 DEF Stays
  <2>4. CASE writer # q
    <3>1. View(q)' = disk' BY <2>1, <2>4 DEF View
    <3>2. \A n \in 0..(HeadRevision - 1) : \A i \in 0..Len(Pending[n]) : Doomed(q, n, i) => Doomed(q, n, i)'
      BY <2>1, <2>4 DEF Doomed
    <3> QED BY <2>1, <2>2, <3>1, <3>2 DEF Stays
  <2> QED BY <2>3, <2>4
<1>2. \A q \in Running' : Stays(q)' BY <1>1 DEF Running
<1> QED BY <1>2 DEF AtHead

\* A process may leave at any place.
LEMMA AtHeadLeaves ==
  ASSUME MigrateTypes, NEW p \in Processes, GiveUp(p) \/ Finish(p) \/ Stop(p), AtHead
  PROVE AtHead'
<1>1. p \notin Running' /\ disk' = disk BY LeavesDisk
<1>2. Declared(disk)' /\ HeadRevision \in disk'.rows BY <1>1 DEF AtHead
<1> QED BY <1>1, <1>2, AtHeadFrame DEF Steps

\* One that opens the database is about to upgrade.
LEMMA AtHeadOpen ==
  ASSUME MigrateTypes, NEW p \in Processes, Open(p), AtHead
  PROVE AtHead'
<1>1. Declared(disk) /\ HeadRevision \in disk.rows BY DEF AtHead
<1>2. DOMAIN disk.tables \cap DOMAIN Metadata # {} /\ disk.versioned = TRUE
  <2>1. Pending[0][1].table \in DOMAIN Metadata BY FirstRelease DEF Makes
  <2> QED BY <1>1, <2>1, DeclaredFields
<1>3. UpgradeToHead(disk) = Upgrading BY <1>2 DEF UpgradeToHead
<1>4. todo'[p] = Upgrading /\ writer' # p /\ disk' = disk BY <1>3, OpenIs
<1>5. View(p)' = disk BY <1>4 DEF View
<1>6. Stays(p)' BY <1>1, <1>4, <1>5 DEF Stays
<1> QED BY <1>1, <1>4, <1>6, AtHeadFrame DEF Steps

\* One that decides finds nothing to do.
LEMMA AtHeadDecide ==
  ASSUME MigrateTypes, NEW p \in Processes, Decide(p), AtHead
  PROVE AtHead'
<1>1. /\ p \in Running /\ todo[p] # <<>> /\ Queries(This(p))
      /\ todo'[p] = Expand(View(p), This(p)) \o Tail(todo[p])
      /\ disk' = disk /\ writer' = writer /\ draft' = draft /\ View(p)' = View(p)
  BY DecideIs
<1>2. Declared(disk) /\ HeadRevision \in disk.rows BY DEF AtHead
<1> SUFFICES Stays(p)' BY <1>1, <1>2, AtHeadFrame DEF Steps
<1>3. Stays(p) BY <1>1 DEF AtHead
<1>4. CASE Declared(View(p)) /\ todo[p] = Upgrading
  <2>1. This(p).do = "upgrade" /\ Tail(todo[p]) = Closing BY <1>4, UpgradingThis
  <2>2. View(p).rows # {} /\ View(p).rows \subseteq 1..HeadRevision BY <1>4 DEF Declared
  <2>3. PICK c \in View(p).rows : c = Current(View(p).rows) BY <2>2, LatestIs DEF Current
  <2>4. Expand(View(p), This(p)) = Pending[c] BY <2>1, <2>3 DEF Expand
  <2>5. c \in 1..HeadRevision /\ c \in 0..HeadRevision /\ c # 0 /\ (c # HeadRevision => c \in 1..(HeadRevision - 1) /\ c \in 0..(HeadRevision - 1))
    <3>1. c \in 1..HeadRevision BY <2>2, <2>3
    <3> QED BY <3>1, HeadFacts, SMT
  <2>6. CASE c = HeadRevision
    <3>1. Pending[c] = <<>> BY <2>6, SchemaAssumption
    <3>2. todo'[p] = Closing BY <1>1, <2>1, <2>4, <3>1, Lists
    <3> QED BY <1>1, <1>4, <2>3, <2>6, <3>2 DEF Stays
  <2>7. CASE c # HeadRevision
    <3>1. todo'[p] = Ahead(c, 0) BY <1>1, <2>1, <2>4, <2>5, WholeAhead DEF Closing
    <3>2. PICK j \in 1..Len(Pending[c]) : Makes(Pending[c][j]) BY <2>5, <2>7, EndFacts
    <3>3. 0 \in 0..Len(Pending[c]) /\ j \in (0 + 1)..Len(Pending[c]) BY <2>5, PendingShape, SMT
    <3>4. 0 \in Alone(c) BY <2>5, AloneFacts
    <3>5. writer' = p => IsDatabase(draft') /\ DOMAIN Metadata \subseteq DOMAIN draft'.tables
      BY <1>1, <1>4, DeclaredGrown DEF View
    <3>6. Doomed(p, c, 0)' BY <2>5, <3>1, <3>2, <3>3, <3>4, <3>5 DEF Doomed
    <3> QED BY <2>5, <2>7, <3>3, <3>6 DEF Stays
  <2> QED BY <2>6, <2>7
<1>5. ASSUME Declared(View(p)), NEW r \in Recording, todo[p] = r \o Upgrading PROVE Stays(p)'
  <2>1. r = <<Do("stamp", 1)>> BY <1>1, <1>5, RecordingThis DEF Recording, Queries
  <2>2. This(p).do = "stamp" /\ This(p).to = 1 /\ Tail(todo[p]) = Upgrading BY <1>5, <2>1, RecordingThis
  <2>3. View(p).rows # {} BY <1>5 DEF Declared
  <2>4. Expand(View(p), This(p)) \in {<<>>, <<Do("update", 1)>>} BY <2>2, <2>3 DEF Expand, Record
  <2>5. todo'[p] = Upgrading \/ todo'[p] = <<Do("update", 1)>> \o Upgrading BY <1>1, <2>2, <2>4, Lists
  <2> QED BY <1>1, <1>5, <2>5 DEF Stays, Recording
<1>6. CASE Declared(View(p)) /\ HeadRevision \in View(p).rows /\ todo[p] \in {Closing, <<Do("check", 0)>>, <<>>}
  <2>1. todo[p] # Closing BY <1>1, Lists, DoFacts DEF This, Queries
  <2>2. todo[p] = <<Do("check", 0)>> BY <1>1, <1>6, <2>1
  <2>3. This(p).do = "check" /\ Tail(todo[p]) = <<>> BY <2>2, Lists, DoFacts DEF This
  <2>4. Expand(View(p), This(p)) = <<>> BY <2>3 DEF Expand
  <2>5. todo'[p] = <<>> BY <1>1, <2>3, <2>4, Lists
  <2> QED BY <1>1, <1>6, <2>5 DEF Stays
<1>7. \A n \in 0..(HeadRevision - 1) : \A i \in 0..Len(Pending[n]) : ~Doomed(p, n, i) BY <1>1, StaysThis
<1> QED BY <1>3, <1>4, <1>5, <1>6, <1>7 DEF Stays

\* What it commits declares what was declared.
LEMMA AtHeadCommit ==
  ASSUME MigrateTypes, NEW p \in Processes, Commit(p), AtHead
  PROVE AtHead'
<1>1. /\ p \in Running /\ todo[p] # <<>> /\ This(p).do = "commit" /\ todo'[p] = Tail(todo[p])
      /\ disk' = View(p) /\ View(p)' = View(p)
  BY CommitIs
<1>2. Stays(p) BY <1>1 DEF AtHead
<1>3. todo[p] # Upgrading /\ (\A r \in Recording : todo[p] # r \o Upgrading) BY <1>1, UpgradingThis, RecordingThis
<1>4. todo[p] # <<Do("check", 0)>> BY <1>1, Lists, DoFacts DEF This
<1>5. \A n \in 0..(HeadRevision - 1) : \A i \in 0..Len(Pending[n]) : ~Doomed(p, n, i) BY <1>1, StaysThis
<1>6. Declared(View(p)) /\ HeadRevision \in View(p).rows /\ todo[p] = Closing BY <1>1, <1>2, <1>3, <1>4, <1>5 DEF Stays
<1>7. todo'[p] = <<Do("check", 0)>> BY <1>1, <1>6, Lists
<1>8. Stays(p)' BY <1>1, <1>6, <1>7 DEF Stays
<1> QED BY <1>1, <1>6, <1>8, AtHeadFrame DEF Steps

\* Recording a revision leaves the tables as they are.
LEMMA RecordingKeeps ==
  ASSUME NEW db, Declared(db), NEW s, s.do = "ensure" \/ (s.do \in {"insert", "update"} /\ s.to = 1)
  PROVE Declared(Effect(db, s)) /\ (s.do = "ensure" => Effect(db, s).rows = db.rows)
<1>1. db.tables = Metadata /\ db.versioned = TRUE /\ IsDatabase(db) BY DeclaredFields
<1>2. db.rows # {} /\ db.rows \subseteq 1..HeadRevision BY DEF Declared
<1>3. 1 \in 1..HeadRevision BY HeadFacts, SMT
<1> DEFINE made == Effect(db, s)
<1>4. ASSUME NEW r, r # {}, r \subseteq 1..HeadRevision, made = Database(db.tables, db.copies, db.versioned, r)
      PROVE Declared(made) /\ made.rows = r
  <2> HIDE DEF made
  <2>1. made.rows = r /\ made.copies = db.copies BY <1>4, FieldsGiven
  <2>2. made = Database(Metadata, made.copies, TRUE, made.rows) BY <1>1, <1>4, <2>1
  <2> QED BY <1>4, <2>1, <2>2 DEF Declared
<1> HIDE DEF made
<1>5. CASE s.do = "ensure"
  <2>1. made = Database(db.tables, db.copies, TRUE, db.rows) BY <1>1, <1>5, Effects DEF made
  <2>2. made = Database(db.tables, db.copies, db.versioned, db.rows) BY <1>1, <2>1
  <2> QED BY <1>2, <1>4, <2>2 DEF made
<1>6. CASE s.do = "insert" /\ s.to = 1
  <2>1. made = Database(db.tables, db.copies, db.versioned, db.rows \cup {1})
    <3>1. Effect(db, s) = Database(db.tables, db.copies, db.versioned, db.rows \cup {s.to}) BY <1>1, <1>6, Effects
    <3> QED BY <1>6, <3>1 DEF made
  <2>2. db.rows \cup {1} # {} /\ db.rows \cup {1} \subseteq 1..HeadRevision BY <1>2, <1>3
  <2> QED BY <1>4, <1>6, <2>1, <2>2 DEF made
<1>7. CASE s.do = "update" /\ s.to = 1
  <2>1. Effect(db, s) = Database(db.tables, db.copies, db.versioned, Moved(db.rows, s.to)) BY <1>1, <1>7, EffectOfUpdate
  <2>2. made = Database(db.tables, db.copies, db.versioned, Moved(db.rows, 1)) BY <1>7, <2>1 DEF made
  <2>3. Moved(db.rows, 1) # {} /\ Moved(db.rows, 1) \subseteq 1..HeadRevision BY <1>2, <1>3 DEF Moved
  <2> QED BY <1>4, <1>7, <2>2, <2>3 DEF made
<1> QED BY <1>5, <1>6, <1>7

\* What is still to be run is refused, or changes nothing that is declared.
LEMMA AtHeadRun ==
  ASSUME MigrateTypes, NEW p \in Processes, Run(p), AtHead
  PROVE AtHead'
<1>1. /\ p \in Running /\ todo[p] # <<>> /\ ~Queries(This(p)) /\ This(p).do # "commit" /\ writer \in {p, Nobody}
      /\ Possible(View(p), This(p)) /\ todo'[p] = Tail(todo[p])
      /\ writer = p \/ Writes(This(p)) => writer' = p /\ draft' = Effect(View(p), This(p)) /\ disk' = disk
      /\ ~(writer = p \/ Writes(This(p))) => disk' = Effect(View(p), This(p)) /\ writer' = Nobody
      /\ View(p)' = Effect(View(p), This(p))
  BY RunIs
<1>2. Declared(disk) /\ HeadRevision \in disk.rows /\ Stays(p) BY <1>1 DEF AtHead
<1>3. todo[p] # Upgrading BY <1>1, UpgradingThis
<1>4. todo[p] \notin {Closing, <<Do("check", 0)>>, <<>>} BY <1>1, Lists, DoFacts DEF This, Queries
<1>5. ASSUME Declared(View(p)), NEW r \in Recording, todo[p] = r \o Upgrading PROVE AtHead'
  <2>1. r # <<Do("stamp", 1)>> BY <1>1, <1>5, RecordingThis DEF Queries
  <2>2. CASE r = <<Do("ensure", 0), Do("insert", 1)>>
    <3>1. This(p).do = "ensure" /\ todo'[p] = <<Do("insert", 1)>> \o Upgrading BY <1>1, <1>5, <2>2, RecordingThis
    <3>2. Declared(View(p))' /\ View(p)'.rows = View(p).rows BY <1>1, <1>5, <3>1, RecordingKeeps
    <3>3. Stays(p)' BY <3>1, <3>2 DEF Stays, Recording
    <3>4. Declared(disk)' /\ HeadRevision \in disk'.rows
      <4>1. CASE writer = p BY <1>1, <1>2, <4>1
      <4>2. CASE writer # p
        <5>1. disk' = Effect(disk, This(p)) BY <1>1, <3>1, <4>2 DEF Writes, View
        <5> QED BY <1>2, <3>1, <5>1, RecordingKeeps
      <4> QED BY <4>1, <4>2
    <3> QED BY <3>3, <3>4, AtHeadFrame DEF Steps
  <2>3. CASE r \in {<<Do("insert", 1)>>, <<Do("update", 1)>>}
    <3>1. This(p).do \in {"insert", "update"} /\ This(p).to = 1 /\ todo'[p] = Upgrading
      BY <1>1, <1>5, <2>3, RecordingThis
    <3>2. Declared(View(p))' BY <1>1, <1>5, <3>1, RecordingKeeps
    <3>3. Stays(p)' BY <3>1, <3>2 DEF Stays
    <3>4. disk' = disk BY <1>1, <3>1 DEF Writes
    <3> QED BY <1>2, <3>3, <3>4, AtHeadFrame DEF Steps
  <2> QED BY <2>1, <2>2, <2>3 DEF Recording
<1>6. ASSUME NEW n \in 0..(HeadRevision - 1), NEW i \in 0..Len(Pending[n]), Doomed(p, n, i) PROVE AtHead'
  <2>1. /\ n \in 0..HeadRevision /\ Len(Pending[n]) \in Nat /\ i \in Nat /\ i < Len(Pending[n])
        /\ todo'[p] = Ahead(n, i + 1) /\ This(p) = Pending[n][i + 1] /\ i + 1 \in 1..Len(Pending[n])
    BY <1>1, <1>6, StaysThis
  <2>2. i + 1 \in 0..Len(Pending[n]) BY <2>1, SMT
  <2>3. IsDatabase(View(p)) /\ DOMAIN Metadata \subseteq DOMAIN View(p).tables
    BY <1>2, <1>6, DeclaredGrown DEF Doomed, View
  <2>4. PICK j \in (i + 1)..Len(Pending[n]) : Makes(Pending[n][j]) BY <1>6 DEF Doomed
  <2>5. j # i + 1 BY <1>1, <2>1, <2>3, <2>4, MakesFails
  <2>6. j \in (i + 1 + 1)..Len(Pending[n]) BY <2>1, <2>4, <2>5, SMT
  <2>7. IsDatabase(View(p))' /\ DOMAIN Metadata \subseteq DOMAIN View(p)'.tables
    BY <1>1, <2>3, TablesGrow
  <2>8. CASE writer = p \/ Writes(This(p))
    <3>1. writer' = p /\ disk' = disk BY <1>1, <2>8
    <3>2. IsDatabase(draft') /\ DOMAIN Metadata \subseteq DOMAIN draft'.tables BY <2>7, <3>1 DEF View
    <3>3. Doomed(p, n, i + 1)' BY <2>1, <2>4, <2>6, <3>1, <3>2 DEF Doomed
    <3>4. Stays(p)' BY <2>2, <3>3 DEF Stays
    <3> QED BY <1>2, <3>1, <3>4, AtHeadFrame DEF Steps
  <2>9. CASE ~(writer = p \/ Writes(This(p)))
    <3>1. i \in Alone(n) /\ (n = 0 => i = 0) BY <1>6, <2>9 DEF Doomed
    <3>2. n # 0
      <4> SUFFICES ASSUME n = 0 PROVE FALSE OBVIOUS
      <4>1. i + 1 = 1 BY <3>1, SMT
      <4> QED BY <1>1, <2>1, <2>3, <4>1, FirstRelease, MakesFails
    <3>3. n \in 1..(HeadRevision - 1) BY <3>2, HeadFacts, SMT
    <3>4. i + 1 \in Alone(n) BY <2>1, <2>9, <3>1, AloneFacts
    <3>5. i + 1 \in Alone(n) \ {0} BY <2>1, <3>4, SMT
    <3>6. disk' = Effect(disk, This(p)) /\ View(p) = disk BY <1>1, <2>9 DEF View
    <3>7. Declared(disk)' /\ disk'.rows = disk.rows BY <1>1, <1>2, <2>1, <3>3, <3>5, <3>6, AloneKeeps
    <3>8. writer' # p BY <1>1, <2>9, NobodyAssumption
    <3>9. Doomed(p, n, i + 1)' BY <2>1, <2>4, <2>6, <3>2, <3>4, <3>8 DEF Doomed
    <3>10. Stays(p)' BY <2>2, <3>9 DEF Stays
    <3> QED BY <1>2, <3>7, <3>10, AtHeadFrame DEF Steps
  <2> QED BY <2>8, <2>9
<1> QED BY <1>2, <1>3, <1>4, <1>5, <1>6 DEF Stays

-----------------------------------------------------------------------------
(* Whoever is done finds the schema.                                       *)

\* It holds of every database there may be to begin with.
LEMMA MigrateInvInit == MigrateInit /\ disk # Nothing => MigrateInv
<1> SUFFICES ASSUME MigrateInit, disk # Nothing PROVE MigrateInv OBVIOUS
<1>1. /\ writer = Nobody /\ at = [p \in Processes |-> "off"] /\ todo = [p \in Processes |-> <<>>] /\ torn = FALSE
      /\ (\E n \in 1..HeadRevision : disk = Released[n]) \/ disk = Unversioned
  BY DEF MigrateInit
<1>2. MigrateTypes /\ Running = {} /\ \A p \in Processes : at[p] # "done" BY <1>1 DEF MigrateTypes, Running
<1>3. CASE disk = Unversioned
  <2> DEFINE made == Released[1]
  <2>1. made = Database(made.tables, made.copies, TRUE, {1}) BY FirstRelease
  <2>2. Unversioned = [made EXCEPT !.versioned = FALSE, !.rows = {}] BY DEF Unversioned
  <2> HIDE DEF made
  <2>3. Unversioned = Database(made.tables, made.copies, FALSE, {}) BY <2>1, <2>2 DEF Database
  <2>4. Adopting BY <1>2, <1>3, <2>3 DEF Adopting, made
  <2> QED BY <1>1, <1>2, <2>4 DEF MigrateInv
<1>4. ASSUME NEW n \in 1..HeadRevision, disk = Released[n] PROVE MigrateInv
  <2>1. n \in 0..HeadRevision /\ 0 \in Alone(n) /\ disk = Stages[n][0]
    <3>1. n \in 0..HeadRevision BY HeadFacts, SMT
    <3> QED BY <1>4, <3>1, AloneFacts, StagesStep
  <2>2. CASE n = HeadRevision
    <3>1. Len(Pending[n]) = 0 BY <2>2, SchemaAssumption, SMT
    <3>2. Declared(disk) /\ HeadRevision \in disk.rows BY <2>1, <3>1, SchemaAssumption
    <3> QED BY <1>1, <1>2, <3>2 DEF MigrateInv, AtHead
  <2>3. CASE n # HeadRevision
    <3>1. n \in 1..(HeadRevision - 1) BY <2>3, HeadFacts, SMT
    <3>2. Climbing(n, 0) BY <1>2, <2>1 DEF Climbing
    <3> QED BY <1>1, <1>2, <2>1, <3>1, <3>2 DEF MigrateInv
  <2> QED BY <2>2, <2>3
<1> QED BY <1>1, <1>3, <1>4

\* No process makes the tables all at once.
LEMMA NoneCreatesAll ==
  ASSUME MigrateInv, NEW p \in Processes
  PROVE ~CreatesAll(p)
<1> SUFFICES ASSUME p \in Running, NEW x \in DOMAIN todo[p], todo[p][x].do = "stamp", todo[p][x].to = HeadRevision
             PROVE FALSE
  BY DEF CreatesAll, Running
<1>1. HeadRevision # 1 BY HeadFacts, SMT
<1>2. \A n \in 0..HeadRevision : \A i \in 0..Len(Pending[n]) : todo[p] # Ahead(n, i)
  <2> SUFFICES ASSUME NEW n \in 0..HeadRevision, NEW i \in 0..Len(Pending[n]), todo[p] = Ahead(n, i) PROVE FALSE OBVIOUS
  <2>1. Len(Pending[n]) \in Nat /\ i \in Nat /\ x \in 1..(Len(Pending[n]) + 2 - i) /\ todo[p][x] = Line(n, i + x)
    BY PendingShape, SMT DEF Ahead
  <2>2. i + x <= Len(Pending[n]) => i + x \in 1..Len(Pending[n]) BY <2>1, SMT
  <2>3. i + x <= Len(Pending[n]) => Line(n, i + x).do # "stamp"
    <3>1. i + x <= Len(Pending[n]) => ~Queries(Pending[n][i + x]) BY <2>2, SchemaAssumption
    <3> QED BY <3>1 DEF Line, Queries
  <2>4. ~(i + x <= Len(Pending[n])) => Line(n, i + x).do # "stamp" BY DoFacts DEF Line
  <2> QED BY <2>1, <2>3, <2>4
<1>3. \A s \in Seq(Statements) : todo[p] # s
  <2> SUFFICES ASSUME todo[p] \in Seq(Statements) PROVE FALSE OBVIOUS
  <2>1. todo[p][x] \in Statements BY SMT
  <2> QED BY <1>1, <2>1, DoFacts DEF Statements
<1>4. Upgrading \in Seq(Statements) /\ (\A r \in Recording : r \o Upgrading \in Seq(Statements))
      /\ Closing \in Seq(Statements) /\ <<Do("check", 0)>> \in Seq(Statements) /\ <<>> \in Seq(Statements)
  <2> USE DEF Statements
  <2> HIDE DEF Do
  <2>1. Upgrading \in Seq(Statements) BY SMT DEF Upgrading
  <2>2. \A r \in Recording : r \in Seq(Statements)
    <3>1. /\ <<Do("stamp", 1)>> \in Seq(Statements) /\ <<Do("ensure", 0), Do("insert", 1)>> \in Seq(Statements)
          /\ <<Do("insert", 1)>> \in Seq(Statements) /\ <<Do("update", 1)>> \in Seq(Statements)
      BY SMT
    <3> QED BY <3>1 DEF Recording
  <2>3. Closing \in Seq(Statements) /\ <<Do("check", 0)>> \in Seq(Statements) /\ <<>> \in Seq(Statements) BY SMT DEF Closing
  <2> HIDE DEF Statements
  <2>4. \A r \in Recording : r \o Upgrading \in Seq(Statements) BY <2>1, <2>2, SMT
  <2> QED BY <2>1, <2>3, <2>4
<1>5. CASE AtHead
  <2>1. Stays(p) BY <1>5 DEF AtHead
  <2>2. \A n \in 0..(HeadRevision - 1) : \A i \in 0..Len(Pending[n]) : ~Doomed(p, n, i)
    <3>1. \A n \in 0..(HeadRevision - 1) : n \in 0..HeadRevision BY HeadFacts, SMT
    <3> QED BY <1>2, <3>1 DEF Doomed
  <2> QED BY <1>3, <1>4, <2>1, <2>2 DEF Stays
<1>6. CASE Adopting
  <2>1. Adopts(p) BY <1>6 DEF Adopting
  <2>2. 0 \in 0..Len(Pending[0]) BY FirstRelease, SMT
  <2> QED BY <1>2, <1>3, <1>4, <2>1, <2>2, FirstRelease DEF Adopts, Recording
<1>7. ASSUME NEW n \in 1..(HeadRevision - 1), NEW k \in Alone(n), Climbing(n, k) PROVE FALSE
  <2>1. Climbs(p, n, k) BY <1>7 DEF Climbing
  <2> QED BY <1>2, <1>3, <1>4, <2>1, EndFacts DEF Climbs
<1> QED BY <1>5, <1>6, <1>7 DEF MigrateInv

\* Every step keeps it.
LEMMA MigrateInvNext == MigrateInv /\ [MigrateNext]_migrateVars => MigrateInv'
<1> SUFFICES ASSUME MigrateInv, [MigrateNext]_migrateVars PROVE MigrateInv' OBVIOUS
<1> USE DEF MigrateInv
<1>1. CASE UNCHANGED migrateVars
  <2>1. AtHead => AtHead' BY <1>1 DEF migrateVars, AtHead, Stays, Doomed, View, Running
  <2>2. Adopting => Adopting' BY <1>1 DEF migrateVars, Adopting, Adopts, Running
  <2>3. \A n \in 1..(HeadRevision - 1) : \A k \in Alone(n) : Climbing(n, k) => Climbing(n, k)'
    BY <1>1 DEF migrateVars, Climbing, Climbs, Sole, Running
  <2> QED BY <1>1, <2>1, <2>2, <2>3 DEF migrateVars, MigrateTypes, Running
<1>2. CASE MigrateNext
  <2>1. PICK p \in Processes : Steps(p) BY <1>2 DEF MigrateNext, Steps
  <2>2. MigrateTypes' BY <2>1, Frame
  <2>3. torn' = FALSE
    <3>1. \A o \in Processes : ~CreatesAll(o) BY NoneCreatesAll
    <3> QED BY <2>1, <3>1 DEF Steps, Open, Decide, Run, Commit, GiveUp, Finish, Stop, Tears
  <2>4. ASSUME AtHead PROVE AtHead'
    BY <2>1, <2>4, AtHeadOpen, AtHeadDecide, AtHeadRun, AtHeadCommit, AtHeadLeaves DEF Steps
  <2>5. ~Finish(p) /\ (\A q \in Processes : at[q] # "done") => \A q \in Processes : at'[q] # "done"
    BY <2>1 DEF MigrateTypes, Steps, Open, Decide, Run, Commit, GiveUp, Stop, Leave
  <2>6. ASSUME Adopting PROVE AtHead' \/ (Adopting' /\ ~Finish(p))
    <3>1. Open(p) \/ Decide(p) \/ Run(p) => ~Finish(p) BY DEF Open, Decide, Run, Runs, Finish
    <3> QED BY <2>1, <2>6, <3>1, AdoptingOpen, AdoptingDecide, AdoptingRun, AdoptingCommit, AdoptingLeaves DEF Steps
  <2>7. ASSUME NEW n \in 1..(HeadRevision - 1), NEW k \in Alone(n), Climbing(n, k)
        PROVE AtHead' \/ (~Finish(p) /\ \E m \in Alone(n) : Climbing(n, m)')
    <3>1. Open(p) \/ Decide(p) \/ Run(p) => ~Finish(p) BY DEF Open, Decide, Run, Runs, Finish
    <3> QED BY <2>1, <2>7, <3>1, ClimbingOpen, ClimbingDecide, ClimbingRun, ClimbingCommit, ClimbingLeaves DEF Steps
  <2> QED BY <2>2, <2>3, <2>4, <2>5, <2>6, <2>7
<1> QED BY <1>1, <1>2

\* However many processes open an existing database at once, and wherever any
\* of them stops, whoever is done finds the schema its classes declare there,
\* recorded as the current one: from the database of any release, or from one
\* that was never under version control (upgrade_to_head).
THEOREM DoneHasTheSchema == MigrateSpec /\ disk # Nothing => [](DoneIsHead /\ ~torn)
<1>1. MigrateInv => DoneIsHead /\ ~torn
  <2> SUFFICES ASSUME MigrateInv, NEW p \in Processes, at[p] = "done"
               PROVE disk.tables = Metadata /\ HeadRevision \in disk.rows
    BY DEF MigrateInv, DoneIsHead
  <2>1. Declared(disk) /\ HeadRevision \in disk.rows BY DEF MigrateInv, AtHead
  <2> QED BY <2>1, DeclaredFields
<1> QED BY <1>1, MigrateInvInit, MigrateInvNext, PTL DEF MigrateSpec
=============================================================================
