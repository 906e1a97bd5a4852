---------------------------- MODULE LoginThrottle ----------------------------
(***************************************************************************)
(* Failed sign-ins are slowed down (auth/throttle.py), as the routes of    *)
(* api/auth_routes.py ask: an attempt is let through or refused, then its  *)
(* password is worked on while others come, and how it ended is recorded.  *)
(* Counts are kept for an address and account together and for an address  *)
(* alone; they are in memory, and a restart forgets them.                  *)
(***************************************************************************)
EXTENDS Naturals, Sequences, FiniteSets

CONSTANTS
  Clients, Typed, Account(_),   \* what was typed, and the account that names
  Threads,                      \* the attempts worked on at once
  FREE_ATTEMPTS, FREE_ATTEMPTS_PER_CLIENT, BASE_DELAY, MAX_DELAY, FORGET_AFTER,
  FloatExponent,                \* the first power of two no float holds
  MaxClock, MaxAttempts         \* bounds: of time, and of an address's attempts without a success

Least(x, y) == IF x < y THEN x ELSE y
Delay(over) == Least(MAX_DELAY, BASE_DELAY * 2 ^ over)

ASSUME ThrottleAssumption ==
  /\ {FREE_ATTEMPTS, FREE_ATTEMPTS_PER_CLIENT, BASE_DELAY} \subseteq Nat \ {0}
  /\ {FORGET_AFTER, FloatExponent, MaxClock} \subseteq Nat
  /\ BASE_DELAY <= FORGET_AFTER
  /\ IsFiniteSet(Threads) /\ "none" \notin Clients
\* No delay that can be computed is shorter than the first.
ASSUME DelayAssumption ==
  \A over \in 0 .. FloatExponent : over < FloatExponent => Delay(over) \in Nat /\ BASE_DELAY <= Delay(over)

VARIABLES
  clock,
  entries,     \* entries[k]: failures of a key, when it is free again, its last failure
  trying,      \* trying[t]: the attempt a thread works on
  attempts,    \* history: of each key, the attempts worked on since it last succeeded
  since,       \* history: and when that was
  overflowed   \* history: keys that were not delayed for want of a number, since they last succeeded

throttleVars == <<clock, entries, trying, attempts, since, overflowed>>

AccountKey(c, u) == <<c, Account(u)>>
ClientKey(c) == <<c>>
KeysOf(c, u) == {AccountKey(c, u), ClientKey(c)}
Keys == UNION {KeysOf(c, u) : c \in Clients, u \in Typed}
Free(k) == IF Len(k) = 1 THEN FREE_ATTEMPTS_PER_CLIENT ELSE FREE_ATTEMPTS

NoEntry == [failures |-> 0, lockedUntil |-> 0, lastFailure |-> 0]
NoAttempt == [client |-> "none", name |-> "none"]

ThrottleInit ==
  /\ clock = 0
  /\ entries = [k \in Keys |-> NoEntry]
  /\ trying = [t \in Threads |-> NoAttempt]
  /\ attempts = [k \in Keys |-> 0] /\ since = [k \in Keys |-> 0]
  /\ overflowed = {}

-----------------------------------------------------------------------------
Greatest(S) == CHOOSE x \in S : \A y \in S : y <= x

Wait(k) == IF entries[k].lockedUntil > clock THEN entries[k].lockedUntil - clock ELSE 0
RetryAfter(c, u) == Greatest({Wait(k) : k \in KeysOf(c, u)})

Stale(e) == e.failures > 0 /\ clock - e.lastFailure > FORGET_AFTER /\ clock >= e.lockedUntil
ForgetStale(es) == [k \in Keys |-> IF Stale(es[k]) THEN NoEntry ELSE es[k]]

Over(k, es) == es[k].failures + 1 - Free(k)
Overflows(k, es) == es[k].failures + 1 >= Free(k) /\ Over(k, es) >= FloatExponent

\* The failure is counted before its delay is computed.
Fail(k, es) ==
  [es EXCEPT ![k] =
    [failures |-> @.failures + 1, lastFailure |-> clock,
     lockedUntil |-> IF es[k].failures + 1 >= Free(k) /\ ~Overflows(k, es) THEN clock + Delay(Over(k, es)) ELSE @.lockedUntil]]

-----------------------------------------------------------------------------
Attempt(t, c, u) ==
  /\ trying[t] = NoAttempt /\ RetryAfter(c, u) = 0
  /\ \A k \in KeysOf(c, u) : attempts[k] < MaxAttempts[c]
  /\ trying' = [trying EXCEPT ![t] = [client |-> c, name |-> u]]
  /\ attempts' = [k \in Keys |-> IF k \in KeysOf(c, u) THEN attempts[k] + 1 ELSE attempts[k]]
  /\ UNCHANGED <<clock, entries, since, overflowed>>

\* As a mutant: failures are counted for the account alone.
RecordForAccount(c, u) ==
  LET kept == ForgetStale(entries) IN
  /\ entries' = Fail(AccountKey(c, u), kept)
  /\ overflowed' = IF Overflows(AccountKey(c, u), kept) THEN overflowed \cup KeysOf(c, u) ELSE overflowed

\* An account whose delay overflows ends the call before its address is counted.
RecordFailure(c, u) ==
  LET kept == ForgetStale(entries)
      failed == Fail(AccountKey(c, u), kept)
      raised == Overflows(AccountKey(c, u), kept)
  IN /\ entries' = IF raised THEN failed ELSE Fail(ClientKey(c), failed)
     /\ overflowed' = IF raised THEN overflowed \cup KeysOf(c, u)
                       ELSE IF Overflows(ClientKey(c), failed) THEN overflowed \cup {ClientKey(c)}
                       ELSE overflowed

Failed(t) ==
  /\ trying[t] # NoAttempt
  /\ RecordFailure(trying[t].client, trying[t].name)
  /\ trying' = [trying EXCEPT ![t] = NoAttempt]
  /\ UNCHANGED <<clock, attempts, since>>

\* Attempts still worked on are counted again.
Under(k, t) == {o \in Threads \ {t} : trying[o] # NoAttempt /\ k \in KeysOf(trying[o].client, trying[o].name)}
Succeeded(t) ==
  /\ trying[t] # NoAttempt
  /\ LET keys == KeysOf(trying[t].client, trying[t].name) IN
       /\ entries' = [k \in Keys |-> IF k \in keys THEN NoEntry ELSE entries[k]]
       /\ attempts' = [k \in Keys |-> IF k \in keys THEN Cardinality(Under(k, t)) ELSE attempts[k]]
       /\ since' = [k \in Keys |-> IF k \in keys THEN clock ELSE since[k]]
       /\ overflowed' = overflowed \ keys
  /\ trying' = [trying EXCEPT ![t] = NoAttempt]
  /\ UNCHANGED clock

Pass ==
  /\ clock < MaxClock
  /\ clock' = clock + 1
  /\ UNCHANGED <<entries, trying, attempts, since, overflowed>>

ThrottleNext ==
  \/ \E t \in Threads : Failed(t) \/ Succeeded(t) \/ \E c \in Clients, u \in Typed : Attempt(t, c, u)
  \/ Pass

ThrottleSpec == ThrottleInit /\ [][ThrottleNext]_throttleVars

-----------------------------------------------------------------------------
\* However many names are tried and however many attempts come at once, the
\* passwords an address makes the server work on without a success are few:
\* its free ones and those worked on at once, in the time of the shortest
\* delay.  So it is for one account however it is typed.  An account whose delay
\* overflows, and the address that tries it, are without a bound until a sign-in
\* succeeds; every other key keeps its own.
WorkIsBounded ==
  \A k \in Keys \ overflowed :
    attempts[k] <= (Free(k) + Cardinality(Threads) - 1) * (1 + (clock - since[k]) \div BASE_DELAY)
=============================================================================
