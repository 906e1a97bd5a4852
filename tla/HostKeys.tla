------------------------------ MODULE HostKeys ------------------------------
(***************************************************************************)
(* Pinned SSH host keys (scanner/host_keys.py, over the store in           *)
(* api/wiring.py and the rows of data/repository.py): trust on first use,  *)
(* then hold every host to its key.  Scans and connection tests share the  *)
(* rows, each connection in a session of its own: between the read of a    *)
(* pin and its use the network is waited for, and others may pin the       *)
(* address or forget it.                                                   *)
(*                                                                         *)
(* An address presents whatever key it likes at every handshake: the host  *)
(* may have been reinstalled, or another may answer for it.  A connection's*)
(* place, at[c], is that of its thread, or the outcome it was given.       *)
(***************************************************************************)
EXTENDS Integers, FiniteSets

CONSTANTS
  Scans, Tests,     \* connections made by scans, and by connection tests
  Addresses, Keys,
  NoKey, Nobody,
  MaxForgets        \* how often an address is forgotten: a bound of the model

Conns == Scans \cup Tests

ASSUME KeysAssumption ==
  /\ Scans \cap Tests = {}
  /\ NoKey \notin Keys /\ Nobody \notin Conns
  /\ MaxForgets \in Nat

VARIABLES
  policy,   \* CVEDECK_SSH_HOST_KEY_POLICY
  pins,     \* pins[a]: the ssh_host_keys row of an address, as committed
  at,       \* where a connection is
  conn,     \* what a connection has read and seen
  writer,   \* the test that has flushed a pin it has not committed
  forgets,  \* how often an address's pin was forgotten (history)
  trusted   \* <<address, forgets, key>> of every connection that went through (history)

keyVars == <<policy, pins, at, conn, writer, forgets, trusted>>

Refusals == {"HOST_KEY_MISMATCH", "HOST_KEY_UNKNOWN"}
Outcomes == Refusals \cup {"AUTH_FAILURE", "CONNECTION_FAILURE", "ERROR"}
Places == Outcomes \cup {"idle", "dialling", "proved", "flushed", "lost", "connected"}
Connection == [addr : Addresses, pinned : Keys \cup {NoKey}, key : Keys \cup {NoKey}, since : Nat]

-----------------------------------------------------------------------------
\* The pins an earlier process left are there.
KeyInit ==
  /\ policy \in {"tofu", "strict"}
  /\ pins \in [Addresses -> Keys \cup {NoKey}]
  /\ at = [c \in Conns |-> "idle"]
  /\ \E a \in Addresses :
       conn = [c \in Conns |-> [addr |-> a, pinned |-> NoKey, key |-> NoKey, since |-> 0]]
  /\ writer = Nobody
  /\ forgets = [a \in Addresses |-> 0]
  /\ trusted = {<<a, 0, pins[a]>> : a \in {b \in Addresses : pins[b] # NoKey}}

Goes(c, place) == at' = [at EXCEPT ![c] = place]

\* The private key is parsed, or the credentials resolved, before the network.
BadMaterial(c) ==
  /\ at[c] = "idle"
  /\ Goes(c, "AUTH_FAILURE")
  /\ UNCHANGED <<policy, pins, conn, writer, forgets, trusted>>

\* connect_pinned: what is pinned is read, and the host dialled.
Dial(c, a) ==
  /\ at[c] = "idle"
  /\ Goes(c, "dialling")
  /\ conn' = [conn EXCEPT ![c] = [addr |-> a, pinned |-> pins[a], key |-> NoKey, since |-> forgets[a]]]
  /\ UNCHANGED <<policy, pins, writer, forgets, trusted>>

\* Why a presented key ends the connection before any credential is offered:
\* it is not the pinned one, or PinningPolicy refuses a host without one.
MayRefuse(c, k) ==
  IF conn[c].pinned # NoKey
  THEN IF k = conn[c].pinned THEN {} ELSE {"HOST_KEY_MISMATCH"}
  ELSE IF policy = "strict" THEN {"HOST_KEY_UNKNOWN"} ELSE {}

\* client.connect: the handshake, and then the credentials.
Handshake(c, k) ==
  /\ at[c] = "dialling"
  /\ conn' = [conn EXCEPT ![c].key = k]
  /\ IF MayRefuse(c, k) # {}
     THEN \E o \in MayRefuse(c, k) : Goes(c, o)
     ELSE \E o \in {"AUTH_FAILURE", "CONNECTION_FAILURE", "proved"} : Goes(c, o)
  /\ UNCHANGED <<policy, pins, writer, forgets, trusted>>

Unreachable(c) ==
  /\ at[c] = "dialling"
  /\ Goes(c, "CONNECTION_FAILURE")
  /\ UNCHANGED <<policy, pins, conn, writer, forgets, trusted>>

\* A connection goes through, on the word of a pin that was current when the
\* address had been forgotten `since' times.
GoesThrough(c, since) ==
  /\ Goes(c, "connected")
  /\ conn' = [conn EXCEPT ![c].since = since]
  /\ trusted' = trusted \cup {<<conn[c].addr, since, conn[c].key>>}

\* store.touch: the row, if it is still there, is marked as seen.
Touch(c) ==
  /\ at[c] = "proved" /\ conn[c].pinned # NoKey
  /\ GoesThrough(c, conn[c].since)
  /\ UNCHANGED <<policy, pins, writer, forgets>>

\* store.pin, in a savepoint: one that finds the address pinned by now has lost
\* the race.  A scan commits at once; a test flushes, and others wait for its
\* commit.
Pin(c) ==
  LET a == conn[c].addr IN
  /\ at[c] = "proved" /\ conn[c].pinned = NoKey /\ writer = Nobody
  /\ \/ /\ pins[a] # NoKey
        /\ Goes(c, "lost")
        /\ UNCHANGED <<pins, conn, writer, trusted>>
     \/ /\ pins[a] = NoKey /\ c \in Scans
        /\ pins' = [pins EXCEPT ![a] = conn[c].key]
        /\ GoesThrough(c, forgets[a])
        /\ UNCHANGED writer
     \/ /\ pins[a] = NoKey /\ c \in Tests
        /\ Goes(c, "flushed")
        /\ writer' = c
        /\ UNCHANGED <<pins, conn, trusted>>
  /\ UNCHANGED <<policy, forgets>>

\* The session.commit() of a test, right after connect_pinned.
CommitPin(c) ==
  LET a == conn[c].addr IN
  /\ at[c] = "flushed"
  /\ pins' = [pins EXCEPT ![a] = conn[c].key]
  /\ writer' = Nobody
  /\ GoesThrough(c, forgets[a])
  /\ UNCHANGED <<policy, forgets>>

\* As a mutant: whoever pinned first is taken to have seen the same host.
CompareNothing(c) ==
  LET a == conn[c].addr IN
  /\ at[c] = "lost"
  /\ GoesThrough(c, forgets[a])
  /\ UNCHANGED <<policy, pins, writer, forgets>>

\* The loser reads the winner's pin: it saw the same key, or another host, or
\* the pin has been forgotten since and the error stands.
Compare(c) ==
  LET a == conn[c].addr IN
  /\ at[c] = "lost"
  /\ \/ /\ pins[a] = conn[c].key
        /\ GoesThrough(c, forgets[a])
     \/ /\ pins[a] \notin {NoKey, conn[c].key}
        /\ Goes(c, "HOST_KEY_MISMATCH")
        /\ UNCHANGED <<conn, trusted>>
     \/ /\ pins[a] = NoKey
        /\ Goes(c, "ERROR")
        /\ UNCHANGED <<conn, trusted>>
  /\ UNCHANGED <<policy, pins, writer, forgets>>

\* The database refuses the write or the commit: locked too long.
WriteRefused(c) ==
  /\ at[c] \in {"proved", "flushed", "lost"}
  /\ Goes(c, "ERROR")
  /\ writer' = IF writer = c THEN Nobody ELSE writer
  /\ UNCHANGED <<policy, pins, conn, forgets, trusted>>

\* DELETE /api/host-keys/{hostname}.
Forget(a) ==
  /\ pins[a] # NoKey /\ writer = Nobody /\ forgets[a] < MaxForgets
  /\ pins' = [pins EXCEPT ![a] = NoKey]
  /\ forgets' = [forgets EXCEPT ![a] = @ + 1]
  /\ UNCHANGED <<policy, at, conn, writer, trusted>>

\* client.close(): the connection is over, and its slot free for another.
Leave(c) ==
  /\ at[c] \in Outcomes \cup {"connected"}
  /\ Goes(c, "idle")
  /\ conn' = [conn EXCEPT ![c] = [addr |-> conn[c].addr, pinned |-> NoKey, key |-> NoKey, since |-> 0]]
  /\ UNCHANGED <<policy, pins, writer, forgets, trusted>>

Connecting(c) ==
  \/ Unreachable(c)
  \/ \E k \in Keys : Handshake(c, k)
  \/ Touch(c) \/ Pin(c) \/ CommitPin(c) \/ Compare(c) \/ WriteRefused(c)

Starts(c) == BadMaterial(c) \/ \E a \in Addresses : Dial(c, a)

KeyNext ==
  \/ \E c \in Conns : Starts(c) \/ Connecting(c) \/ Leave(c)
  \/ \E a \in Addresses : Forget(a)

KeySpec == KeyInit /\ [][KeyNext]_keyVars

-----------------------------------------------------------------------------
(* Properties *)

KeyTypeOK ==
  /\ policy \in {"tofu", "strict"}
  /\ pins \in [Addresses -> Keys \cup {NoKey}]
  /\ at \in [Conns -> Places]
  /\ conn \in [Conns -> Connection]
  /\ writer \in Tests \cup {Nobody}
  /\ forgets \in [Addresses -> Nat]
  /\ trusted \subseteq Addresses \X Nat \X Keys

\* Between two forgettings of an address every connection to it that went
\* through saw one key, however the first connections raced (Req 17.3, 17.9).
OneKeyPerPin ==
  \A t, u \in trusted : t[1] = u[1] /\ t[2] = u[2] => t[3] = u[3]

\* A pin is the key of a connection that went through: none comes from a host
\* that refused the credentials or could not prove its key (Req 17.1).
PinnedIsTrusted ==
  \A a \in Addresses : pins[a] # NoKey => <<a, forgets[a], pins[a]>> \in trusted

Presents(c) ==
  /\ at[c] \in {"proved", "flushed", "lost", "connected"} => conn[c].key \in Keys
  /\ at[c] \in {"flushed", "lost"} => conn[c].pinned = NoKey
  /\ at[c] = "flushed" <=> writer = c
  /\ at[c] = "flushed" => pins[conn[c].addr] = NoKey

\* What a connection read is what was pinned then, and trusted.
ReadIsTrusted(c) ==
  /\ conn[c].since <= forgets[conn[c].addr]
  /\ conn[c].pinned # NoKey => <<conn[c].addr, conn[c].since, conn[c].pinned>> \in trusted
  /\ at[c] \in {"proved"} /\ conn[c].pinned # NoKey => conn[c].key = conn[c].pinned

\* Nothing was trusted since the last forgetting of an address without a pin.
TrustIsOfPins ==
  \A t \in trusted : /\ t[2] <= forgets[t[1]]
                     /\ t[2] = forgets[t[1]] => pins[t[1]] = t[3]

\* The inductive invariant.
KeyInv ==
  /\ KeyTypeOK
  /\ OneKeyPerPin
  /\ PinnedIsTrusted
  /\ TrustIsOfPins
  /\ \A c \in Conns : Presents(c) /\ ReadIsTrusted(c)
=============================================================================
