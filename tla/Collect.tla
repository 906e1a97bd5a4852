------------------------------ MODULE Collect -------------------------------
(***************************************************************************)
(* Reading a machine over a connection (scanner/collectors.py): what       *)
(* follows connect_pinned in a scan and in a connection test, until the    *)
(* client is closed.  A command's output ends because the command is done, *)
(* because the far side gave up (the command was killed, the transport     *)
(* died), or because a watchdog closed the channel at the deadline; the    *)
(* reader cannot tell these apart by what it reads.                        *)
(*                                                                         *)
(* Extends HostKeys: every step here is a step of KeyNext or leaves its    *)
(* variables alone, but the client is closed only once the reading ended.  *)
(***************************************************************************)
EXTENDS HostKeys, Sequences

VARIABLES
  command,   \* the command a connection runs, or "none"
  stream,    \* how its output came to an end, "open" before it has
  watchdog,  \* steps the watchdog thread of the command has taken
  got,       \* how the outputs accepted so far came to their end (history)
  report     \* what the reading over a connection came to

readVars == <<command, stream, watchdog, got, report>>
vars == <<policy, pins, at, conn, writer, forgets, trusted, command, stream, watchdog, got, report>>

Commands == {"context", "packages", "banner"}
Ends == {"whole", "host", "watchdog"}   \* complete, or who cut it short
NotRead == "none"
Reports == {NotRead, "parsing", "INVENTORY", "INVENTORY_UNAVAILABLE", "SUCCESS", "CONNECTION_FAILURE"}

-----------------------------------------------------------------------------
Init ==
  /\ KeyInit
  /\ command = [c \in Conns |-> "none"]
  /\ stream = [c \in Conns |-> "open"]
  /\ watchdog = [c \in Conns |-> 0]
  /\ got = [c \in Conns |-> {}]
  /\ report = [c \in Conns |-> NotRead]

\* exec_command: the channel opens, and its watchdog is armed.
Exec(c, what) ==
  /\ at[c] = "connected" /\ command[c] = "none" /\ report[c] = NotRead
  /\ what = IF c \in Tests THEN "banner" ELSE IF got[c] = {} THEN "context" ELSE "packages"
  /\ command' = [command EXCEPT ![c] = what]
  /\ UNCHANGED <<keyVars, stream, watchdog, got, report>>

\* As a mutant: the watchdog closes the channel before it says so.
ClosesFirst == <<"close", "expire">>

\* _expire: the watchdog says it has expired, and then closes the channel.
WatchdogSteps == <<"expire", "close">>
Has(c, step) == \E i \in 1..watchdog[c] : WatchdogSteps[i] = step

\* As a mutant: the channel is never closed.
WatchdogOnlyExpires(c) ==
  /\ command[c] # "none" /\ watchdog[c] = 0
  /\ watchdog' = [watchdog EXCEPT ![c] = 1]
  /\ UNCHANGED <<keyVars, command, stream, got, report>>

\* The timer goes off at the deadline, and runs in a thread of its own.
Watchdog(c) ==
  /\ command[c] # "none" /\ watchdog[c] < Len(WatchdogSteps)
  /\ watchdog' = [watchdog EXCEPT ![c] = @ + 1]
  /\ UNCHANGED <<keyVars, command, stream, got, report>>

\* Stdout ends: read() returns nothing more.
OutputEnds(c, how) ==
  /\ command[c] # "none" /\ stream[c] = "open"
  /\ how = "watchdog" <=> Has(c, "close")
  /\ stream' = [stream EXCEPT ![c] = how]
  /\ UNCHANGED <<keyVars, command, watchdog, got, report>>

\* A command that failed ends the reading: the host sent too much or was too
\* slow, or the connection is lost.
LimitReport(c) == IF c \in Tests THEN "SUCCESS" ELSE "INVENTORY_UNAVAILABLE"
CommandOver(c) ==
  /\ command' = [command EXCEPT ![c] = "none"]
  /\ stream' = [stream EXCEPT ![c] = "open"]
  /\ watchdog' = [watchdog EXCEPT ![c] = 0]
  /\ UNCHANGED keyVars
Fails(c, why) ==
  /\ CommandOver(c)
  /\ report' = [report EXCEPT ![c] = why]
  /\ UNCHANGED got

TooMuch(c) ==
  /\ command[c] # "none" /\ stream[c] = "open"
  /\ Fails(c, LimitReport(c))

\* A read raises: it timed out, or the channel was closed under it.
ReadRaises(c) ==
  /\ command[c] # "none"
  /\ Fails(c, IF Has(c, "expire") THEN LimitReport(c) ELSE "CONNECTION_FAILURE")

\* Stderr and the exit status are read, the watchdog is cancelled, and the
\* output is taken unless it had expired.
Finish(c) ==
  /\ command[c] # "none" /\ stream[c] # "open"
  /\ IF Has(c, "expire")
     THEN Fails(c, LimitReport(c))
     ELSE /\ CommandOver(c)
          /\ got' = [got EXCEPT ![c] = @ \cup {stream[c]}]
          /\ report' = [report EXCEPT ![c] =
               IF command[c] = "banner" THEN "SUCCESS"
               ELSE IF command[c] = "packages" THEN "parsing" ELSE @]

\* The listing says there is no package manager, nothing in it parses, or it
\* is the inventory.
Parse(c, listing) ==
  /\ report[c] = "parsing"
  /\ report' = [report EXCEPT ![c] =
       IF listing = "packages" THEN "INVENTORY" ELSE "INVENTORY_UNAVAILABLE"]
  /\ UNCHANGED <<keyVars, command, stream, watchdog, got>>

\* The client is closed on the way out, whatever the outcome.
Closing(c) ==
  /\ Leave(c)
  /\ command[c] = "none"
  /\ at[c] = "connected" => report[c] \notin {NotRead, "parsing"}
  /\ got' = [got EXCEPT ![c] = {}]
  /\ report' = [report EXCEPT ![c] = NotRead]
  /\ UNCHANGED <<command, stream, watchdog>>

Reading(c) ==
  \/ \E what \in Commands : Exec(c, what)
  \/ \E how \in Ends : OutputEnds(c, how)
  \/ TooMuch(c) \/ ReadRaises(c) \/ Finish(c)
  \/ \E l \in {"packages", "unsupported", "nothing"} : Parse(c, l)

Next ==
  \/ \E c \in Conns : \/ (Starts(c) \/ Connecting(c)) /\ UNCHANGED readVars
                      \/ Watchdog(c) \/ Reading(c) \/ Closing(c)
  \/ \E a \in Addresses : Forget(a) /\ UNCHANGED readVars

Spec == Init /\ [][Next]_vars

\* A connection's thread goes on: dialling, reading and the database have
\* timeouts of their own, so none of its steps waits for ever.  A stream stays
\* open as long as the host trickles; the watchdog's timer goes off all the same.
FairSpec ==
  /\ Spec
  /\ \A c \in Conns : /\ WF_vars(Connecting(c) /\ UNCHANGED readVars)
                      /\ WF_vars(Watchdog(c))
                      /\ WF_vars(\E what \in Commands : Exec(c, what))
                      /\ WF_vars(OutputEnds(c, "watchdog"))
                      /\ WF_vars(Finish(c))
                      /\ WF_vars(\E l \in {"packages", "unsupported", "nothing"} : Parse(c, l))
                      /\ WF_vars(Closing(c))

-----------------------------------------------------------------------------
(* Properties *)

ReadTypeOK ==
  /\ command \in [Conns -> Commands \cup {"none"}]
  /\ stream \in [Conns -> Ends \cup {"open"}]
  /\ watchdog \in [Conns -> 0..2]
  /\ got \in [Conns -> SUBSET Ends]
  /\ report \in [Conns -> Reports]

\* No inventory is read off an output that the deadline cut short: it would
\* parse as a smaller one, and resolve the findings of what is missing (Req
\* 1.11, _run_ssh_command_detailed).
NeverCutShort ==
  \A c \in Conns : report[c] \in {"parsing", "INVENTORY"} => "watchdog" \notin got[c]

\* "never a truncated result, which would parse as a smaller inventory and
\* quietly report the missing packages resolved" (collectors.py:420).  It does
\* not hold of a command that was killed: see the README.
NeverTruncated ==
  \A c \in Conns : report[c] = "INVENTORY" => got[c] = {"whole"}

\* A connection ends, however slowly the host sends and whoever else pins.
EveryConnectionEnds == \A c \in Conns : at[c] # "idle" ~> at[c] = "idle"
=============================================================================
