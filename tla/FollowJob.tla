------------------------------ MODULE FollowJob ------------------------------
(***************************************************************************)
(* The dashboard following a background scan (frontend/src/lib/            *)
(* useScanJob.ts): it starts a job or finds one, polls it, may cancel it,  *)
(* and tells of its end.  A request is answered with what the server knows *)
(* when it is served, and the answer arrives whenever it does: an answer   *)
(* of a poll is used even if the page has turned to another job since.     *)
(* The effects that poll and look follow the job only once the page has    *)
(* been rendered again.                                                    *)
(***************************************************************************)
EXTENDS Naturals, FiniteSets

CONSTANTS Jobs, NoJob,
  Slots,    \* bound: the requests under way at once
  MaxTold   \* bound: how often telling is counted

ASSUME FollowAssumption == NoJob \notin Jobs /\ MaxTold \in Nat \ {0, 1}

VARIABLES
  status,      \* the server's jobs: none, active, ended or pruned
  job,         \* the job the page follows
  effect,      \* the job its timers are set for
  request,     \* request[s]: a request under way
  followed, told,   \* history: what the page followed, and how often it told of an end
  left,        \* history: jobs it gave up for another, and heard nothing of since
  doubled      \* history: jobs it told of while another request about them was
               \* under way, or polled after it had turned away

followVars == <<status, job, effect, request, followed, told, left, doubled>>
pageVars == <<job, followed, told, left, doubled>>

NoRequest == [kind |-> "none", about |-> NoJob, answer |-> "none", current |-> FALSE]
Kinds == {"poll", "look", "start", "get", "cancel"}

FollowInit ==
  /\ status \in [Jobs -> {"none", "active"}]
  /\ job = NoJob /\ effect = NoJob
  /\ request = [s \in Slots |-> NoRequest]
  /\ followed = {} /\ told = [j \in Jobs |-> 0]
  /\ left = {} /\ doubled = {}

-----------------------------------------------------------------------------
(* The server.                                                             *)

Server(j, from, to) == status[j] = from /\ status' = [status EXCEPT ![j] = to]
Begins(j) == Server(j, "none", "active")
Ends(j) == Server(j, "active", "ended")
Prunes(j) == Server(j, "ended", "pruned")
ServerStep ==
  /\ \E j \in Jobs : Begins(j) \/ Ends(j) \/ Prunes(j)
  /\ UNCHANGED <<pageVars, effect, request>>

-----------------------------------------------------------------------------
(* Requests are sent.                                                      *)

UnderWay(kinds) == {s \in Slots : request[s].kind \in kinds}
About(j) == {s \in Slots : request[s].about = j}

Send(s, kind, j) ==
  /\ request[s] = NoRequest
  /\ request' = [request EXCEPT ![s] = [kind |-> kind, about |-> j, answer |-> "none", current |-> TRUE]]

\* The timer is that of the last render.
Busy == \E s \in UnderWay({"poll"}) : request[s].current
Poll(s) ==
  /\ effect # NoJob /\ ~Busy
  /\ Send(s, "poll", effect)
  /\ doubled' = doubled \cup ({effect} \ {job})
  /\ UNCHANGED <<status, job, effect, followed, told, left>>

Look(s) ==
  /\ effect = NoJob
  /\ Send(s, "look", NoJob)
  /\ UNCHANGED <<status, pageVars, effect>>

\* What a person does, on a page that has been rendered.  The forms are off
\* while a job is followed or one is being started.
Start(s, j) ==
  /\ effect = NoJob /\ job = NoJob /\ UnderWay({"start", "get"}) = {}
  /\ status[j] = "none"
  /\ Send(s, "start", j)
  /\ UNCHANGED <<status, pageVars, effect>>

Cancel(s) ==
  /\ effect = job /\ job # NoJob /\ UnderWay({"cancel"}) = {}
  /\ Send(s, "cancel", job)
  /\ UNCHANGED <<status, pageVars, effect>>

-----------------------------------------------------------------------------
(* They are served, or lost.                                               *)

Answer(s, about, answer) ==
  request' = [request EXCEPT ![s].about = about, ![s].answer = answer]

\* A queued job is cancelled at once, a running one after the host it is at,
\* and one that has ended is refused.
Served(s) ==
  LET q == request[s] IN
  /\ q.answer = "none"
  /\ \/ /\ q.kind \in {"poll", "get"}
        /\ Answer(s, q.about, status[q.about])
        /\ UNCHANGED status
     \/ /\ q.kind = "start" /\ Begins(q.about)
        /\ Answer(s, q.about, "active")
     \/ /\ q.kind = "cancel" /\ status[q.about] = "active"
        /\ \E to \in {"active", "ended"} :
             Answer(s, q.about, to) /\ status' = [status EXCEPT ![q.about] = to]
     \/ /\ q.kind = "cancel" /\ status[q.about] # "active"
        /\ Answer(s, q.about, "refused")
        /\ UNCHANGED status
     \/ /\ q.kind = "look"
        /\ \/ \E j \in Jobs : status[j] = "active" /\ Answer(s, j, "active")
           \/ (\A j \in Jobs : status[j] # "active") /\ Answer(s, NoJob, "nothing")
        /\ UNCHANGED status
  /\ UNCHANGED <<pageVars, effect>>

\* A request whose answer is lost, or that finds no job to begin, is dropped.
Lost(s) ==
  /\ request[s] # NoRequest
  /\ request' = [request EXCEPT ![s] = NoRequest]
  /\ UNCHANGED <<status, pageVars, effect>>

-----------------------------------------------------------------------------
(* An answer arrives.                                                      *)

\* The page turns to a job, or to none, on an answer about one.
Turn(to, about) ==
  /\ job' = to
  /\ followed' = followed \cup {about}
  /\ left' = (left \cup ({job} \ {NoJob})) \ {about}

Keep(j) == Turn(j, j) /\ UNCHANGED <<told, doubled>>

\* onFinished, or onLost.
Tell(s, j) ==
  /\ told' = [told EXCEPT ![j] = IF @ < MaxTold THEN @ + 1 ELSE @]
  /\ doubled' = IF About(j) \subseteq {s} THEN doubled ELSE doubled \cup {j}

\* As a mutant: a job that has ended is told of and followed on.
FollowOn(s, j, answer) ==
  Turn(j, j) /\ IF answer = "ended" THEN Tell(s, j) ELSE UNCHANGED <<told, doubled>>

\* Tells of a job that has ended, and follows one that has not.
Follow(s, j, answer) ==
  IF answer = "ended" THEN Turn(NoJob, j) /\ Tell(s, j) ELSE Keep(j)

\* A job that is gone is told of as lost, and only by a poll.
Arrives(s) ==
  LET q == request[s] IN
  /\ q.answer # "none"
  /\ \/ /\ q.kind \in {"poll", "get", "cancel"} /\ q.answer \in {"active", "ended"}
        /\ Follow(s, q.about, q.answer)
        /\ request' = [request EXCEPT ![s] = NoRequest]
     \/ /\ q.kind = "poll" /\ q.answer = "pruned"
        /\ Turn(NoJob, q.about) /\ Tell(s, q.about)
        /\ request' = [request EXCEPT ![s] = NoRequest]
     \/ /\ q.kind = "start"
        /\ request' = [request EXCEPT ![s] = [q EXCEPT !.kind = "get", !.answer = "none"]]
        /\ UNCHANGED pageVars
     \/ /\ q.kind = "look" /\ q.current /\ q.answer = "active" /\ job = NoJob
        /\ Keep(q.about)
        /\ request' = [request EXCEPT ![s] = NoRequest]
     \/ /\ q.answer \in {"nothing", "refused"} \/ (q.kind \in {"get", "cancel"} /\ q.answer = "pruned")
           \/ (q.kind = "look" /\ ~(q.current /\ job = NoJob))
        /\ request' = [request EXCEPT ![s] = NoRequest]
        /\ UNCHANGED pageVars
  /\ UNCHANGED <<status, effect>>

\* The effects are cleaned up and set for the job: a look under way is not
\* used any more, and a poll under way no longer keeps the next one back.
Render ==
  /\ effect # job
  /\ effect' = job
  /\ request' = [s \in Slots |-> [request[s] EXCEPT !.current = FALSE]]
  /\ UNCHANGED <<status, pageVars>>

FollowNext ==
  \/ ServerStep \/ Render
  \/ \E s \in Slots :
       Poll(s) \/ Look(s) \/ Cancel(s) \/ Served(s) \/ Arrives(s) \/ Lost(s) \/ \E j \in Jobs : Start(s, j)

FollowSpec == FollowInit /\ [][FollowNext]_followVars

-----------------------------------------------------------------------------
\* The end of a job is told once, whatever requests overlap, are lost or arrive
\* late (useScanJob: "calling onFinished exactly once when the job ends").  No job
\* is told of before it has ended.  Once one is, the page is off it and does not
\* tell of it again, unless another request about it was under way then, or a timer
\* it had left asked again.  No job is left untold, unless the page was turned to
\* another by an answer about that.
EndToldOnce ==
  \A j \in Jobs :
    /\ told[j] > 0 => status[j] \in {"ended", "pruned"}
    /\ told[j] > 0 /\ j \notin doubled => told[j] = 1 /\ j # job
    /\ j \in followed \ (left \cup {job}) => told[j] > 0
=============================================================================
