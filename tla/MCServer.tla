------------------------------ MODULE MCServer ------------------------------
(***************************************************************************)
(* The parts of the server that share no state with the scans, one beside  *)
(* the other: accounts and sessions, with one account and before there is  *)
(* one; the slowing down of sign-ins; the dashboard following a job; the   *)
(* schema being brought up to date.  A part that is not looked at stays as *)
(* it began.                                                               *)
(***************************************************************************)
EXTENDS Sessions, LoginThrottle, FollowJob, Migrations

VARIABLE part

mcVars == <<part, vars, throttleVars, followVars, migrateVars>>

\* Two names, no account of a configuration, and one session each.
R == INSTANCE Sessions WITH Usernames <- {"ann", "bob"}, Admin <- None, MaxSessions <- 1, MaxTime <- 2

\* A name is typed two ways; one address tries more often than the other.
MCAccount(u) == IF u = "Ann" THEN "ann" ELSE u
MCAttempts == "here" :> 4 @@ "there" :> 1

\* The classes and the revisions as they are.
S == INSTANCE Schema
MCMetadata == S!MetadataTables
MCRevisions == S!RevisionList

NoFollower == FollowInit /\ status = [j \in Jobs |-> "none"]
NoMigration ==
  /\ disk = Nothing /\ writer = Nobody /\ draft = Nothing
  /\ at = [p \in Processes |-> "off"] /\ todo = [p \in Processes |-> <<>>] /\ torn = FALSE

MCInit ==
  /\ ThrottleInit
  /\ \/ part = "sessions" /\ Init /\ NoFollower /\ NoMigration
     \/ part = "first run" /\ R!Init /\ NoFollower /\ NoMigration
     \/ part = "sign-ins" /\ Init /\ NoFollower /\ NoMigration
     \/ part = "job" /\ Init /\ FollowInit /\ NoMigration
     \/ part = "schema" /\ Init /\ NoFollower /\ MigrateInit

MCNext ==
  /\ UNCHANGED part
  /\ \/ part = "sessions" /\ Next /\ UNCHANGED <<throttleVars, followVars, migrateVars>>
     \/ part = "first run" /\ R!Next /\ UNCHANGED <<throttleVars, followVars, migrateVars>>
     \/ part = "sign-ins" /\ ThrottleNext /\ UNCHANGED <<vars, followVars, migrateVars>>
     \/ part = "job" /\ FollowNext /\ UNCHANGED <<vars, throttleVars, migrateVars>>
     \/ part = "schema" /\ MigrateNext /\ UNCHANGED <<vars, throttleVars, followVars>>

MCSpec == MCInit /\ [][MCNext]_mcVars

MCSymmetry == Permutations(Requests)
=============================================================================
