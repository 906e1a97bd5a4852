----------------------------- MODULE Migrations -----------------------------
(***************************************************************************)
(* The schema brought up to date when a process opens the database         *)
(* (data/migrations_runtime.py), on SQLite.  A statement that changes the  *)
(* schema is committed by itself until the first one that writes a row     *)
(* begins a transaction: from there on all of it is committed, or nothing. *)
(* The server and a command may do this at once, and either may stop       *)
(* anywhere.  A revision is its place in the list of them; the classes and *)
(* the revisions are constants, so that what is shown rests on nothing     *)
(* else of them than SchemaAssumption.                                     *)
(***************************************************************************)
EXTENDS Integers, FiniteSets, SequencesExt

CONSTANTS
  Processes, Nobody,
  Metadata,   \* Metadata[t]: the columns of a table, as the classes declare it
  Revisions   \* Revisions[n]: the statements of a revision

HeadRevision == Len(Revisions)

ASSUME NobodyAssumption == Nobody \notin Processes

VARIABLES
  disk,     \* what is committed: tables, half-made copies, alembic_version's rows
  writer,   \* the process with a transaction open, or Nobody
  draft,    \* what that transaction has made of it
  at,       \* at[p]: off, running, done or failed
  todo,     \* todo[p]: the statements p has yet to run
  torn      \* history: one of two at once stopped, and one was making every table

migrateVars == <<disk, writer, draft, at, todo, torn>>

Database(tables, copies, versioned, rows) ==
  [tables |-> tables, copies |-> copies, versioned |-> versioned, rows |-> rows]
Nothing == Database(<<>>, {}, FALSE, {})

\* A statement about alembic_version, or what it is decided by.
Do(do, to) == [do |-> do, table |-> "alembic_version", columns |-> {}, to |-> to]

-----------------------------------------------------------------------------
(* What a statement makes of the database, and whether it can.             *)

Has(db, t) == t \in DOMAIN db.tables
All(columns) == columns.required \cup columns.nullable
Latest(rows) == CHOOSE r \in rows : \A o \in rows : o <= r

Possible(db, s) ==
  CASE s.do = "create" -> ~Has(db, s.table)
    [] s.do = "add" -> Has(db, s.table) /\ All(s.columns) \cap All(db.tables[s.table]) = {}
    [] s.do = "index" -> Has(db, s.table) /\ s.columns.indexed \cap db.tables[s.table].indexed = {}
    [] s.do = "copy" -> Has(db, s.table) /\ s.table \notin db.copies
    [] s.do \in {"write", "replace"} -> Has(db, s.table)
    [] s.do = "insert" -> s.to \notin db.rows
    [] s.do = "update" -> db.rows # {}
    [] s.do = "check" -> Cardinality(db.rows) <= 1
    [] OTHER -> TRUE

Widened(old, new) ==
  [old EXCEPT !.required = (@ \ new.nullable) \cup new.required,
              !.nullable = (@ \ new.required) \cup new.nullable,
              !.indexed = @ \cup new.indexed]

With(tables, t, columns) == [x \in DOMAIN tables \cup {t} |-> IF x = t THEN columns ELSE tables[x]]
Changed(db, s) == With(db.tables, s.table, Widened(db.tables[s.table], s.columns))
Moved(rows, to) == (rows \ {Latest(rows)}) \cup {to}

Effect(db, s) ==
  CASE s.do = "create" -> [db EXCEPT !.tables = With(@, s.table, s.columns)]
    [] s.do \in {"add", "index"} -> [db EXCEPT !.tables = Changed(db, s)]
    [] s.do = "copy" -> [db EXCEPT !.copies = @ \cup {s.table}]
    [] s.do = "replace" -> [db EXCEPT !.tables = Changed(db, s), !.copies = @ \ {s.table}]
    [] s.do = "ensure" -> [db EXCEPT !.versioned = TRUE]
    [] s.do = "insert" -> [db EXCEPT !.rows = @ \cup {s.to}]
    [] s.do = "update" -> [db EXCEPT !.rows = Moved(@, s.to)]
    [] OTHER -> db

\* Statements that begin a transaction, and those that change nothing.
Writes(s) == s.do \in {"write", "replace", "insert", "update"}
Queries(s) == s.do \in {"create_all", "stamp", "upgrade", "check"}

-----------------------------------------------------------------------------
(* What is to be run, as it is decided by what is read.                    *)

Record(rows, to) == IF rows = {} THEN <<Do("ensure", 0), Do("insert", to)>> ELSE <<Do("update", to)>>

CreateAll(db) ==
  FoldSet(LAMBDA t, made : Append(made, [do |-> "create", table |-> t, columns |-> Metadata[t], to |-> 0]),
          <<>>, DOMAIN Metadata \ DOMAIN db.tables)

\* The revision a database is at, and the statements from there to the last.
Current(rows) == IF rows = {} THEN 0 ELSE Latest(rows)
Pending ==
  [from \in 0..HeadRevision |->
    FlattenSeq([i \in 1..(HeadRevision - from) |->
      Revisions[from + i] \o Record(IF from + i = 1 THEN {} ELSE {from}, from + i)])]

Expand(db, s) ==
  CASE s.do = "create_all" -> CreateAll(db)
    [] s.do = "stamp" -> IF s.to \in db.rows THEN <<>> ELSE Record(db.rows, s.to)
    [] s.do = "upgrade" -> Pending[Current(db.rows)]
    [] OTHER -> <<>>

Upgrading == <<Do("upgrade", HeadRevision), Do("commit", 0), Do("check", 0)>>

\* As a mutant: a database without alembic_version is taken to be up to date.
UpgradeTaken(db) ==
  IF DOMAIN db.tables \cap DOMAIN Metadata = {}
  THEN <<Do("create_all", 0), Do("stamp", HeadRevision), Do("commit", 0)>>
  ELSE IF db.versioned THEN Upgrading ELSE <<Do("stamp", HeadRevision)>> \o Upgrading

UpgradeToHead(db) ==
  IF DOMAIN db.tables \cap DOMAIN Metadata = {}
  THEN <<Do("create_all", 0), Do("stamp", HeadRevision), Do("commit", 0)>>
  ELSE IF db.versioned THEN Upgrading ELSE <<Do("stamp", 1)>> \o Upgrading

-----------------------------------------------------------------------------
\* What a release that ended with revision n left behind, and one from before
\* there were revisions.
Released[n \in 0..HeadRevision] ==
  IF n = 0 THEN Nothing
  ELSE [FoldLeft(Effect, Released[n - 1], Revisions[n]) EXCEPT !.versioned = TRUE, !.rows = {n}]
Unversioned == [Released[1] EXCEPT !.versioned = FALSE, !.rows = {}]

\* What the pending statements make of the database of a release, one by one.
Stages ==
  [n \in 1..HeadRevision |->
    LET made[k \in 0..Len(Pending[n])] == IF k = 0 THEN Released[n] ELSE Effect(made[k - 1], Pending[n][k])
    IN made]

\* How many of them are committed one by one.
Alone(n) == {k \in 0..Len(Pending[n]) : \A j \in 1..k : ~Writes(Pending[n][j])}

\* What the classes declare is there.
Declared(db) ==
  /\ db = Database(Metadata, db.copies, TRUE, db.rows)
  /\ db.rows # {} /\ db.rows \subseteq 1..HeadRevision
Makes(s) == s.do = "create" /\ s.table \in DOMAIN Metadata

\* What is true of the classes and the revisions there are.  The pending
\* statements of a release lead to what the classes declare, by a transaction
\* at the end.  Those committed one by one before it cannot be run twice, nor
\* on what they lead to, unless they make a copy.  Nor can all of the others:
\* a table is made among them, or by the last before them.
ASSUME SchemaAssumption ==
  /\ HeadRevision \in Nat /\ HeadRevision > 1
  /\ \A n \in 0..HeadRevision :
       /\ Len(Pending[n]) \in Nat /\ Pending[n] = [k \in 1..Len(Pending[n]) |-> Pending[n][k]]
       /\ \A k \in 1..Len(Pending[n]) : ~Queries(Pending[n][k]) /\ Pending[n][k].do # "commit"
  /\ Pending[HeadRevision] = <<>>
  /\ Len(Pending[0]) > 0 /\ Makes(Pending[0][1]) /\ Has(Released[1], Pending[0][1].table)
  /\ \A n \in 1..HeadRevision :
       /\ Declared(Stages[n][Len(Pending[n])]) /\ HeadRevision \in Stages[n][Len(Pending[n])].rows
       /\ \A k \in Alone(n) : LET made == Stages[n][k] IN
            /\ made = Database(made.tables, made.copies, TRUE, {n})
            /\ DOMAIN made.tables \cap DOMAIN Metadata # {}
            /\ \A j \in 1..k : ~Possible(made, Pending[n][j])
  /\ \A n \in 1..(HeadRevision - 1) :
       /\ Len(Pending[n]) \notin Alone(n)
       /\ \E j \in 1..Len(Pending[n]) : Makes(Pending[n][j]) /\ \A k \in Alone(n) : k <= j
       /\ \A j \in Alone(n) \ {0} :
            \/ Pending[n][j].do = "copy"
            \/ /\ Pending[n][j].do \in {"create", "add", "index"}
               /\ ~Possible(Stages[n][Len(Pending[n])], Pending[n][j])

MigrateInit ==
  /\ disk \in {Released[n] : n \in 1..HeadRevision} \cup {Nothing, Unversioned}
  /\ writer = Nobody /\ draft = Nothing
  /\ at = [p \in Processes |-> "off"] /\ todo = [p \in Processes |-> <<>>] /\ torn = FALSE

View(p) == IF writer = p THEN draft ELSE disk
RollBack(p) ==
  /\ writer' = (IF writer = p THEN Nobody ELSE writer)
  /\ draft' = (IF writer = p THEN Nothing ELSE draft)
Leave(p, how) ==
  /\ RollBack(p)
  /\ at' = [at EXCEPT ![p] = how] /\ todo' = [todo EXCEPT ![p] = <<>>]
  /\ UNCHANGED disk

Open(p) ==
  /\ at[p] = "off"
  /\ at' = [at EXCEPT ![p] = "running"] /\ todo' = [todo EXCEPT ![p] = UpgradeToHead(disk)]
  /\ UNCHANGED <<disk, writer, draft, torn>>

Runs(p) == at[p] = "running" /\ todo[p] # <<>>
This(p) == todo[p][1]

Decide(p) ==
  /\ Runs(p) /\ Queries(This(p)) /\ Possible(View(p), This(p))
  /\ todo' = [todo EXCEPT ![p] = Expand(View(p), This(p)) \o Tail(@)]
  /\ UNCHANGED <<disk, writer, draft, at, torn>>

\* A statement waits for the transaction of another process.
Run(p) ==
  /\ Runs(p) /\ ~Queries(This(p)) /\ This(p).do # "commit" /\ writer \in {p, Nobody}
  /\ Possible(View(p), This(p))
  /\ LET made == Effect(View(p), This(p)) IN
       IF writer = p \/ Writes(This(p))
       THEN writer' = p /\ draft' = made /\ UNCHANGED disk
       ELSE disk' = made /\ UNCHANGED <<writer, draft>>
  /\ todo' = [todo EXCEPT ![p] = Tail(@)]
  /\ UNCHANGED <<at, torn>>

Commit(p) ==
  /\ Runs(p) /\ This(p).do = "commit"
  /\ disk' = View(p)
  /\ RollBack(p)
  /\ todo' = [todo EXCEPT ![p] = Tail(@)]
  /\ UNCHANGED <<at, torn>>

\* Some statement is refused, or waited too long: the process stops.
GiveUp(p) ==
  /\ Runs(p)
  /\ ~Possible(View(p), This(p)) \/ (~Queries(This(p)) /\ writer \notin {p, Nobody})
  /\ Leave(p, "failed") /\ UNCHANGED torn

Finish(p) == at[p] = "running" /\ todo[p] = <<>> /\ Leave(p, "done") /\ UNCHANGED torn

\* p is making every table at once, on a database that had none.
CreatesAll(p) ==
  /\ at[p] = "running"
  /\ \E i \in DOMAIN todo[p] : todo[p][i].do = "stamp" /\ todo[p][i].to = HeadRevision

\* A stop tears the schema while one of two at once makes every table.
Tears(p) ==
  /\ at[p] = "running" /\ \E o \in Processes \ {p} : at[o] = "running"
  /\ \E o \in Processes : CreatesAll(o)
Stop(p) == at[p] # "off" /\ Leave(p, "off") /\ torn' = (torn \/ Tears(p))

MigrateNext ==
  \E p \in Processes : Open(p) \/ Decide(p) \/ Run(p) \/ Commit(p) \/ GiveUp(p) \/ Finish(p) \/ Stop(p)
MigrateSpec == MigrateInit /\ [][MigrateNext]_migrateVars

-----------------------------------------------------------------------------
\* A process that has opened the database finds the schema its classes declare
\* there, recorded as the current one: from whichever release the database
\* was, whatever a start that stopped half-way left behind, and whatever
\* another process does at the same time - as long as none of two at once
\* stops while one of them makes every table, and no more than two find an
\* empty database (upgrade_to_head: "Ensure engine's schema matches the ORM
\* metadata").
DoneIsHead ==
  ~torn => \A p \in Processes : at[p] = "done" => disk.tables = Metadata /\ HeadRevision \in disk.rows
=============================================================================
