------------------------------- MODULE Migrations -------------------------------
(***************************************************************************)
(* RunMigrations as several instances of the service start on one          *)
(* database: a rolling release, a crash, a restart.  Each instance works   *)
(* in one transaction, statement by statement.  Files are numbered in the  *)
(* order slices.Sort gives them; the instances of a release carry the      *)
(* first Release of them.                                                  *)
(*                                                                         *)
(* The database isolates transactions as READ COMMITTED does: a statement  *)
(* sees what is committed, and waits for a transaction that has created    *)
(* or inserted the same thing and not ended.  The transaction of a process *)
(* that died goes on until the server notices.                             *)
(***************************************************************************)
EXTENDS Integers, FiniteSets

CONSTANTS Instances,
          Sessions,     \* bound: database sessions open at one time
          FileCount,    \* number of .sql files of the newest release
          Release,      \* instance -> number of the files it carries
          Blank,        \* files with no statement in them
          Repeatable,   \* files that may run again without an error: 003
          MaxStarts,    \* bound: starts of one instance
          NULL

Files == 1..FileCount

ASSUME MigrationsAssumption ==
  /\ FileCount \in Nat /\ MaxStarts \in Nat
  /\ Release \in [Instances -> 0..FileCount]
  /\ Blank \subseteq Files /\ Repeatable \subseteq Files

VARIABLES table,      \* schema_migrations exists
          versions,   \* its rows
          schema,     \* the files whose statements have taken effect
          tx,         \* the transaction of each session, NULL when there is none
          conn,       \* the session each instance works in
          pc,         \* what each instance does next
          starts      \* number of times each instance was started

vars == <<table, versions, schema, tx, conn, pc, starts>>

Steps == {"Ensure", "Load", "Apply"}

\* What the server knows of a transaction; of wanted and known, its client.
Tx == [state : {"attached", "orphaned", "committing"},
       created : BOOLEAN,         \* has created schema_migrations
       wanted : SUBSET Files,     \* the files of the client, blank ones left out
       known : SUBSET Files,      \* loadAppliedMigrations' answer
       file : Files \cup {0},     \* has run, is not recorded; 0 is none
       ran : SUBSET Files,
       recorded : SUBSET Files]

ASSUME NullAssumption == NULL \notin Tx /\ NULL \notin Sessions

TypeOK ==
  /\ table \in BOOLEAN /\ versions \in SUBSET Files /\ schema \in SUBSET Files
  /\ tx \in [Sessions -> Tx \cup {NULL}]
  /\ conn \in [Instances -> Sessions \cup {NULL}]
  /\ pc \in [Instances -> Steps \cup {"down", "serving"}]
  /\ starts \in [Instances -> Nat]

Init ==
  /\ table = FALSE /\ versions = {} /\ schema = {}
  /\ tx = [s \in Sessions |-> NULL]
  /\ conn = [i \in Instances |-> NULL]
  /\ pc = [i \in Instances |-> "down"]
  /\ starts = [i \in Instances |-> 0]

-----------------------------------------------------------------------------
Carried(n) == (1..n) \ Blank

Live == { s \in Sessions : tx[s] # NULL }

Others(i) == Live \ {conn[i]}

Goto(i, step) == pc' = [pc EXCEPT ![i] = step]

Wrote(i, t) == tx' = [tx EXCEPT ![conn[i]] = t]

At(i, step) == pc[i] = step /\ conn[i] \in Live

Leave(i) == conn' = [conn EXCEPT ![i] = NULL]

Committed(t) ==
  /\ table' = (table \/ t.created)
  /\ versions' = versions \cup t.recorded
  /\ schema' = schema \cup t.ran

Unchanged == UNCHANGED <<table, versions, schema>>

\* Faulty variant: commit is deferred where rollback should be.
FailedCommitting(i) ==
  /\ Wrote(i, NULL) /\ Committed(tx[conn[i]])
  /\ Leave(i) /\ Goto(i, "down")

\* Faulty variant: the error of RunMigrations is logged, and main goes on.
FailedServing(i) ==
  /\ Wrote(i, NULL) /\ Unchanged
  /\ Leave(i) /\ Goto(i, "serving")

\* The deferred Rollback, and log.Fatalf in main.
Failed(i) ==
  /\ Wrote(i, NULL) /\ Unchanged
  /\ Leave(i) /\ Goto(i, "down")

\* pool.Begin
Begin(i, s) ==
  /\ pc[i] = "down" /\ starts[i] < MaxStarts
  /\ s \notin Live
  /\ tx' = [tx EXCEPT ![s] =
              [state |-> "attached", created |-> FALSE,
               wanted |-> Carried(Release[i]), known |-> {}, file |-> 0,
               ran |-> {}, recorded |-> {}]]
  /\ conn' = [conn EXCEPT ![i] = s]
  /\ starts' = [starts EXCEPT ![i] = @ + 1]
  /\ Goto(i, "Ensure")
  /\ Unchanged

\* ensureSchemaMigrationsTable.  One that waited for a transaction which then
\* commits gets a duplicate key error: that is DBError.
Ensure(i) ==
  /\ At(i, "Ensure")
  /\ table \/ \A o \in Others(i) : ~ tx[o].created
  /\ Wrote(i, [tx[conn[i]] EXCEPT !.created = ~ table])
  /\ Goto(i, "Load")
  /\ Unchanged /\ UNCHANGED <<conn, starts>>

\* loadAppliedMigrations
Load(i) ==
  /\ At(i, "Load")
  /\ Wrote(i, [tx[conn[i]] EXCEPT !.known = versions])
  /\ Goto(i, "Apply")
  /\ Unchanged /\ UNCHANGED <<conn, starts>>

Due(t) == t.wanted \ (t.known \cup t.recorded)

\* Faulty variant: the files are taken in the order the directory lists them.
AnyDue(t) == Due(t)

\* The next file of the loop, if there is one.
NextDue(t) == { f \in Due(t) : \A g \in Due(t) : f <= g }

\* tx.Exec(statement): it waits while another transaction has run the file,
\* and fails on what exists unless the file was written to be repeated.
Exec(i) ==
  LET t == tx[conn[i]]
  IN  /\ At(i, "Apply") /\ t.file = 0
      /\ \E f \in NextDue(t) :
           /\ \A o \in Others(i) : f \notin tx[o].ran
           /\ \/ /\ f \notin schema
                 /\ Wrote(i, [t EXCEPT !.ran = @ \cup {f}, !.file = f])
                 /\ Unchanged /\ UNCHANGED <<conn, pc>>
              \/ /\ f \in schema \cap Repeatable
                 /\ Wrote(i, [t EXCEPT !.file = f])
                 /\ Unchanged /\ UNCHANGED <<conn, pc>>
              \/ f \in schema \ Repeatable /\ Failed(i)
      /\ UNCHANGED starts

\* insert into schema_migrations: version is its primary key.
Record(i) ==
  LET t == tx[conn[i]]
  IN  /\ At(i, "Apply") /\ t.file # 0
      /\ \A o \in Others(i) : t.file \notin tx[o].recorded
      /\ \/ /\ t.file \notin versions
            /\ Wrote(i, [t EXCEPT !.recorded = @ \cup {t.file}, !.file = 0])
            /\ Unchanged /\ UNCHANGED <<conn, pc>>
         \/ t.file \in versions /\ Failed(i)
      /\ UNCHANGED starts

Finished(i) == At(i, "Apply") /\ tx[conn[i]].file = 0 /\ Due(tx[conn[i]]) = {}

\* Faulty variant: every file is committed on its own.
CommitEach(i, outcome) ==
  /\ At(i, "Apply") /\ tx[conn[i]].file = 0
  /\ Committed(tx[conn[i]])
  /\ IF Due(tx[conn[i]]) = {}
       THEN Wrote(i, NULL) /\ Leave(i) /\ Goto(i, outcome)
       ELSE /\ Wrote(i, [tx[conn[i]] EXCEPT !.known = @ \cup tx[conn[i]].recorded,
                                            !.ran = {}, !.recorded = {}])
            /\ UNCHANGED <<conn, pc>>
  /\ UNCHANGED starts

\* tx.Commit, and main goes on; when the acknowledgement is lost, log.Fatalf.
Commit(i, outcome) ==
  /\ Finished(i)
  /\ Committed(tx[conn[i]])
  /\ Wrote(i, NULL) /\ Leave(i) /\ Goto(i, outcome)
  /\ UNCHANGED starts

-----------------------------------------------------------------------------
\* A statement fails; the rollback reaches the database.
DBError(i) ==
  /\ pc[i] \in Steps /\ conn[i] \in Live
  /\ Failed(i)
  /\ UNCHANGED starts

\* The process dies, is signalled or loses its connection: the server has not
\* noticed yet, and a commit that was sent may still be carried out.
Crash(i) ==
  /\ pc[i] \in Steps /\ conn[i] \in Live
  /\ Wrote(i, [tx[conn[i]] EXCEPT
                 !.state = IF Finished(i) THEN "committing" ELSE "orphaned"])
  /\ Leave(i) /\ Goto(i, "down")
  /\ Unchanged /\ UNCHANGED starts

\* A serving instance is stopped, or dies.
Stop(i) ==
  /\ pc[i] = "serving"
  /\ Goto(i, "down")
  /\ Unchanged /\ UNCHANGED <<tx, conn, starts>>

\* The server ends the transaction of a client that is gone.
Abort(s) ==
  /\ s \in Live /\ tx[s].state # "attached"
  /\ tx' = [tx EXCEPT ![s] = NULL]
  /\ Unchanged /\ UNCHANGED <<conn, pc, starts>>

LateCommit(s) ==
  /\ s \in Live /\ tx[s].state = "committing"
  /\ Committed(tx[s])
  /\ tx' = [tx EXCEPT ![s] = NULL]
  /\ UNCHANGED <<conn, pc, starts>>

Migrate(i) ==
  \/ Ensure(i) \/ Load(i) \/ Exec(i) \/ Record(i)
  \/ \E outcome \in {"serving", "down"} : Commit(i, outcome)

Next ==
  \/ \E i \in Instances :
       \/ \E s \in Sessions : Begin(i, s)
       \/ Migrate(i)
       \/ DBError(i) \/ Crash(i) \/ Stop(i)
  \/ \E s \in Sessions : Abort(s) \/ LateCommit(s)

\* The database answers what does not wait, and notices that a client is gone.
Fairness ==
  /\ \A i \in Instances : WF_vars(Migrate(i))
  /\ \A s \in Sessions : WF_vars(Abort(s))

Spec == Init /\ [][Next]_vars

FairSpec == Spec /\ Fairness

-----------------------------------------------------------------------------
(***************************************************************************)
(* What schema_migrations says is what was run: a version whose statements *)
(* are missing would never be repaired, and a file that ran and is not     *)
(* recorded would make every later start fail.                             *)
(***************************************************************************)
VersionsTellSchema == versions = schema /\ (~ table => versions = {})

(***************************************************************************)
(* All pending migrations or none: the database is always empty or exactly *)
(* at the release of some instance, though instances of several releases   *)
(* migrate at once, die on the way and are started again.                  *)
(***************************************************************************)
AllOrNothing ==
  versions = {} \/ \E i \in Instances : versions = Carried(Release[i])

(***************************************************************************)
(* An instance that serves finds every table and index its code needs.     *)
(***************************************************************************)
ServingIsMigrated ==
  \A i \in Instances : pc[i] = "serving" => Carried(Release[i]) \subseteq schema

(***************************************************************************)
(* A release that is started after a newer one leaves the newer schema     *)
(* alone, and so does a failed start: the schema goes forward only, and    *)
(* always by whole releases.                                               *)
(***************************************************************************)
SchemaGoesForward ==
  [][versions # versions' =>
       /\ versions \subseteq versions'
       /\ \E i \in Instances : versions' = Carried(Release[i])]_vars

(***************************************************************************)
(* Every start ends, serving or exited: no two instances wait for each     *)
(* other, because all take the files in one order.                         *)
(***************************************************************************)
StartsEnd ==
  \A i \in Instances : pc[i] \in Steps ~> pc[i] \in {"serving", "down"}

-----------------------------------------------------------------------------
(***************************************************************************)
(* The inductive invariant.  Its heart is OneMigrator: a transaction that  *)
(* has run a file read schema_migrations as it still is, and holds the     *)
(* first file that is missing, which no other transaction can then run.    *)
(***************************************************************************)
Prefixes == { Carried(n) : n \in {0} \cup { Release[i] : i \in Instances } }

ConnsDiffer ==
  \A i, j \in Instances : i # j /\ conn[i] # NULL => conn[i] # conn[j]

Connected(i) ==
  /\ pc[i] \in Steps <=> conn[i] # NULL
  /\ pc[i] \in Steps =>
       /\ conn[i] \in Live
       /\ tx[conn[i]].state = "attached"
       /\ tx[conn[i]].wanted = Carried(Release[i])
  /\ pc[i] \in {"Ensure", "Load"} =>
       tx[conn[i]].file = 0 /\ tx[conn[i]].ran = {}
  /\ pc[i] \in {"Load", "Apply"} => table \/ tx[conn[i]].created

WorkInOrder(t) ==
  /\ t.wanted \in Prefixes /\ t.known \in Prefixes
  /\ t.recorded = t.ran \ {t.file}
  /\ t.ran \subseteq t.wanted \ t.known
  /\ t.file # 0 => /\ t.file \in NextDue(t)
                   /\ t.file \in t.ran \cup versions
  /\ t.state = "committing" => t.file = 0 /\ Due(t) = {}
  /\ t.ran # {} =>
       /\ table \/ t.created
       /\ \E f \in t.ran : \A g \in t.wanted \ t.known : f <= g

OneMigrator ==
  \A s \in Live :
    /\ tx[s].known \subseteq versions
    /\ tx[s].ran \cap schema = {}
    /\ tx[s].ran # {} => tx[s].known = versions
    /\ \A o \in Live \ {s} : tx[s].ran \cap tx[o].ran = {}

Inv ==
  /\ TypeOK
  /\ ConnsDiffer
  /\ \A i \in Instances : Connected(i)
  /\ \A s \in Live : WorkInOrder(tx[s])
  /\ OneMigrator
  /\ VersionsTellSchema
  /\ AllOrNothing
  /\ ServingIsMigrated

=============================================================================
