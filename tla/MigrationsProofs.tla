---------------------------- MODULE MigrationsProofs ----------------------------
(***************************************************************************)
(* Proofs about Migrations, for any number of instances, releases, files   *)
(* and sessions.  Inv is inductive; OneMigrator is the part the others     *)
(* rest on, and Commit is the step that uses it.                           *)
(***************************************************************************)
EXTENDS Migrations, TLAPS

\* The parts of Inv that speak of one transaction, and of two.
SessionKnows(s) ==
  /\ WorkInOrder(tx[s])
  /\ tx[s].known \subseteq versions
  /\ tx[s].ran \cap schema = {}
  /\ tx[s].ran # {} => tx[s].known = versions

Apart(s, o) == tx[s].ran \cap tx[o].ran = {}

\* The parts that speak of the database, and of one instance.
DataKnows == VersionsTellSchema /\ versions \in Prefixes

InstanceKnows(i) ==
  /\ Connected(i)
  /\ pc[i] = "serving" => Carried(Release[i]) \subseteq schema

LEMMA CarriedIsFiles ==
  /\ \A i \in Instances : Release[i] \in 0..FileCount
  /\ \A i \in Instances : Carried(Release[i]) \in Prefixes
  /\ \A S \in Prefixes : S \subseteq Files
  /\ {} \in Prefixes
<1>1. Carried(0) = {}
  BY DEF Carried
<1> QED
  BY <1>1, MigrationsAssumption DEF Prefixes, Carried, Files

LEMMA InvParts ==
  ASSUME Inv
  PROVE  /\ TypeOK /\ ConnsDiffer /\ DataKnows
         /\ \A i \in Instances : InstanceKnows(i)
         /\ \A s \in Live : SessionKnows(s)
         /\ \A s \in Live : \A o \in Live \ {s} : Apart(s, o)
<1>1. versions \in Prefixes
  BY CarriedIsFiles DEF Inv, AllOrNothing, Prefixes
<1> QED
  BY <1>1 DEF Inv, SessionKnows, Apart, DataKnows, InstanceKnows,
              ServingIsMigrated, OneMigrator

LEMMA NextParts ==
  ASSUME TypeOK', ConnsDiffer', DataKnows',
         \A i \in Instances : InstanceKnows(i)',
         \A s \in Live' : SessionKnows(s)',
         \A s \in Live' : \A o \in Live' \ {s} : Apart(s, o)'
  PROVE  Inv'
<1>1. AllOrNothing'
  <2>1. Carried(0) = {}
    BY DEF Carried
  <2> QED
    BY <2>1 DEF AllOrNothing, DataKnows, Prefixes
<1>2. VersionsTellSchema' /\ ServingIsMigrated' /\ OneMigrator'
  BY DEF SessionKnows, Apart, DataKnows, InstanceKnows, ServingIsMigrated,
         OneMigrator
<1>3. (\A s \in Live : WorkInOrder(tx[s]))' /\ (\A i \in Instances : Connected(i))'
  BY DEF SessionKnows, InstanceKnows
<1> QED
  BY <1>1, <1>2, <1>3 DEF Inv

(***************************************************************************)
(* Of two releases one contains the files of the other.                    *)
(***************************************************************************)
LEMMA PrefixesNest ==
  ASSUME NEW S \in Prefixes, NEW T \in Prefixes
  PROVE  S \subseteq T \/ T \subseteq S
<1>1. PICK m \in 0..FileCount : S = Carried(m)
  BY CarriedIsFiles, MigrationsAssumption DEF Prefixes
<1>2. PICK n \in 0..FileCount : T = Carried(n)
  BY CarriedIsFiles, MigrationsAssumption DEF Prefixes
<1> QED
  BY <1>1, <1>2, MigrationsAssumption DEF Carried

(***************************************************************************)
(* A release that has a file has every earlier file of another release.    *)
(***************************************************************************)
LEMMA Below ==
  ASSUME NEW S \in Prefixes, NEW T \in Prefixes, NEW f \in S, NEW g \in T,
         g <= f
  PROVE  g \in S
<1>1. PICK m \in 0..FileCount : S = Carried(m)
  BY CarriedIsFiles, MigrationsAssumption DEF Prefixes
<1>2. PICK n \in 0..FileCount : T = Carried(n)
  BY CarriedIsFiles, MigrationsAssumption DEF Prefixes
<1> QED
  BY <1>1, <1>2, MigrationsAssumption DEF Carried

(***************************************************************************)
(* Whoever finds the first file it wants still missing has read            *)
(* schema_migrations as it is now.                                         *)
(***************************************************************************)
LEMMA FirstMissing ==
  ASSUME NEW W \in Prefixes, NEW K \in Prefixes, NEW V \in Prefixes,
         K \subseteq V,
         NEW f \in W \ K, \A g \in W \ K : f <= g, f \notin V
  PROVE  K = V
<1> SUFFICES ASSUME NEW e \in V \ K PROVE FALSE
  OBVIOUS
<1>1. PICK n \in 0..FileCount : W = Carried(n)
  BY CarriedIsFiles, MigrationsAssumption DEF Prefixes
<1>2. PICK m \in 0..FileCount : V = Carried(m)
  BY CarriedIsFiles, MigrationsAssumption DEF Prefixes
<1>3. e \in 1..m /\ e \notin Blank /\ f \in 1..n /\ f \notin Blank
  BY <1>1, <1>2 DEF Carried
<1>4. f > m
  BY <1>2, <1>3, MigrationsAssumption DEF Carried
<1>5. e \in W
  BY <1>1, <1>3, <1>4, MigrationsAssumption DEF Carried
<1> QED
  BY <1>3, <1>4, <1>5, MigrationsAssumption

(***************************************************************************)
(* At most one transaction has run anything: two would both hold the first *)
(* file that is missing.                                                   *)
(***************************************************************************)
LEMMA OnlyOneRuns ==
  ASSUME Inv, NEW s \in Live, NEW o \in Live \ {s}
  PROVE  tx[s].ran = {} \/ tx[o].ran = {}
<1> SUFFICES ASSUME tx[s].ran # {}, tx[o].ran # {} PROVE FALSE
  OBVIOUS
<1>1. /\ SessionKnows(s) /\ SessionKnows(o) /\ Apart(s, o)
  BY InvParts
<1>2. PICK f \in tx[s].ran : \A h \in tx[s].wanted \ tx[s].known : f <= h
  BY <1>1 DEF SessionKnows, WorkInOrder
<1>3. PICK g \in tx[o].ran : \A h \in tx[o].wanted \ tx[o].known : g <= h
  BY <1>1 DEF SessionKnows, WorkInOrder
<1>4. tx[s].known = versions /\ tx[o].known = versions
  BY <1>1 DEF SessionKnows
<1>5. /\ f \in tx[s].wanted \ versions /\ g \in tx[o].wanted \ versions
      /\ tx[s].wanted \in Prefixes /\ tx[o].wanted \in Prefixes
  BY <1>1, <1>4 DEF SessionKnows, WorkInOrder
<1>6. f \in Nat /\ g \in Nat
  BY <1>5, CarriedIsFiles, MigrationsAssumption DEF Files
<1>7. f = g
  <2>1. g <= f => g \in tx[s].wanted
    BY <1>5, Below
  <2>2. f <= g => f \in tx[o].wanted
    BY <1>5, Below
  <2> QED
    BY <1>2, <1>3, <1>4, <1>5, <1>6, <2>1, <2>2
<1> QED
  BY <1>1, <1>7 DEF Apart

LEMMA InitInv == Init => Inv
<1> SUFFICES ASSUME Init PROVE Inv
  OBVIOUS
<1> USE DEF Init
<1>1. TypeOK
  BY MigrationsAssumption DEF TypeOK, Steps
<1>2. Live = {}
  BY DEF Live
<1>3. \A i \in Instances : Connected(i)
  BY NullAssumption DEF Connected, Steps
<1> QED
  BY <1>1, <1>2, <1>3 DEF Inv, ConnsDiffer, OneMigrator, VersionsTellSchema,
                          AllOrNothing, ServingIsMigrated

-----------------------------------------------------------------------------
(***************************************************************************)
(* A session keeps what it knows when neither it nor the tables change,    *)
(* and an instance when neither it, its session nor the tables do.         *)
(***************************************************************************)
LEMMA SessionStays ==
  ASSUME NEW s \in Live, SessionKnows(s), tx'[s] = tx[s], Unchanged
  PROVE  SessionKnows(s)'
BY DEF SessionKnows, WorkInOrder, Unchanged, NextDue, Due, Prefixes, Carried

LEMMA InstanceStays ==
  ASSUME TypeOK, NEW i \in Instances, InstanceKnows(i),
         UNCHANGED <<pc[i], conn[i]>>,
         pc[i] \in Steps => tx'[conn[i]] = tx[conn[i]],
         table => table', schema \subseteq schema'
  PROVE  InstanceKnows(i)'
<1>1. pc[i] \in Steps => conn[i] \in Live'
  BY DEF InstanceKnows, Connected, Live
<1> QED
  BY <1>1 DEF InstanceKnows, Connected, Steps, TypeOK

LEMMA DataStays ==
  ASSUME DataKnows, Unchanged
  PROVE  DataKnows'
BY DEF DataKnows, Unchanged, VersionsTellSchema, Prefixes, Carried

(***************************************************************************)
(* An instance writes t to its session and goes on.                        *)
(***************************************************************************)
LEMMA WriteInv ==
  ASSUME Inv, NEW i \in Instances, pc[i] \in Steps, conn[i] \in Live,
         NEW t \in Tx, NEW step \in Steps,
         Wrote(i, t), Goto(i, step), Unchanged, UNCHANGED <<conn, starts>>,
         t.state = "attached", t.wanted = tx[conn[i]].wanted,
         step \in {"Ensure", "Load"} => t.file = 0 /\ t.ran = {},
         step \in {"Load", "Apply"} => table \/ t.created,
         WorkInOrder(t), t.known \subseteq versions,
         t.ran \cap schema = {}, t.ran # {} => t.known = versions,
         \A o \in Others(i) : t.ran \cap tx[o].ran = {}
  PROVE  Inv'
<1>1. /\ TypeOK /\ ConnsDiffer /\ DataKnows
      /\ \A j \in Instances : InstanceKnows(j)
      /\ \A s \in Live : SessionKnows(s)
      /\ \A s \in Live : \A o \in Live \ {s} : Apart(s, o)
  BY InvParts
<1>2. tx'[conn[i]] = t /\ (\A s \in Sessions \ {conn[i]} : tx'[s] = tx[s])
  BY <1>1 DEF Wrote, TypeOK, Live
<1>3. Live' = Live
  BY <1>2, NullAssumption DEF Live
<1>4. TypeOK'
  BY <1>1 DEF TypeOK, Wrote, Goto, Unchanged, Live
<1>5. ConnsDiffer'
  BY <1>1 DEF ConnsDiffer
<1>6. ASSUME NEW s \in Live PROVE SessionKnows(s)'
  <2>1. CASE s = conn[i]
    <3>1. WorkInOrder(t)'
      BY DEF WorkInOrder, Unchanged, NextDue, Due, Prefixes, Carried
    <3> QED
      BY <2>1, <3>1, <1>2 DEF SessionKnows, Unchanged, WorkInOrder
  <2>2. CASE s # conn[i]
    BY <2>2, <1>1, <1>2, SessionStays DEF Live
  <2> QED
    BY <2>1, <2>2
<1>7. ASSUME NEW s \in Live, NEW o \in Live \ {s} PROVE Apart(s, o)'
  BY <1>1, <1>2 DEF Apart, Others, Live
<1>8. ASSUME NEW j \in Instances PROVE InstanceKnows(j)'
  <2>1. CASE j = i
    BY <2>1, <1>1, <1>2, <1>3, NullAssumption
       DEF InstanceKnows, Connected, Goto, TypeOK, Unchanged, Steps, Live
  <2>2. CASE j # i
    <3>1. pc[j] \in Steps => conn[j] # conn[i] /\ conn[j] \in Sessions
      BY <2>2, <1>1 DEF ConnsDiffer, InstanceKnows, Connected, Live
    <3> QED
      BY <2>2, <3>1, <1>1, <1>2, InstanceStays DEF Goto, TypeOK, Unchanged
  <2> QED
    BY <2>1, <2>2
<1>9. DataKnows'
  BY <1>1, DataStays
<1> QED
  BY <1>3, <1>4, <1>5, <1>6, <1>7, <1>8, <1>9, NextParts

(***************************************************************************)
(* The instances other than i, when i alone leaves its session.            *)
(***************************************************************************)
LEMMA OthersStay ==
  ASSUME Inv, NEW i \in Instances, NEW step \in {"down", "serving"},
         pc[i] \in Steps, NEW t \in Tx \cup {NULL},
         Wrote(i, t), Leave(i), Goto(i, step),
         table => table', schema \subseteq schema',
         step = "serving" => Carried(Release[i]) \subseteq schema'
  PROVE  /\ \A j \in Instances : InstanceKnows(j)'
         /\ ConnsDiffer'
         /\ tx'[conn[i]] = t
         /\ \A s \in Sessions \ {conn[i]} : tx'[s] = tx[s]
         /\ tx' \in [Sessions -> Tx \cup {NULL}]
         /\ conn' \in [Instances -> Sessions \cup {NULL}]
         /\ pc' \in [Instances -> Steps \cup {"down", "serving"}]
<1>1. /\ TypeOK /\ ConnsDiffer
      /\ \A j \in Instances : InstanceKnows(j)
  BY InvParts
<1>2. conn[i] \in Sessions
  BY <1>1 DEF InstanceKnows, Connected, Live
<1>3. /\ tx'[conn[i]] = t
      /\ \A s \in Sessions \ {conn[i]} : tx'[s] = tx[s]
      /\ tx' \in [Sessions -> Tx \cup {NULL}]
  BY <1>1, <1>2 DEF Wrote, TypeOK
<1>4. /\ conn' \in [Instances -> Sessions \cup {NULL}]
      /\ pc' \in [Instances -> Steps \cup {"down", "serving"}]
  BY <1>1 DEF Leave, Goto, TypeOK
<1>5. ConnsDiffer'
  BY <1>1 DEF ConnsDiffer, Leave, TypeOK
<1>6. ASSUME NEW j \in Instances PROVE InstanceKnows(j)'
  <2>1. CASE j = i
    <3>1. pc'[i] = step /\ conn'[i] = NULL
      BY <1>1 DEF Leave, Goto, TypeOK
    <3> QED
      BY <2>1, <3>1 DEF InstanceKnows, Connected, Steps
  <2>2. CASE j # i
    <3>1. pc[j] \in Steps => conn[j] # conn[i] /\ conn[j] \in Sessions
      BY <2>2, <1>1 DEF ConnsDiffer, InstanceKnows, Connected, Live
    <3> QED
      BY <2>2, <3>1, <1>1, <1>3, InstanceStays DEF Goto, Leave, TypeOK
  <2> QED
    BY <2>1, <2>2
<1> QED
  BY <1>3, <1>4, <1>5, <1>6

\* The sessions, when one of them ends without a commit.
LEMMA SessionEnds ==
  ASSUME Inv, NEW s \in Live, Unchanged, tx'[s] = NULL,
         \A o \in Sessions \ {s} : tx'[o] = tx[o]
  PROVE  /\ \A o \in Live' : SessionKnows(o)'
         /\ \A o \in Live' : \A r \in Live' \ {o} : Apart(o, r)'
<1>1. /\ \A o \in Live : SessionKnows(o)
      /\ \A o \in Live : \A r \in Live \ {o} : Apart(o, r)
  BY InvParts
<1>2. Live' = Live \ {s}
  BY DEF Live
<1>3. \A o \in Live' : tx'[o] = tx[o]
  BY <1>2 DEF Live
<1> QED
  BY <1>1, <1>2, <1>3, SessionStays DEF Apart

LEMMA FailedInv ==
  ASSUME Inv, NEW i \in Instances, pc[i] \in Steps, Failed(i),
         UNCHANGED starts
  PROVE  Inv'
<1>1. /\ TypeOK /\ DataKnows /\ Connected(i)
  BY InvParts DEF InstanceKnows
<1>2. conn[i] \in Live
  BY <1>1 DEF Connected
<1>3. /\ \A j \in Instances : InstanceKnows(j)'
      /\ ConnsDiffer'
      /\ tx'[conn[i]] = NULL
      /\ \A s \in Sessions \ {conn[i]} : tx'[s] = tx[s]
      /\ TypeOK'
  BY <1>1, OthersStay DEF Failed, Unchanged, TypeOK
<1>4. /\ \A o \in Live' : SessionKnows(o)'
      /\ \A o \in Live' : \A r \in Live' \ {o} : Apart(o, r)'
  BY <1>2, <1>3, SessionEnds DEF Failed
<1>5. DataKnows'
  BY <1>1, DataStays DEF Failed
<1> QED
  BY <1>3, <1>4, <1>5, NextParts

(***************************************************************************)
(* A commit: what the transaction wanted is in the schema, and the         *)
(* versions are those of a whole release.                                  *)
(***************************************************************************)
LEMMA CommitData ==
  ASSUME Inv, NEW s \in Live, Committed(tx[s]),
         tx[s].file = 0, Due(tx[s]) = {}
  PROVE  /\ DataKnows'
         /\ tx[s].wanted \subseteq schema'
         /\ table => table'
         /\ schema \subseteq schema' /\ versions \subseteq versions'
         /\ versions' # versions => versions' = tx[s].wanted
<1>1. TypeOK /\ DataKnows /\ SessionKnows(s) /\ tx[s] \in Tx
  BY InvParts, NullAssumption DEF TypeOK, Live
<1>2. tx[s].recorded = tx[s].ran
  <2>1. 0 \notin tx[s].ran
    BY <1>1, MigrationsAssumption DEF Tx, Files
  <2> QED
    BY <1>1, <2>1 DEF SessionKnows, WorkInOrder
<1>3. VersionsTellSchema'
  BY <1>1, <1>2 DEF Committed, DataKnows, VersionsTellSchema, SessionKnows,
                    WorkInOrder
<1>4. tx[s].wanted \subseteq versions'
  BY <1>1 DEF Due, Committed, SessionKnows
<1>5. versions' = versions \cup tx[s].ran
  BY <1>2 DEF Committed
<1>6. tx[s].ran # {} => versions' = versions \cup tx[s].wanted
  BY <1>1, <1>4, <1>5 DEF SessionKnows, WorkInOrder
<1>7. versions' \in {versions, tx[s].wanted}
  BY <1>1, <1>5, <1>6, PrefixesNest DEF DataKnows, SessionKnows, WorkInOrder
<1>8. versions' \in Prefixes
  BY <1>1, <1>7 DEF DataKnows, SessionKnows, WorkInOrder
<1>9. Prefixes' = Prefixes
  BY DEF Prefixes, Carried
<1> QED
  BY <1>3, <1>4, <1>7, <1>8, <1>9 DEF Committed, DataKnows, VersionsTellSchema

LEMMA SessionCommits ==
  ASSUME Inv, NEW s \in Live, Committed(tx[s]), tx'[s] = NULL,
         tx[s].file = 0, Due(tx[s]) = {},
         \A o \in Sessions \ {s} : tx'[o] = tx[o]
  PROVE  /\ \A o \in Live' : SessionKnows(o)'
         /\ \A o \in Live' : \A r \in Live' \ {o} : Apart(o, r)'
<1>1. /\ TypeOK /\ (\A o \in Live : SessionKnows(o))
      /\ \A o \in Live : \A r \in Live \ {o} : Apart(o, r)
  BY InvParts
<1>2. Live' = Live \ {s}
  BY DEF Live
<1>3. \A o \in Live' : tx'[o] = tx[o]
  BY <1>2 DEF Live
<1>4. tx[s].recorded \subseteq tx[s].ran
  BY <1>1 DEF SessionKnows, WorkInOrder
<1>5. ASSUME NEW o \in Live' PROVE SessionKnows(o)'
  <2>1. SessionKnows(o) /\ tx[o].ran \cap tx[s].ran = {}
    BY <1>1, <1>2 DEF Apart
  <2>2. tx[o].ran = {} \/ tx[s].ran = {}
    BY <1>2, OnlyOneRuns
  <2>3. tx[o].ran # {} => versions' = versions
    BY <2>2, <1>4 DEF Committed
  <2>4. versions \subseteq versions' /\ (table => table')
    BY DEF Committed
  <2>5. tx[o].ran \cap schema' = {}
    BY <2>1 DEF Committed, SessionKnows
  <2>6. WorkInOrder(tx[o])'
    BY <1>3, <2>1, <2>4 DEF SessionKnows, WorkInOrder, NextDue, Due, Prefixes,
                            Carried
  <2> QED
    BY <1>3, <2>1, <2>3, <2>4, <2>5, <2>6 DEF SessionKnows
<1> QED
  BY <1>1, <1>2, <1>3, <1>5 DEF Apart

-----------------------------------------------------------------------------
LEMMA BeginInv ==
  ASSUME Inv, NEW i \in Instances, NEW s \in Sessions, Begin(i, s)
  PROVE  Inv'
<1> DEFINE t == [state |-> "attached", created |-> FALSE,
                 wanted |-> Carried(Release[i]), known |-> {}, file |-> 0,
                 ran |-> {}, recorded |-> {}]
<1>1. /\ TypeOK /\ ConnsDiffer /\ DataKnows
      /\ \A j \in Instances : InstanceKnows(j)
      /\ \A r \in Live : SessionKnows(r)
      /\ \A r \in Live : \A o \in Live \ {r} : Apart(r, o)
  BY InvParts
<1>2. Carried(Release[i]) \in Prefixes /\ {} \in Prefixes /\ t \in Tx
  BY CarriedIsFiles DEF Tx
<1>3. /\ tx'[s] = t /\ (\A o \in Sessions \ {s} : tx'[o] = tx[o])
      /\ s \notin Live /\ Unchanged
  BY <1>1 DEF Begin, TypeOK
<1>4. Live' = Live \cup {s}
  BY <1>2, <1>3, NullAssumption DEF Live
<1>5. TypeOK'
  BY <1>1, <1>2 DEF TypeOK, Begin, Goto, Unchanged, Steps
<1>6. \A j \in Instances : conn[j] # s
  BY <1>1, <1>3, NullAssumption DEF InstanceKnows, Connected, TypeOK
<1>7. ConnsDiffer'
  BY <1>1, <1>6 DEF ConnsDiffer, Begin, TypeOK
<1>8. ASSUME NEW j \in Instances PROVE InstanceKnows(j)'
  <2>1. CASE j = i
    BY <2>1, <1>1, <1>2, <1>3, <1>4, NullAssumption
       DEF InstanceKnows, Connected, Begin, Goto, TypeOK, Steps, Carried
  <2>2. CASE j # i
    <3>1. pc[j] \in Steps => conn[j] \in Sessions \ {s}
      BY <1>1, <1>6 DEF InstanceKnows, Connected, Live
    <3> QED
      BY <2>2, <3>1, <1>1, <1>3, InstanceStays
         DEF Begin, Goto, TypeOK, Unchanged
  <2> QED
    BY <2>1, <2>2
<1>9. ASSUME NEW o \in Live' PROVE SessionKnows(o)'
  <2>1. CASE o = s
    <3>1. WorkInOrder(t)'
      BY <1>2 DEF WorkInOrder, Prefixes, Carried
    <3> QED
      BY <2>1, <3>1, <1>3 DEF SessionKnows
  <2>2. CASE o # s
    BY <2>2, <1>1, <1>3, <1>4, SessionStays DEF Live
  <2> QED
    BY <2>1, <2>2
<1>10. \A o \in Live' : \A r \in Live' \ {o} : Apart(o, r)'
  BY <1>1, <1>3, <1>4 DEF Apart, Live
<1>11. DataKnows'
  BY <1>1, <1>3, DataStays
<1> QED
  BY <1>5, <1>7, <1>8, <1>9, <1>10, <1>11, NextParts

\* What an instance that migrates knows of its own transaction.
LEMMA OwnSession ==
  ASSUME Inv, NEW i \in Instances, pc[i] \in Steps
  PROVE  /\ conn[i] \in Live /\ tx[conn[i]] \in Tx
         /\ SessionKnows(conn[i]) /\ Connected(i)
         /\ tx[conn[i]].state = "attached"
         /\ \A o \in Others(i) : tx[conn[i]].ran \cap tx[o].ran = {}
         /\ TypeOK /\ DataKnows
BY InvParts, NullAssumption
   DEF TypeOK, Live, InstanceKnows, Connected, Others, Apart

LEMMA EnsureInv ==
  ASSUME Inv, NEW i \in Instances, Ensure(i)
  PROVE  Inv'
<1> DEFINE t == [tx[conn[i]] EXCEPT !.created = ~ table]
<1>1. pc[i] = "Ensure" /\ pc[i] \in Steps
  BY DEF Ensure, At, Steps
<1>2. /\ tx[conn[i]] \in Tx /\ SessionKnows(conn[i]) /\ Connected(i)
      /\ tx[conn[i]].state = "attached" /\ conn[i] \in Live
      /\ TypeOK
  BY <1>1, OwnSession
<1>3. /\ t \in Tx /\ t.ran = {} /\ t.file = 0 /\ t.state = "attached"
      /\ t.wanted = tx[conn[i]].wanted /\ t.known = tx[conn[i]].known
      /\ (table \/ t.created)
      /\ t.recorded = tx[conn[i]].recorded
  BY <1>1, <1>2 DEF Connected, Tx, TypeOK
<1>4. WorkInOrder(t) /\ t.known \subseteq versions
  BY <1>1, <1>2, <1>3 DEF SessionKnows, WorkInOrder, Connected
<1> QED
  BY <1>1, <1>2, <1>3, <1>4, WriteInv DEF Ensure, Steps

LEMMA LoadInv ==
  ASSUME Inv, NEW i \in Instances, Load(i)
  PROVE  Inv'
<1> DEFINE t == [tx[conn[i]] EXCEPT !.known = versions]
<1>1. pc[i] = "Load" /\ pc[i] \in Steps
  BY DEF Load, At, Steps
<1>2. /\ tx[conn[i]] \in Tx /\ SessionKnows(conn[i]) /\ Connected(i)
      /\ tx[conn[i]].state = "attached" /\ conn[i] \in Live
      /\ TypeOK /\ DataKnows
  BY <1>1, OwnSession
<1>3. /\ t \in Tx /\ t.ran = {} /\ t.file = 0 /\ t.state = "attached"
      /\ t.wanted = tx[conn[i]].wanted /\ t.known = versions
      /\ (table \/ t.created)
      /\ t.recorded = tx[conn[i]].recorded
  BY <1>1, <1>2 DEF Connected, Tx, TypeOK
<1>4. WorkInOrder(t)
  BY <1>1, <1>2, <1>3 DEF SessionKnows, WorkInOrder, Connected, DataKnows
<1> QED
  BY <1>1, <1>2, <1>3, <1>4, WriteInv DEF Load, Steps

(***************************************************************************)
(* The first file an instance runs is missing, so what it has read is what *)
(* the database holds.                                                     *)
(***************************************************************************)
LEMMA ExecInv ==
  ASSUME Inv, NEW i \in Instances, Exec(i)
  PROVE  Inv'
<1> DEFINE t == tx[conn[i]]
<1>1. pc[i] = "Apply" /\ pc[i] \in Steps /\ t.file = 0
  BY DEF Exec, At, Steps
<1>2. /\ t \in Tx /\ SessionKnows(conn[i]) /\ Connected(i)
      /\ t.state = "attached" /\ conn[i] \in Live
      /\ \A o \in Others(i) : t.ran \cap tx[o].ran = {}
      /\ TypeOK /\ DataKnows
  BY <1>1, OwnSession
<1>3. t.recorded = t.ran
  <2>1. 0 \notin t.ran
    BY <1>2, MigrationsAssumption DEF Tx, Files
  <2> QED
    BY <1>1, <1>2, <2>1 DEF SessionKnows, WorkInOrder
<1>4. PICK f \in NextDue(t) :
        /\ \A o \in Others(i) : f \notin tx[o].ran
        /\ \/ /\ f \notin schema
              /\ Wrote(i, [t EXCEPT !.ran = @ \cup {f}, !.file = f])
              /\ Unchanged /\ UNCHANGED <<conn, pc>>
           \/ /\ f \in schema \cap Repeatable
              /\ Wrote(i, [t EXCEPT !.file = f])
              /\ Unchanged /\ UNCHANGED <<conn, pc>>
           \/ f \in schema \ Repeatable /\ Failed(i)
  BY DEF Exec
<1>5. /\ f \in t.wanted /\ f \notin t.known /\ f \notin t.recorded
      /\ f \in Files /\ f # 0
  BY <1>2, <1>4, MigrationsAssumption DEF NextDue, Due, Tx, Files
<1>6. UNCHANGED starts
  BY DEF Exec
<1>7. Goto(i, "Apply") <=> pc' = pc
  BY <1>1, <1>2 DEF Goto, TypeOK
<1>8. CASE /\ f \notin schema
           /\ Wrote(i, [t EXCEPT !.ran = @ \cup {f}, !.file = f])
           /\ Unchanged /\ UNCHANGED <<conn, pc>>
  <2> DEFINE u == [t EXCEPT !.ran = @ \cup {f}, !.file = f]
  <2>1. /\ u \in Tx /\ u.ran = t.ran \cup {f} /\ u.file = f
        /\ u.state = "attached" /\ u.wanted = t.wanted
        /\ u.known = t.known /\ u.created = t.created
        /\ u.recorded = t.recorded
    BY <1>2, <1>5 DEF Tx
  <2>2. t.known = versions
    <3>1. CASE t.ran # {}
      BY <3>1, <1>2 DEF SessionKnows
    <3>2. CASE t.ran = {}
      <4>1. f \in t.wanted \ t.known /\ \A g \in t.wanted \ t.known : f <= g
        BY <3>2, <1>3, <1>4, <1>5 DEF NextDue, Due
      <4>2. f \notin versions
        BY <1>2, <1>8 DEF DataKnows, VersionsTellSchema
      <4> QED
        BY <4>1, <4>2, <1>2, FirstMissing
           DEF SessionKnows, WorkInOrder, DataKnows
    <3> QED
      BY <3>1, <3>2
  <2>3. \E g \in u.ran : \A h \in u.wanted \ u.known : g <= h
    <3>1. CASE t.ran # {}
      BY <3>1, <2>1, <1>2 DEF SessionKnows, WorkInOrder
    <3>2. CASE t.ran = {}
      BY <3>2, <2>1, <1>3, <1>4 DEF NextDue, Due
    <3> QED
      BY <3>1, <3>2
  <2>4. NextDue(u) = NextDue(t)
    BY <2>1 DEF NextDue, Due
  <2>5. WorkInOrder(u)
    <3>1. u.recorded = u.ran \ {u.file}
      BY <1>3, <1>5, <2>1
    <3>2. u.ran \subseteq u.wanted \ u.known
      BY <1>2, <1>5, <2>1 DEF SessionKnows, WorkInOrder
    <3>3. table \/ u.created
      BY <1>1, <1>2, <2>1 DEF Connected
    <3> QED
      BY <1>2, <1>4, <2>1, <2>3, <2>4, <3>1, <3>2, <3>3
         DEF SessionKnows, WorkInOrder
  <2>6. u.ran \cap schema = {} /\ \A o \in Others(i) : u.ran \cap tx[o].ran = {}
    BY <1>2, <1>4, <1>8, <2>1 DEF SessionKnows
  <2>7. table \/ u.created
    BY <1>1, <1>2, <2>1 DEF Connected
  <2> QED
    BY <1>1, <1>2, <1>6, <1>7, <1>8, <2>1, <2>2, <2>5, <2>6, <2>7, WriteInv
       DEF Steps
<1>9. CASE /\ f \in schema \cap Repeatable
           /\ Wrote(i, [t EXCEPT !.file = f])
           /\ Unchanged /\ UNCHANGED <<conn, pc>>
  <2> DEFINE u == [t EXCEPT !.file = f]
  <2>1. /\ u \in Tx /\ u.ran = t.ran /\ u.file = f
        /\ u.state = "attached" /\ u.wanted = t.wanted
        /\ u.known = t.known /\ u.created = t.created
        /\ u.recorded = t.recorded
    BY <1>2, <1>5 DEF Tx
  <2>2. NextDue(u) = NextDue(t)
    BY <2>1 DEF NextDue, Due
  <2>3. f \in versions
    BY <1>2, <1>9 DEF DataKnows, VersionsTellSchema
  <2>4. WorkInOrder(u)
    BY <1>2, <1>3, <1>4, <1>5, <2>1, <2>2, <2>3 DEF SessionKnows, WorkInOrder
  <2>5. table \/ u.created
    BY <1>1, <1>2, <2>1 DEF Connected
  <2> QED
    BY <1>1, <1>2, <1>6, <1>7, <1>9, <2>1, <2>4, <2>5, WriteInv
       DEF Steps, SessionKnows
<1>10. CASE f \in schema \ Repeatable /\ Failed(i)
  BY <1>1, <1>6, <1>10, FailedInv
<1> QED
  BY <1>4, <1>8, <1>9, <1>10

LEMMA RecordInv ==
  ASSUME Inv, NEW i \in Instances, Record(i)
  PROVE  Inv'
<1> DEFINE t == tx[conn[i]]
           u == [t EXCEPT !.recorded = @ \cup {t.file}, !.file = 0]
<1>1. pc[i] = "Apply" /\ pc[i] \in Steps /\ t.file # 0
  BY DEF Record, At, Steps
<1>2. /\ t \in Tx /\ SessionKnows(conn[i]) /\ Connected(i)
      /\ t.state = "attached" /\ conn[i] \in Live
      /\ \A o \in Others(i) : t.ran \cap tx[o].ran = {}
      /\ TypeOK /\ DataKnows
  BY <1>1, OwnSession
<1>3. UNCHANGED starts
  BY DEF Record
<1>4. Goto(i, "Apply") <=> pc' = pc
  BY <1>1, <1>2 DEF Goto, TypeOK
<1>5. CASE /\ t.file \notin versions /\ Wrote(i, u)
           /\ Unchanged /\ UNCHANGED <<conn, pc>>
  <2>1. t.file \in t.ran /\ t.file \in Files
    BY <1>1, <1>2, <1>5 DEF SessionKnows, WorkInOrder, Tx
  <2>2. /\ u \in Tx /\ u.ran = t.ran /\ u.file = 0
        /\ u.state = "attached" /\ u.wanted = t.wanted
        /\ u.known = t.known /\ u.created = t.created
        /\ u.recorded = t.recorded \cup {t.file}
    BY <1>2, <2>1 DEF Tx
  <2>3. 0 \notin t.ran
    BY <1>2, MigrationsAssumption DEF Tx, Files
  <2>4. u.recorded = u.ran \ {u.file}
    BY <1>2, <2>1, <2>2, <2>3 DEF SessionKnows, WorkInOrder
  <2>5. WorkInOrder(u)
    BY <1>2, <2>2, <2>4 DEF SessionKnows, WorkInOrder
  <2>6. table \/ u.created
    BY <1>1, <1>2, <2>2 DEF Connected
  <2> QED
    BY <1>1, <1>2, <1>3, <1>4, <1>5, <2>2, <2>5, <2>6, WriteInv
       DEF Steps, SessionKnows
<1>6. CASE t.file \in versions /\ Failed(i)
  BY <1>1, <1>3, <1>6, FailedInv
<1> QED
  BY <1>5, <1>6 DEF Record

LEMMA CommitInv ==
  ASSUME Inv, NEW i \in Instances, NEW outcome \in {"serving", "down"},
         Commit(i, outcome)
  PROVE  Inv'
<1>1. /\ pc[i] \in Steps /\ tx[conn[i]].file = 0 /\ Due(tx[conn[i]]) = {}
      /\ Committed(tx[conn[i]])
      /\ Wrote(i, NULL) /\ Leave(i) /\ Goto(i, outcome) /\ starts' = starts
  BY DEF Commit, Finished, At, Steps
<1>2. /\ conn[i] \in Live /\ Connected(i) /\ TypeOK /\ tx[conn[i]] \in Tx
  BY <1>1, OwnSession
<1>3. /\ DataKnows' /\ Carried(Release[i]) \subseteq schema'
      /\ table => table'
      /\ schema \subseteq schema'
  BY <1>1, <1>2, CommitData DEF Connected
<1>4. /\ \A j \in Instances : InstanceKnows(j)'
      /\ ConnsDiffer'
      /\ tx'[conn[i]] = NULL
      /\ \A s \in Sessions \ {conn[i]} : tx'[s] = tx[s]
      /\ tx' \in [Sessions -> Tx \cup {NULL}]
      /\ conn' \in [Instances -> Sessions \cup {NULL}]
      /\ pc' \in [Instances -> Steps \cup {"down", "serving"}]
  BY <1>1, <1>3, OthersStay
<1>5. TypeOK'
  BY <1>1, <1>2, <1>4 DEF TypeOK, Committed, Tx
<1>6. /\ \A o \in Live' : SessionKnows(o)'
      /\ \A o \in Live' : \A r \in Live' \ {o} : Apart(o, r)'
  BY <1>1, <1>2, <1>4, SessionCommits
<1> QED
  BY <1>3, <1>4, <1>5, <1>6, NextParts

\* The instance is gone; the server still holds its transaction, as u.
LEMMA GoneInv ==
  ASSUME Inv, NEW i \in Instances, pc[i] \in Steps, NEW u \in Tx,
         Wrote(i, u), Leave(i), Goto(i, "down"), Unchanged, UNCHANGED starts,
         u.ran = tx[conn[i]].ran, u.known = tx[conn[i]].known, WorkInOrder(u)
  PROVE  Inv'
<1>1. /\ SessionKnows(conn[i]) /\ conn[i] \in Live
      /\ TypeOK /\ DataKnows
      /\ \A s \in Live : SessionKnows(s)
      /\ \A s \in Live : \A o \in Live \ {s} : Apart(s, o)
  BY OwnSession, InvParts
<1>2. /\ \A j \in Instances : InstanceKnows(j)'
      /\ ConnsDiffer'
      /\ tx'[conn[i]] = u
      /\ \A s \in Sessions \ {conn[i]} : tx'[s] = tx[s]
      /\ TypeOK'
  BY <1>1, OthersStay DEF Unchanged, TypeOK
<1>3. Live' = Live
  BY <1>1, <1>2, NullAssumption DEF Live
<1>4. ASSUME NEW s \in Live' PROVE SessionKnows(s)'
  <2>1. CASE s = conn[i]
    <3>1. WorkInOrder(u)'
      BY DEF WorkInOrder, Unchanged, NextDue, Due, Prefixes, Carried
    <3> QED
      BY <2>1, <3>1, <1>1, <1>2 DEF SessionKnows, Unchanged
  <2>2. CASE s # conn[i]
    BY <2>2, <1>1, <1>2, <1>3, SessionStays DEF Live
  <2> QED
    BY <2>1, <2>2
<1>5. \A s \in Live' : \A o \in Live' \ {s} : Apart(s, o)'
  <2>1. \A s \in Live : tx'[s].ran = tx[s].ran
    BY <1>2 DEF Live
  <2> QED
    BY <2>1, <1>1, <1>3 DEF Apart
<1>6. DataKnows'
  BY <1>1, DataStays
<1> QED
  BY <1>2, <1>4, <1>5, <1>6, NextParts

LEMMA CrashInv ==
  ASSUME Inv, NEW i \in Instances, Crash(i)
  PROVE  Inv'
<1> DEFINE t == tx[conn[i]]
           u == [t EXCEPT !.state = IF Finished(i) THEN "committing"
                                                   ELSE "orphaned"]
<1>1. /\ pc[i] \in Steps /\ Wrote(i, u) /\ Leave(i) /\ Goto(i, "down")
      /\ Unchanged /\ UNCHANGED starts
  BY DEF Crash
<1>2. t \in Tx /\ SessionKnows(conn[i])
  BY <1>1, OwnSession
<1>3. /\ u \in Tx /\ u.ran = t.ran /\ u.file = t.file
      /\ u.wanted = t.wanted /\ u.known = t.known /\ u.created = t.created
      /\ u.recorded = t.recorded
      /\ u.state = "committing" => Finished(i)
  BY <1>2 DEF Tx
<1>4. NextDue(u) = NextDue(t) /\ Due(u) = Due(t)
  BY <1>3 DEF NextDue, Due
<1>5. WorkInOrder(u)
  BY <1>2, <1>3, <1>4 DEF SessionKnows, WorkInOrder, Finished
<1> QED
  BY <1>1, <1>3, <1>5, GoneInv

LEMMA StopInv ==
  ASSUME Inv, NEW i \in Instances, Stop(i)
  PROVE  Inv'
<1>1. /\ TypeOK /\ ConnsDiffer /\ DataKnows
      /\ \A j \in Instances : InstanceKnows(j)
      /\ \A s \in Live : SessionKnows(s)
      /\ \A s \in Live : \A o \in Live \ {s} : Apart(s, o)
  BY InvParts
<1>2. /\ Unchanged /\ tx' = tx /\ conn' = conn /\ starts' = starts
      /\ Live' = Live
  BY DEF Stop, Live
<1>3. TypeOK' /\ ConnsDiffer'
  BY <1>1, <1>2 DEF Stop, Goto, TypeOK, Unchanged, ConnsDiffer
<1>4. ASSUME NEW j \in Instances PROVE InstanceKnows(j)'
  <2>1. CASE j = i
    BY <2>1, <1>1, <1>2 DEF Stop, Goto, TypeOK, InstanceKnows, Connected, Steps
  <2>2. CASE j # i
    BY <2>2, <1>1, <1>2, InstanceStays DEF Stop, Goto, TypeOK, Unchanged
  <2> QED
    BY <2>1, <2>2
<1>5. \A s \in Live' : SessionKnows(s)'
  BY <1>1, <1>2, SessionStays
<1>6. \A s \in Live' : \A o \in Live' \ {s} : Apart(s, o)'
  BY <1>1, <1>2 DEF Apart
<1> QED
  BY <1>1, <1>2, <1>3, <1>4, <1>5, <1>6, DataStays, NextParts

\* A session whose client is gone is the session of no instance.
LEMMA Unattended ==
  ASSUME Inv, NEW s \in Live, tx[s].state # "attached"
  PROVE  \A j \in Instances : pc[j] \in Steps => conn[j] # s
BY InvParts DEF InstanceKnows, Connected

LEMMA ServerInv ==
  ASSUME Inv, NEW s \in Sessions, Abort(s) \/ LateCommit(s)
  PROVE  Inv'
<1>1. /\ TypeOK /\ ConnsDiffer /\ DataKnows
      /\ \A j \in Instances : InstanceKnows(j)
  BY InvParts
<1>2. /\ s \in Live /\ tx[s].state # "attached"
      /\ tx' = [tx EXCEPT ![s] = NULL]
      /\ UNCHANGED <<conn, pc, starts>>
  BY DEF Abort, LateCommit
<1>3. /\ tx'[s] = NULL /\ (\A o \in Sessions \ {s} : tx'[o] = tx[o])
      /\ tx' \in [Sessions -> Tx \cup {NULL}] /\ tx[s] \in Tx
  BY <1>1, <1>2 DEF TypeOK, Live
<1>4. ConnsDiffer'
  BY <1>1, <1>2 DEF ConnsDiffer
<1>5. ASSUME table => table', schema \subseteq schema'
      PROVE  \A j \in Instances : InstanceKnows(j)'
  <2> SUFFICES ASSUME NEW j \in Instances PROVE InstanceKnows(j)'
    OBVIOUS
  <2>1. pc[j] \in Steps => tx'[conn[j]] = tx[conn[j]]
    BY <1>1, <1>2, <1>3, Unattended DEF InstanceKnows, Connected, Live
  <2> QED
    BY <2>1, <1>1, <1>2, <1>5, InstanceStays
<1>6. CASE Abort(s)
  <2>1. Unchanged
    BY <1>6 DEF Abort
  <2>2. TypeOK' /\ DataKnows' /\ \A j \in Instances : InstanceKnows(j)'
    BY <2>1, <1>1, <1>2, <1>3, <1>5, DataStays DEF TypeOK, Unchanged
  <2> QED
    BY <2>1, <2>2, <1>2, <1>3, <1>4, SessionEnds, NextParts
<1>7. CASE LateCommit(s)
  <2>1. tx[s].file = 0 /\ Due(tx[s]) = {} /\ Committed(tx[s])
    BY <1>2, <1>7, InvParts DEF LateCommit, SessionKnows, WorkInOrder
  <2>2. /\ DataKnows' /\ (table => table') /\ schema \subseteq schema'
    BY <2>1, <1>2, CommitData
  <2>3. TypeOK' /\ \A j \in Instances : InstanceKnows(j)'
    BY <2>1, <2>2, <1>1, <1>2, <1>3, <1>5 DEF TypeOK, Committed, Tx
  <2> QED
    BY <2>1, <2>2, <2>3, <1>2, <1>3, <1>4, SessionCommits, NextParts
<1> QED
  BY <1>6, <1>7

LEMMA NextInv ==
  ASSUME Inv, [Next]_vars
  PROVE  Inv'
<1>1. CASE UNCHANGED vars
  BY <1>1 DEF vars, Inv, TypeOK, ConnsDiffer, Connected, WorkInOrder,
     OneMigrator, VersionsTellSchema, AllOrNothing, ServingIsMigrated, Live,
     Prefixes, Carried, NextDue, Due
<1>2. ASSUME NEW i \in Instances, NEW s \in Sessions, Begin(i, s) PROVE Inv'
  BY <1>2, BeginInv
<1>3. ASSUME NEW i \in Instances, Migrate(i) PROVE Inv'
  BY <1>3, EnsureInv, LoadInv, ExecInv, RecordInv, CommitInv DEF Migrate
<1>4. ASSUME NEW i \in Instances, DBError(i) PROVE Inv'
  BY <1>4, FailedInv DEF DBError
<1>5. ASSUME NEW i \in Instances, Crash(i) \/ Stop(i) PROVE Inv'
  BY <1>5, CrashInv, StopInv
<1>6. ASSUME NEW s \in Sessions, Abort(s) \/ LateCommit(s) PROVE Inv'
  BY <1>6, ServerInv
<1> QED
  BY <1>1, <1>2, <1>3, <1>4, <1>5, <1>6 DEF Next

(***************************************************************************)
(* The inductive invariant of RunMigrations.                               *)
(***************************************************************************)
THEOREM Invariance == Spec => []Inv
BY InitInv, NextInv, PTL DEF Spec

(***************************************************************************)
(* schema_migrations lists what was run, in every interleaving, crash and  *)
(* restart of any number of instances.                                     *)
(***************************************************************************)
THEOREM VersionsTellSchemaAlways == Spec => []VersionsTellSchema
<1>1. Inv => VersionsTellSchema
  BY DEF Inv
<1> QED
  BY <1>1, Invariance, PTL

(***************************************************************************)
(* The database is empty or at the release of some instance, never between *)
(* two.                                                                    *)
(***************************************************************************)
THEOREM AllOrNothingAlways == Spec => []AllOrNothing
<1>1. Inv => AllOrNothing
  BY DEF Inv
<1> QED
  BY <1>1, Invariance, PTL

(***************************************************************************)
(* No instance serves before the tables its code needs are there.          *)
(***************************************************************************)
THEOREM ServingIsMigratedAlways == Spec => []ServingIsMigrated
<1>1. Inv => ServingIsMigrated
  BY DEF Inv
<1> QED
  BY <1>1, Invariance, PTL

-----------------------------------------------------------------------------
LEMMA CommitGoesForward ==
  ASSUME Inv, NEW s \in Live, Committed(tx[s]),
         tx[s].file = 0, Due(tx[s]) = {}, versions # versions'
  PROVE  /\ versions \subseteq versions'
         /\ \E i \in Instances : versions' = Carried(Release[i])
<1>1. /\ versions \subseteq versions' /\ versions' = tx[s].wanted
      /\ tx[s].wanted \in Prefixes
  BY CommitData, InvParts DEF SessionKnows, WorkInOrder
<1>2. versions' # {}
  BY <1>1
<1>3. Carried(0) = {}
  BY DEF Carried
<1> QED
  BY <1>1, <1>2, <1>3 DEF Prefixes

(***************************************************************************)
(* The versions change only from one release to a newer one.               *)
(***************************************************************************)
THEOREM SchemaGoesForwardAlways == Spec => SchemaGoesForward
<1> DEFINE Forward ==
      versions # versions' =>
        /\ versions \subseteq versions'
        /\ \E i \in Instances : versions' = Carried(Release[i])
<1>1. ASSUME Inv, [Next]_vars PROVE [Forward]_vars
  <2>1. CASE versions' = versions
    BY <2>1
  <2>2. ASSUME NEW i \in Instances, NEW outcome \in {"serving", "down"},
               Commit(i, outcome)
        PROVE  Forward
    BY <1>1, <2>2, CommitGoesForward, OwnSession
       DEF Commit, Finished, At, Steps
  <2>3. ASSUME NEW s \in Sessions, LateCommit(s) PROVE Forward
    <3>1. tx[s].file = 0 /\ Due(tx[s]) = {} /\ s \in Live
      BY <1>1, <2>3, InvParts DEF LateCommit, SessionKnows, WorkInOrder
    <3> QED
      BY <1>1, <2>3, <3>1, CommitGoesForward DEF LateCommit
  <2>4. CASE \/ \E i \in Instances :
                  \/ \E s \in Sessions : Begin(i, s)
                  \/ Ensure(i) \/ Load(i) \/ Exec(i) \/ Record(i)
                  \/ DBError(i) \/ Crash(i) \/ Stop(i)
             \/ \E s \in Sessions : Abort(s)
             \/ UNCHANGED vars
    <3>1. versions' = versions
      BY <2>4 DEF Begin, Ensure, Load, Exec, Record, DBError, Crash, Stop,
                  Abort, Failed, Unchanged, vars
    <3> QED
      BY <3>1, <2>1
  <2> QED
    BY <1>1, <2>1, <2>2, <2>3, <2>4 DEF Next, Migrate
<1>2. Spec => [][Forward]_vars
  BY <1>1, Invariance, PTL DEF Spec
<1> QED
  BY <1>2 DEF SchemaGoesForward

=============================================================================
