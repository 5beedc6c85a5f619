--------------------------- MODULE AuthServiceProofs ---------------------------
(***************************************************************************)
(* Proofs about AuthService for any number of goroutines, users, spellings *)
(* and passwords: the inductive invariant Inv, and what follows from it.   *)
(***************************************************************************)
EXTENDS AuthService, TLAPS

USE DEF NormalizeEmail, KnownRole, Got

\* The parts of Inv that speak of one goroutine.
CanLogin(p) ==
  Got(p, "login", "UNAUTHORIZED") =>
    \A account \in call[p].acknowledged :
      ~ /\ account.email = Normal[call[p].email]
        /\ account.password = call[p].password

TokenNames(p) ==
  /\ held[p] # NULL => /\ held[p].user \in DOMAIN users
                       /\ users[held[p].user].role = held[p].role
  /\ reply[p] # NULL /\ reply[p].actor # NULL =>
       /\ reply[p].actor.user \in DOMAIN users
       /\ users[reply[p].actor.user].role = reply[p].actor.role

PasswordNeeded(p) ==
  Got(p, "login", "ok") =>
    /\ reply[p].actor # NULL
    /\ reply[p].actor.user \notin Seeds
    /\ users[reply[p].actor.user].digest = Digest[call[p].password]

ProcKnows(p) == /\ RegisteringKnows(p)
                /\ LoggingInKnows(p)
                /\ CreatedKnows(p)
                /\ AcknowledgedStands(p)
                /\ CanLogin(p)
                /\ TokenNames(p)
                /\ PasswordNeeded(p)

TableKnows == UniqueEmails /\ StoredNormal /\ SeedsStand

LEMMA InvParts ==
  Inv <=> TypeOK /\ TableKnows /\ IdsDiffer /\ \A p \in Procs : ProcKnows(p)
BY DEF Inv, ProcKnows, TableKnows, CanLogin, TokenNames, PasswordNeeded,
       RegisteredCanLogin, TokensNameUsers, LoginNeedsPassword

LEMMA NextParts ==
  ASSUME TypeOK', TableKnows', IdsDiffer', \A p \in Procs : ProcKnows(p)'
  PROVE  Inv'
BY DEF Inv, ProcKnows, TableKnows, CanLogin, TokenNames, PasswordNeeded,
       RegisteredCanLogin, TokensNameUsers, LoginNeedsPassword

LEMMA SeedRows ==
  ASSUME NEW seed \in Seeds
  PROVE  /\ SeedRow(seed) \in Row
         /\ SeedRow(seed).email = SeedEmail[seed]
         /\ SeedRow(seed).digest = NULL
         /\ SeedRow(AdminSeed).role = "admin" /\ SeedRow(UserSeed).role = "user"
BY AuthAssumption DEF SeedRow, Row, Roles, Seeds

LEMMA InitInv == Init => Inv
<1> SUFFICES ASSUME Init PROVE Inv
  OBVIOUS
<1> USE DEF Init
<1>1. TypeOK
  BY SeedRows, AuthAssumption DEF TypeOK, IDs
<1>2. TableKnows
  <2>1. \A seed \in Seeds : users[seed] = SeedRow(seed)
    OBVIOUS
  <2>2. UniqueEmails /\ StoredNormal
    BY <2>1, SeedRows, AuthAssumption DEF UniqueEmails, StoredNormal, Seeds
  <2> QED
    BY <2>1, <2>2 DEF TableKnows, SeedsStand
<1>3. \A p \in Procs : ProcKnows(p)
  BY DEF ProcKnows, RegisteringKnows, LoggingInKnows, CreatedKnows,
         AcknowledgedStands, CanLogin, TokenNames, PasswordNeeded, Inserting
<1>4. IdsDiffer
  BY DEF IdsDiffer, Inserting
<1> QED
  BY <1>1, <1>2, <1>3, <1>4, InvParts

-----------------------------------------------------------------------------
\* What every step keeps of the table.
UsersKept ==
  \A id \in DOMAIN users : id \in DOMAIN users' /\ users'[id] = users[id]

\* A goroutine the step does not touch still knows what it knew.
LEMMA OthersKept ==
  ASSUME UsersKept, NEW q \in Procs, ProcKnows(q),
         UNCHANGED <<pc[q], call[q], reply[q], held[q]>>,
         Inserting(q) => call[q].id \notin DOMAIN users'
  PROVE  ProcKnows(q)'
<1>1. RegisteringKnows(q)' /\ LoggingInKnows(q)'
  BY DEF ProcKnows, RegisteringKnows, LoggingInKnows, Inserting,
         ValidCredentials
<1>2. CreatedKnows(q)'
  BY DEF ProcKnows, CreatedKnows, UsersKept, ValidCredentials, NewRow
<1>3. AcknowledgedStands(q)' /\ CanLogin(q)'
  BY DEF ProcKnows, AcknowledgedStands, CanLogin, UsersKept
<1>4. TokenNames(q)' /\ PasswordNeeded(q)'
  BY DEF ProcKnows, TokenNames, PasswordNeeded, UsersKept
<1> QED
  BY <1>1, <1>2, <1>3, <1>4 DEF ProcKnows

\* Steps of p that write nothing.
LEMMA ReadStep ==
  ASSUME Inv, UNCHANGED users, NEW p \in Procs, TypeOK',
         \A q \in Procs \ {p} : UNCHANGED <<pc[q], call[q], reply[q], held[q]>>,
         ProcKnows(p)',
         Inserting(p)' => \A q \in Procs \ {p} :
                            Inserting(q) => call[q].id # call'[p].id,
         ~ Got(p, "register", "created")'
  PROVE  Inv'
<1>1. TypeOK /\ TableKnows /\ IdsDiffer /\ \A q \in Procs : ProcKnows(q)
  BY InvParts
<1>2. TableKnows'
  BY <1>1 DEF TableKnows, UniqueEmails, StoredNormal, SeedsStand
<1>3. ASSUME NEW q \in Procs \ {p} PROVE ProcKnows(q)'
  <2>1. ProcKnows(q) /\ UsersKept
    BY <1>1 DEF UsersKept
  <2>2. Inserting(q) => call[q].id \notin DOMAIN users'
    BY <2>1 DEF ProcKnows, RegisteringKnows
  <2> QED
    BY <2>1, <2>2, OthersKept
<1>4. IdsDiffer'
  BY <1>1 DEF IdsDiffer, Inserting
<1> QED
  BY <1>2, <1>3, <1>4, NextParts

\* The row that an insert adds, and what it keeps.
LEMMA InsertedRow ==
  ASSUME Inv, NEW p \in Procs, Inserting(p), UserInserted(p)
  PROVE  /\ NewRow(call[p]) \in Row
         /\ DOMAIN users' = DOMAIN users \cup {call[p].id}
         /\ users'[call[p].id] = NewRow(call[p])
         /\ UsersKept
         /\ DOMAIN users' \in SUBSET IDs /\ users' \in [DOMAIN users' -> Row]
         /\ TableKnows'
<1> DEFINE c == call[p]
<1>1. TypeOK /\ TableKnows /\ RegisteringKnows(p)
  BY InvParts DEF ProcKnows
<1>2. /\ c \in Call /\ c.op = "register" /\ c.role \in Roles
      /\ c.id \notin DOMAIN users
  BY <1>1 DEF TypeOK, RegisteringKnows
<1>3. c.id \in UserIDs /\ c.email \in Spellings /\ c.password \in Passwords
  BY <1>2 DEF Call
<1>4. NewRow(c) \in Row /\ Normal[NewRow(c).email] = NewRow(c).email
  BY <1>2, <1>3, AuthAssumption DEF NewRow, Row
<1>5. /\ DOMAIN users' = DOMAIN users \cup {c.id}
      /\ users'[c.id] = NewRow(c)
      /\ \A id \in DOMAIN users : users'[id] = users[id]
      /\ users' = [i \in DOMAIN users \cup {c.id} |->
                     IF i = c.id THEN NewRow(c) ELSE users[i]]
  BY <1>2 DEF UserInserted, WithRow
<1>6. DOMAIN users' \in SUBSET IDs /\ users' \in [DOMAIN users' -> Row]
  BY <1>1, <1>3, <1>4, <1>5 DEF TypeOK, IDs
<1>7. UniqueEmails'
  BY <1>1, <1>5 DEF TableKnows, UniqueEmails, UserInserted, EmailTaken
<1>8. StoredNormal'
  BY <1>1, <1>4, <1>5 DEF TableKnows, StoredNormal
<1>9. SeedsStand'
  BY <1>1, <1>5 DEF TableKnows, SeedsStand, SeedRow
<1> QED
  BY <1>4, <1>5, <1>6, <1>7, <1>8, <1>9 DEF TableKnows, UsersKept

\* Steps of p that insert its row.
LEMMA WriteStep ==
  ASSUME Inv, NEW p \in Procs, Inserting(p), UserInserted(p), TypeOK',
         call' = call, held' = held,
         pc' = [pc EXCEPT ![p] = "idle"],
         \A q \in Procs \ {p} : reply'[q] = reply[q],
         reply'[p] = NULL \/ /\ reply'[p] # NULL /\ reply'[p].actor = NULL
                             /\ reply'[p].code \in {"created", "INTERNAL_ERROR"}
  PROVE  Inv'
<1>1. TypeOK /\ TableKnows /\ IdsDiffer /\ \A q \in Procs : ProcKnows(q)
  BY InvParts
<1>2. /\ DOMAIN users' = DOMAIN users \cup {call[p].id}
      /\ users'[call[p].id] = NewRow(call[p])
      /\ UsersKept /\ TableKnows'
  BY InsertedRow
<1>3. RegisteringKnows(p) /\ CreatedKnows(p) /\ TokenNames(p)
  BY <1>1 DEF ProcKnows
<1>4. /\ pc'[p] = "idle"
      /\ \A q \in Procs \ {p} : pc'[q] = pc[q]
  BY <1>1 DEF TypeOK
<1>5. ASSUME NEW q \in Procs \ {p} PROVE ProcKnows(q)'
  <2>1. ProcKnows(q) /\ UNCHANGED <<pc[q], call[q], reply[q], held[q]>>
    BY <1>1, <1>4
  <2>2. Inserting(q) => call[q].id \notin DOMAIN users'
    BY <1>1, <1>2, <2>1 DEF ProcKnows, RegisteringKnows, IdsDiffer
  <2> QED
    BY <1>2, <2>1, <2>2, OthersKept
<1>6. ProcKnows(p)'
  <2>1. RegisteringKnows(p)' /\ LoggingInKnows(p)'
    BY <1>4 DEF RegisteringKnows, LoggingInKnows, Inserting
  <2>2. CreatedKnows(p)'
    BY <1>2, <1>3 DEF CreatedKnows, RegisteringKnows, NewRow, ValidCredentials
  <2>3. AcknowledgedStands(p)' /\ CanLogin(p)' /\ PasswordNeeded(p)'
    BY <1>3 DEF AcknowledgedStands, CanLogin, PasswordNeeded, RegisteringKnows
  <2>4. TokenNames(p)'
    BY <1>2, <1>3 DEF TokenNames, UsersKept
  <2> QED
    BY <2>1, <2>2, <2>3, <2>4 DEF ProcKnows
<1>7. IdsDiffer'
  <2>1. \A q \in Procs : Inserting(q)' => Inserting(q) /\ q # p
    BY <1>4 DEF Inserting
  <2>2. ASSUME NEW q \in Procs \ {p}, Got(q, "register", "created")'
        PROVE  call'[q].id # call'[p].id
    BY <1>1, <1>3, <2>2 DEF ProcKnows, CreatedKnows, RegisteringKnows
  <2> QED
    BY <1>1, <2>1, <2>2 DEF IdsDiffer
<1> QED
  BY <1>2, <1>5, <1>6, <1>7, NextParts

-----------------------------------------------------------------------------
LEMMA RegisterKeeps ==
  ASSUME Inv, NEW p \in Procs, NEW id \in UserIDs, NEW c \in Credentials,
         NEW role \in RoleParams, Register(p, id, c.email, c.password, role)
  PROVE  Inv'
<1> DEFINE r == [op |-> "register", id |-> id, email |-> c.email,
                 password |-> c.password, role |-> role]
<1>1. TypeOK /\ ProcKnows(p)
  BY InvParts
<1>2. r \in Call /\ r # NULL
  BY AuthAssumption, NullAssumption DEF Call
<1>3. /\ call' = [call EXCEPT ![p] = r] /\ call'[p] = r
      /\ users' = users /\ held' = held /\ now' = now
      /\ pc' = [pc EXCEPT ![p] = pc'[p]] /\ reply' = [reply EXCEPT ![p] = reply'[p]]
      /\ \/ /\ pc'[p] = "idle"
            /\ \/ reply'[p] = Answered("INVALID_REQUEST", NULL)
               \/ reply'[p] = Answered("INTERNAL_ERROR", NULL)
         \/ /\ pc'[p] = "Insert" /\ reply'[p] = NULL
            /\ ValidCredentials(c.email, c.password) /\ role \in Roles
  BY <1>1 DEF Register, Receive, Accept, Answer, Goto, TypeOK
<1>4. reply'[p] \in Reply \cup {NULL} /\ (reply'[p] # NULL => reply'[p].actor = NULL)
  BY <1>3 DEF Answered, Reply, Codes
<1>5. TypeOK'
  BY <1>1, <1>2, <1>3, <1>4 DEF TypeOK
<1>6. \A q \in Procs \ {p} : UNCHANGED <<pc[q], call[q], reply[q], held[q]>>
  BY <1>1, <1>3 DEF TypeOK
<1>7. ProcKnows(p)'
  <2>1. RegisteringKnows(p)' /\ LoggingInKnows(p)'
    BY <1>2, <1>3 DEF RegisteringKnows, LoggingInKnows, Inserting, Register,
       FreshID, ValidCredentials
  <2>2. CreatedKnows(p)' /\ CanLogin(p)' /\ PasswordNeeded(p)'
    BY <1>2, <1>3 DEF CreatedKnows, CanLogin, PasswordNeeded, Answered
  <2>3. AcknowledgedStands(p)'
    BY <1>3 DEF AcknowledgedStands
  <2>4. TokenNames(p)'
    BY <1>1, <1>3, <1>4 DEF TokenNames, ProcKnows
  <2> QED
    BY <2>1, <2>2, <2>3, <2>4 DEF ProcKnows
<1>8. \A q \in Procs : Inserting(q) => call[q].id # call'[p].id
  BY <1>3 DEF Register, FreshID, Inserting
<1>9. ~ Got(p, "register", "created")'
  BY <1>3 DEF Answered
<1> QED
  BY <1>3, <1>5, <1>6, <1>7, <1>8, <1>9, ReadStep

\* Insert, InsertUnacknowledged and LostInsert.
LEMMA InsertKeeps ==
  ASSUME Inv, NEW p \in Procs,
         Insert(p) \/ InsertUnacknowledged(p) \/ LostInsert(p)
  PROVE  Inv'
<1>1. TypeOK /\ ProcKnows(p) /\ Inserting(p)
  BY InvParts DEF Insert, InsertUnacknowledged, LostInsert, Inserting
<1>2. reply[p] = NULL /\ call[p].op = "register" /\ call[p] # NULL
  BY <1>1 DEF ProcKnows, RegisteringKnows
<1>3. /\ call' = call /\ held' = held /\ now' = now
      /\ pc' = [pc EXCEPT ![p] = "idle"] /\ pc'[p] = "idle"
      /\ reply' = [reply EXCEPT ![p] = reply'[p]]
      /\ \A q \in Procs \ {p} : pc'[q] = pc[q] /\ reply'[q] = reply[q]
      /\ \/ /\ UserInserted(p)
            /\ \/ reply'[p] = NULL
               \/ reply'[p] = Answered("created", NULL)
               \/ reply'[p] = Answered("INTERNAL_ERROR", NULL)
         \/ /\ users' = users
            /\ reply'[p] = NULL \/ reply'[p] = Answered("EMAIL_TAKEN", NULL)
  BY <1>1, <1>2 DEF Insert, InsertUnacknowledged, LostInsert, Answer, Goto, TypeOK
<1>4. reply'[p] \in Reply \cup {NULL} /\ (reply'[p] # NULL => reply'[p].actor = NULL)
  BY <1>3 DEF Answered, Reply, Codes
<1>5. CASE UserInserted(p)
  <2>1. TypeOK'
    BY <1>1, <1>3, <1>4, <1>5, InsertedRow DEF TypeOK
  <2>2. users' # users
    BY <1>1, <1>5, InsertedRow DEF ProcKnows, RegisteringKnows
  <2>3. reply'[p] = NULL \/ /\ reply'[p] # NULL /\ reply'[p].actor = NULL
                            /\ reply'[p].code \in {"created", "INTERNAL_ERROR"}
    BY <1>3, <1>4, <2>2 DEF Answered
  <2> QED
    BY <1>1, <1>3, <1>5, <2>1, <2>3, WriteStep
<1>6. CASE users' = users /\ (\/ reply'[p] = NULL
                              \/ reply'[p] = Answered("EMAIL_TAKEN", NULL))
  <2>1. TypeOK'
    BY <1>1, <1>3, <1>4, <1>6 DEF TypeOK
  <2>2. ProcKnows(p)'
    <3>1. RegisteringKnows(p)' /\ LoggingInKnows(p)' /\ AcknowledgedStands(p)'
      BY <1>2, <1>3 DEF RegisteringKnows, LoggingInKnows, Inserting,
         AcknowledgedStands
    <3>2. CreatedKnows(p)' /\ CanLogin(p)' /\ PasswordNeeded(p)'
      BY <1>2, <1>3, <1>6 DEF CreatedKnows, CanLogin, PasswordNeeded, Answered
    <3>3. TokenNames(p)'
      BY <1>1, <1>3, <1>4, <1>6 DEF TokenNames, ProcKnows
    <3> QED
      BY <3>1, <3>2, <3>3 DEF ProcKnows
  <2>3. ~ Got(p, "register", "created")' /\ ~ Inserting(p)'
    BY <1>3, <1>6 DEF Answered, Inserting
  <2> QED
    BY <1>3, <1>6, <2>1, <2>2, <2>3, ReadStep
<1> QED
  BY <1>3, <1>5, <1>6

\* What the clients were told of their registrations is in the table.
LEMMA AcknowledgedInTable ==
  ASSUME Inv, NEW account \in Acknowledged
  PROVE  /\ account \in Account
         /\ account.email \notin Malformed /\ account.password \notin Blank
         /\ \E id \in DOMAIN users : /\ users[id].email = account.email
                                     /\ users[id].digest = Digest[account.password]
<1>1. PICK q \in Procs :
        /\ Got(q, "register", "created")
        /\ account = [email |-> NormalizeEmail(call[q].email),
                      password |-> call[q].password]
  BY DEF Acknowledged
<1>2. TypeOK /\ CreatedKnows(q)
  BY InvParts DEF ProcKnows
<1>3. call[q] \in Call /\ call[q].op = "register"
  BY <1>1, <1>2 DEF TypeOK, CreatedKnows
<1>4. call[q].email \in Spellings /\ call[q].password \in Passwords
  BY <1>3 DEF Call
<1> QED
  BY <1>1, <1>2, <1>4, AuthAssumption
     DEF CreatedKnows, NewRow, ValidCredentials, Account

LEMMA LoginKeeps ==
  ASSUME Inv, NEW p \in Procs, NEW c \in Credentials,
         Login(p, c.email, c.password)
  PROVE  Inv'
<1> DEFINE r == [op |-> "login", email |-> c.email, password |-> c.password,
                 acknowledged |-> Acknowledged]
<1>1. TypeOK /\ ProcKnows(p)
  BY InvParts
<1>2. r \in Call /\ r # NULL
  <2>1. Acknowledged \in SUBSET Account
    BY AcknowledgedInTable
  <2> QED
    BY <2>1, AuthAssumption, NullAssumption DEF Call
<1>3. /\ call' = [call EXCEPT ![p] = r] /\ call'[p] = r
      /\ users' = users /\ held' = held /\ now' = now
      /\ pc' = [pc EXCEPT ![p] = pc'[p]] /\ reply' = [reply EXCEPT ![p] = reply'[p]]
      /\ \/ /\ pc'[p] = "idle" /\ reply'[p] = Answered("UNAUTHORIZED", NULL)
            /\ ~ ValidCredentials(c.email, c.password)
         \/ /\ pc'[p] = "GetByEmail" /\ reply'[p] = NULL
            /\ ValidCredentials(c.email, c.password)
  BY <1>1 DEF Login, Receive, Accept, Answer, Goto, TypeOK
<1>4. reply'[p] \in Reply \cup {NULL} /\ (reply'[p] # NULL => reply'[p].actor = NULL)
  BY <1>3 DEF Answered, Reply, Codes
<1>5. TypeOK'
  BY <1>1, <1>2, <1>3, <1>4 DEF TypeOK
<1>6. \A q \in Procs \ {p} : UNCHANGED <<pc[q], call[q], reply[q], held[q]>>
  BY <1>1, <1>3 DEF TypeOK
<1>7. ProcKnows(p)'
  <2>1. RegisteringKnows(p)' /\ LoggingInKnows(p)'
    BY <1>2, <1>3 DEF RegisteringKnows, LoggingInKnows, Inserting, ValidCredentials
  <2>2. CreatedKnows(p)' /\ PasswordNeeded(p)'
    BY <1>2, <1>3 DEF CreatedKnows, PasswordNeeded, Answered
  <2>3. AcknowledgedStands(p)'
    BY <1>3, AcknowledgedInTable DEF AcknowledgedStands
  <2>4. CanLogin(p)'
    BY <1>3, AcknowledgedInTable DEF CanLogin, ValidCredentials
  <2>5. TokenNames(p)'
    BY <1>1, <1>3, <1>4 DEF TokenNames, ProcKnows
  <2> QED
    BY <2>1, <2>2, <2>3, <2>4, <2>5 DEF ProcKnows
<1>8. ~ Inserting(p)' /\ ~ Got(p, "register", "created")'
  BY <1>3 DEF Answered, Inserting
<1> QED
  BY <1>3, <1>5, <1>6, <1>7, <1>8, ReadStep

\* Granting a token for a row that is there.
LEMMA GrantKnows ==
  ASSUME TypeOK, NEW p \in Procs, NEW user \in IDs, NEW role \in Roles,
         Grant(p, user, role)
  PROVE  /\ held' \in [Procs -> Token \cup {NULL}]
         /\ held'[p].user = user /\ held'[p].role = role
         /\ reply' \in [Procs -> Reply \cup {NULL}]
         /\ reply'[p] # NULL /\ reply'[p].code = "ok"
         /\ reply'[p].actor # NULL
         /\ reply'[p].actor.user = user /\ reply'[p].actor.role = role
         /\ pc' = [pc EXCEPT ![p] = "idle"] /\ pc'[p] = "idle"
         /\ \A q \in Procs \ {p} : UNCHANGED <<pc[q], reply[q], held[q]>>
<1> DEFINE a == [user |-> user, role |-> role]
<1> DEFINE t == [user |-> user, role |-> role, exp |-> now + TTL]
<1>1. t \in Token /\ a # NULL /\ a \in [user : IDs, role : Roles]
  BY AuthAssumption, NullAssumption DEF TypeOK, Token
<1>2. Answered("ok", a) \in Reply /\ Answered("ok", a) # NULL
  BY <1>1, NullAssumption DEF Answered, Reply, Codes
<1>3. /\ held' = [held EXCEPT ![p] = t]
      /\ reply' = [reply EXCEPT ![p] = Answered("ok", a)]
      /\ pc' = [pc EXCEPT ![p] = "idle"]
  BY DEF Grant, Goto
<1>4. held'[p] = t /\ reply'[p] = Answered("ok", a) /\ pc'[p] = "idle"
  BY <1>3 DEF TypeOK
<1> QED
  BY <1>1, <1>2, <1>3, <1>4 DEF TypeOK, Answered

LEMMA GetByEmailKeeps ==
  ASSUME Inv, NEW p \in Procs, GetByEmail(p)
  PROVE  Inv'
<1>1. TypeOK /\ ProcKnows(p) /\ TableKnows
  BY InvParts
<1>2. /\ pc[p] = "GetByEmail" /\ call[p] # NULL /\ call[p].op = "login"
      /\ reply[p] = NULL /\ ValidCredentials(call[p].email, call[p].password)
      /\ call' = call /\ users' = users /\ now' = now
  BY <1>1 DEF GetByEmail, ProcKnows, LoggingInKnows
<1>3. call[p].password \in Passwords
  BY <1>1, <1>2 DEF TypeOK, Call
<1>4. CASE Authenticated(call[p].email, call[p].password) = {} /\ held' = held
           /\ Answer(p, "UNAUTHORIZED")
  <2>1. /\ pc' = [pc EXCEPT ![p] = "idle"] /\ pc'[p] = "idle"
        /\ reply' = [reply EXCEPT ![p] = Answered("UNAUTHORIZED", NULL)]
        /\ reply'[p] = Answered("UNAUTHORIZED", NULL)
    BY <1>1, <1>4 DEF Answer, Goto, TypeOK
  <2>2. TypeOK'
    BY <1>1, <1>2, <1>4, <2>1 DEF TypeOK, Answered, Reply, Codes
  <2>3. ProcKnows(p)'
    <3>1. RegisteringKnows(p)' /\ LoggingInKnows(p)' /\ AcknowledgedStands(p)'
      BY <1>1, <1>2, <2>1 DEF RegisteringKnows, LoggingInKnows, Inserting,
         AcknowledgedStands, ProcKnows
    <3>2. CreatedKnows(p)' /\ PasswordNeeded(p)'
      BY <1>2, <2>1 DEF CreatedKnows, PasswordNeeded, Answered
    <3>3. CanLogin(p)'
      BY <1>1, <1>2, <1>4 DEF CanLogin, ProcKnows, AcknowledgedStands, Authenticated
    <3>4. TokenNames(p)'
      BY <1>1, <1>2, <1>4, <2>1 DEF TokenNames, ProcKnows, Answered
    <3> QED
      BY <3>1, <3>2, <3>3, <3>4 DEF ProcKnows
  <2>4. \A q \in Procs \ {p} : UNCHANGED <<pc[q], call[q], reply[q], held[q]>>
    BY <1>1, <1>2, <1>4, <2>1 DEF TypeOK
  <2>5. ~ Inserting(p)' /\ ~ Got(p, "register", "created")'
    BY <2>1 DEF Answered, Inserting
  <2> QED
    BY <1>2, <2>2, <2>3, <2>4, <2>5, ReadStep
<1>5. ASSUME NEW id \in Authenticated(call[p].email, call[p].password),
             Grant(p, id, users[id].role)
      PROVE  Inv'
  <2>1. /\ id \in DOMAIN users /\ id \in IDs /\ users[id] \in Row
        /\ users[id].role \in Roles
        /\ users[id].digest = Digest[call[p].password]
    BY <1>1, <1>5 DEF Authenticated, TypeOK, Row
  <2>2. id \notin Seeds
    BY <1>1, <1>3, <2>1, SeedRows, AuthAssumption, NullAssumption
       DEF TableKnows, SeedsStand
  <2>3. TypeOK'
    BY <1>1, <1>2, <1>5, <2>1, GrantKnows DEF TypeOK, Grant, Goto
  <2>4. ProcKnows(p)'
    <3>1. RegisteringKnows(p)' /\ LoggingInKnows(p)' /\ AcknowledgedStands(p)'
      BY <1>1, <1>2, <1>5, <2>1, GrantKnows DEF RegisteringKnows, LoggingInKnows,
         Inserting, AcknowledgedStands, ProcKnows
    <3>2. CreatedKnows(p)' /\ CanLogin(p)'
      BY <1>1, <1>2, <1>5, <2>1, GrantKnows DEF CreatedKnows, CanLogin
    <3>3. PasswordNeeded(p)' /\ TokenNames(p)'
      BY <1>1, <1>2, <1>5, <2>1, <2>2, GrantKnows DEF PasswordNeeded, TokenNames
    <3> QED
      BY <3>1, <3>2, <3>3 DEF ProcKnows
  <2>5. /\ \A q \in Procs \ {p} : UNCHANGED <<pc[q], call[q], reply[q], held[q]>>
        /\ ~ Inserting(p)' /\ ~ Got(p, "register", "created")'
    BY <1>1, <1>2, <1>5, <2>1, GrantKnows DEF Inserting
  <2> QED
    BY <1>2, <2>3, <2>4, <2>5, ReadStep
<1> QED
  BY <1>4, <1>5 DEF GetByEmail

LEMMA DummyLoginKeeps ==
  ASSUME Inv, NEW p \in Procs, NEW role \in RoleParams, DummyLogin(p, role)
  PROVE  Inv'
<1> DEFINE r == [op |-> "dummyLogin", role |-> role]
<1>1. TypeOK /\ ProcKnows(p) /\ TableKnows
  BY InvParts
<1>2. r \in Call /\ r # NULL
  BY NullAssumption DEF Call
<1>3. /\ call' = [call EXCEPT ![p] = r] /\ call'[p] = r
      /\ users' = users /\ now' = now
  BY <1>1 DEF DummyLogin, Receive, TypeOK
<1>4. \/ role \in Roles /\ Grant(p, SeedOf(role), role)
      \/ Answer(p, "INVALID_REQUEST") /\ held' = held
  BY DEF DummyLogin
<1>5. /\ TypeOK' /\ ~ Inserting(p)' /\ pc'[p] = "idle" /\ TokenNames(p)'
      /\ \A q \in Procs \ {p} : UNCHANGED <<pc[q], call[q], reply[q], held[q]>>
      /\ reply'[p] # NULL /\ reply'[p].code \in {"ok", "INVALID_REQUEST"}
  <2>1. CASE role \in Roles /\ Grant(p, SeedOf(role), role)
    <3>1. SeedOf(role) \in IDs /\ SeedOf(role) \in Seeds /\ SeedRow(SeedOf(role)).role = role
      BY <2>1, SeedRows DEF SeedOf, Seeds, IDs, Roles
    <3>2. SeedOf(role) \in DOMAIN users /\ users[SeedOf(role)].role = role
      BY <1>1, <3>1 DEF TableKnows, SeedsStand
    <3>3. /\ held' \in [Procs -> Token \cup {NULL}]
          /\ held'[p].user = SeedOf(role) /\ held'[p].role = role
          /\ reply' \in [Procs -> Reply \cup {NULL}]
          /\ reply'[p] # NULL /\ reply'[p].code = "ok"
          /\ reply'[p].actor.user = SeedOf(role) /\ reply'[p].actor.role = role
          /\ pc' = [pc EXCEPT ![p] = "idle"] /\ pc'[p] = "idle"
          /\ \A q \in Procs \ {p} : UNCHANGED <<pc[q], reply[q], held[q]>>
      BY <1>1, <2>1, <3>1, GrantKnows
    <3>4. TypeOK'
      BY <1>1, <1>2, <1>3, <3>3 DEF TypeOK
    <3>5. TokenNames(p)'
      BY <1>3, <3>2, <3>3 DEF TokenNames
    <3>6. \A q \in Procs \ {p} : UNCHANGED <<pc[q], call[q], reply[q], held[q]>>
      BY <1>1, <1>3, <3>3 DEF TypeOK
    <3> QED
      BY <3>3, <3>4, <3>5, <3>6 DEF Inserting
  <2>2. CASE Answer(p, "INVALID_REQUEST") /\ held' = held
    <3>1. /\ pc' = [pc EXCEPT ![p] = "idle"] /\ pc'[p] = "idle"
          /\ reply' = [reply EXCEPT ![p] = Answered("INVALID_REQUEST", NULL)]
          /\ reply'[p] = Answered("INVALID_REQUEST", NULL)
      BY <1>1, <2>2 DEF Answer, Goto, TypeOK
    <3>2. reply'[p] \in Reply /\ reply'[p].actor = NULL /\ reply'[p] # NULL
          /\ reply'[p].code = "INVALID_REQUEST"
      BY <3>1, NullAssumption DEF Answered, Reply, Codes
    <3> QED
      BY <1>1, <1>2, <1>3, <2>2, <3>1, <3>2
         DEF TypeOK, TokenNames, Inserting, ProcKnows
  <2> QED
    BY <1>4, <2>1, <2>2
<1>6. ProcKnows(p)'
  BY <1>2, <1>3, <1>5 DEF ProcKnows, RegisteringKnows, LoggingInKnows, Inserting,
     CreatedKnows, AcknowledgedStands, CanLogin, PasswordNeeded
<1>7. ~ Got(p, "register", "created")'
  BY <1>3
<1> QED
  BY <1>3, <1>5, <1>6, <1>7, ReadStep

LEMMA RequestKeeps ==
  ASSUME Inv, NEW p \in Procs, NEW o \in Procs, held[o] # NULL,
         Request(p, held[o])
  PROVE  Inv'
<1> DEFINE r == [op |-> "request", token |-> held[o]]
<1> DEFINE a == [user |-> held[o].user, role |-> held[o].role]
<1>1. TypeOK /\ ProcKnows(p) /\ ProcKnows(o)
  BY InvParts
<1>2. /\ held[o] \in Token /\ r \in Call /\ r # NULL
      /\ a \in [user : IDs, role : Roles] /\ a # NULL
  BY <1>1, NullAssumption DEF TypeOK, Call, Token
<1>3. /\ call' = [call EXCEPT ![p] = r] /\ call'[p] = r
      /\ users' = users /\ now' = now /\ held' = held
      /\ pc' = [pc EXCEPT ![p] = "idle"] /\ pc'[p] = "idle"
      /\ reply' = [reply EXCEPT ![p] = reply'[p]]
      /\ reply'[p] \in {Answered("ok", a), Answered("UNAUTHORIZED", NULL)}
  BY <1>1 DEF Request, Receive, Goto, TypeOK
<1>4. /\ reply'[p] \in Reply /\ reply'[p] # NULL
      /\ reply'[p].actor = a \/ reply'[p].actor = NULL
  BY <1>2, <1>3, NullAssumption DEF Answered, Reply, Codes
<1>5. TypeOK'
  BY <1>1, <1>2, <1>3, <1>4 DEF TypeOK
<1>6. ProcKnows(p)'
  <2>1. TokenNames(p)'
    BY <1>1, <1>3, <1>4 DEF TokenNames, ProcKnows
  <2> QED
    BY <1>2, <1>3, <2>1 DEF ProcKnows, RegisteringKnows, LoggingInKnows, Inserting,
       CreatedKnows, AcknowledgedStands, CanLogin, PasswordNeeded
<1>7. /\ \A q \in Procs \ {p} : UNCHANGED <<pc[q], call[q], reply[q], held[q]>>
      /\ ~ Inserting(p)' /\ ~ Got(p, "register", "created")'
  BY <1>1, <1>3 DEF TypeOK, Inserting
<1> QED
  BY <1>3, <1>5, <1>6, <1>7, ReadStep

\* DBError and Abandon.
LEMMA FaultKeeps ==
  ASSUME Inv, NEW p \in Procs, DBError(p) \/ Abandon(p)
  PROVE  Inv'
<1>1. TypeOK /\ ProcKnows(p)
  BY InvParts
<1>2. /\ call[p] # NULL /\ call[p].op \in {"register", "login"} /\ reply[p] = NULL
      /\ users' = users /\ held' = held /\ now' = now /\ call' = call
  BY <1>1 DEF DBError, Abandon, ProcKnows, RegisteringKnows, LoggingInKnows, Inserting
<1>3. /\ pc' = [pc EXCEPT ![p] = pc'[p]]
      /\ pc'[p] = "idle" \/ (pc[p] = "Insert" /\ pc'[p] = "LostInsert")
      /\ reply' = [reply EXCEPT ![p] = reply'[p]]
      /\ reply'[p] \in {NULL, Answered("INTERNAL_ERROR", NULL)}
  <2>1. CASE DBError(p)
    <3>1. /\ pc' = [pc EXCEPT ![p] = "idle"]
          /\ reply' = [reply EXCEPT ![p] = Answered("INTERNAL_ERROR", NULL)]
      BY <2>1 DEF DBError, Answer, Goto
    <3>2. pc'[p] = "idle" /\ reply'[p] = Answered("INTERNAL_ERROR", NULL)
      BY <1>1, <3>1 DEF TypeOK
    <3> QED
      BY <3>1, <3>2
  <2>2. CASE Abandon(p)
    <3>1. reply' = reply /\ reply' = [reply EXCEPT ![p] = reply'[p]]
      BY <1>1, <2>2 DEF Abandon, TypeOK
    <3>2. /\ pc' = [pc EXCEPT ![p] = pc'[p]]
          /\ pc'[p] = "idle" \/ (pc[p] = "Insert" /\ pc'[p] = "LostInsert")
      <4>1. PICK step \in {"idle", "LostInsert"} :
              /\ pc' = [pc EXCEPT ![p] = step]
              /\ step = "LostInsert" => pc[p] = "Insert"
        BY <2>2 DEF Abandon, Goto
      <4>2. pc'[p] = step
        BY <1>1, <4>1 DEF TypeOK
      <4> QED
        BY <4>1, <4>2
    <3> QED
      BY <1>2, <3>1, <3>2
  <2> QED
    BY <2>1, <2>2
<1>4. /\ reply'[p] \in Reply \cup {NULL}
      /\ reply'[p] # NULL => /\ reply'[p].actor = NULL
                             /\ reply'[p].code = "INTERNAL_ERROR"
  BY <1>3 DEF Answered, Reply, Codes
<1>5. TypeOK'
  BY <1>1, <1>2, <1>3, <1>4 DEF TypeOK
<1>6. ProcKnows(p)'
  <2>1. TokenNames(p)' /\ CreatedKnows(p)' /\ CanLogin(p)' /\ PasswordNeeded(p)'
    BY <1>1, <1>2, <1>4 DEF TokenNames, ProcKnows, CreatedKnows, CanLogin,
       PasswordNeeded
  <2>2. AcknowledgedStands(p)' /\ LoggingInKnows(p)'
    BY <1>1, <1>2, <1>3 DEF AcknowledgedStands, LoggingInKnows, ProcKnows
  <2>3. RegisteringKnows(p)'
    <3>1. CASE pc'[p] = "idle"
      BY <3>1 DEF RegisteringKnows, Inserting
    <3>2. CASE pc[p] = "Insert" /\ pc'[p] = "LostInsert"
      <4>1. reply'[p] = NULL
        BY <1>1, <1>2, <3>2 DEF DBError, Abandon, Answer, Goto, TypeOK
      <4> QED
        BY <1>1, <1>2, <3>2, <4>1 DEF RegisteringKnows, Inserting, ProcKnows,
           ValidCredentials
    <3> QED
      BY <1>3, <3>1, <3>2
  <2> QED
    BY <2>1, <2>2, <2>3 DEF ProcKnows
<1>7. \A q \in Procs \ {p} : UNCHANGED <<pc[q], call[q], reply[q], held[q]>>
  BY <1>1, <1>2, <1>3 DEF TypeOK
<1>8. ~ Got(p, "register", "created")'
  BY <1>4
<1>9. Inserting(p)' => \A q \in Procs \ {p} :
                         Inserting(q) => call[q].id # call'[p].id
  BY <1>2, <1>3, InvParts DEF Inserting, IdsDiffer
<1> QED
  BY <1>2, <1>5, <1>6, <1>7, <1>8, <1>9, ReadStep

LEMMA TickKeeps ==
  ASSUME Inv, Tick \/ UNCHANGED vars
  PROVE  Inv'
<1> USE DEF Tick, vars
<1>1. TypeOK'
  BY InvParts DEF TypeOK
<1>2. TableKnows' /\ IdsDiffer'
  BY InvParts DEF TableKnows, UniqueEmails, StoredNormal, SeedsStand, IdsDiffer,
     Inserting
<1>3. ASSUME NEW q \in Procs PROVE ProcKnows(q)'
  <2>1. ProcKnows(q) /\ UsersKept
    BY InvParts DEF UsersKept
  <2> QED
    BY <2>1, OthersKept DEF ProcKnows, RegisteringKnows
<1> QED
  BY <1>1, <1>2, <1>3, NextParts

-----------------------------------------------------------------------------
(***************************************************************************)
(* The invariant: accounts are one per stored address, and what goroutines *)
(* know between their statements stays true.                               *)
(***************************************************************************)
THEOREM Invariance == Spec => []Inv
<1>1. ASSUME Inv, [Next]_vars PROVE Inv'
  <2>1. CASE Tick \/ UNCHANGED vars
    BY <1>1, <2>1, TickKeeps
  <2>2. ASSUME NEW p \in Procs, Serve(p) PROVE Inv'
    BY <1>1, <2>2, RegisterKeeps, InsertKeeps, LoginKeeps, GetByEmailKeeps,
       DummyLoginKeeps, RequestKeeps, FaultKeeps DEF Serve
  <2> QED
    BY <1>1, <2>1, <2>2 DEF Next
<1> QED
  BY <1>1, InitInv, PTL DEF Spec

(***************************************************************************)
(* One account per mailbox, in whatever spelling and whichever requests    *)
(* race: the stored addresses are normal, and the normal ones differ.      *)
(***************************************************************************)
THEOREM OneUserPerMailboxAlways == Spec => []OneUserPerMailbox
<1>1. Inv => OneUserPerMailbox
  BY DEF Inv, UniqueEmails, StoredNormal, OneUserPerMailbox
<1> QED
  BY <1>1, Invariance, PTL

(***************************************************************************)
(* A registration answered 201 is the only one of its mailbox and its      *)
(* account stays as it was asked for.                                      *)
(***************************************************************************)
THEOREM RegistrationHoldsAlways == Spec => []RegistrationHolds
<1>1. ASSUME Inv PROVE RegistrationHolds
  <2>1. ASSUME NEW p \in Procs, Got(p, "register", "created")
        PROVE  /\ call[p].id \in DOMAIN users
               /\ users[call[p].id].email = Normal[call[p].email]
               /\ users[call[p].id].role = call[p].role
               /\ users[call[p].id].digest = Digest[call[p].password]
    <3>1. CreatedKnows(p)
      BY <1>1 DEF Inv
    <3>2. call[p].id \in DOMAIN users /\ users[call[p].id] = NewRow(call[p])
      BY <2>1, <3>1 DEF CreatedKnows
    <3> QED
      BY <3>2 DEF NewRow
  <2>2. ASSUME NEW p \in Procs, NEW q \in Procs \ {p},
               Got(p, "register", "created"), Got(q, "register", "created")
        PROVE  Normal[call[p].email] # Normal[call[q].email]
    <3>1. /\ users[call[p].id].email = Normal[call[p].email]
          /\ users[call[q].id].email = Normal[call[q].email]
          /\ call[p].id \in DOMAIN users /\ call[q].id \in DOMAIN users
      BY <2>1, <2>2
    <3>2. call[p].id # call[q].id
      BY <1>1, <2>2 DEF Inv, IdsDiffer
    <3> QED
      BY <1>1, <3>1, <3>2 DEF Inv, UniqueEmails
  <2> QED
    BY <2>1, <2>2 DEF RegistrationHolds
<1> QED
  BY <1>1, Invariance, PTL

(***************************************************************************)
(* Whoever was told 201 can log in with that password, in any spelling.    *)
(***************************************************************************)
THEOREM RegisteredCanLoginAlways == Spec => []RegisteredCanLogin
<1>1. Inv => RegisteredCanLogin
  BY DEF Inv
<1> QED
  BY <1>1, Invariance, PTL

(***************************************************************************)
(* Tokens and the actors made of them name rows of users with their role:  *)
(* the assumption on which the other services are specified.               *)
(***************************************************************************)
THEOREM TokensNameUsersAlways == Spec => []TokensNameUsers
<1>1. Inv => TokensNameUsers
  BY DEF Inv
<1> QED
  BY <1>1, Invariance, PTL

(***************************************************************************)
(* A login is answered with a token only for the password of the row, and  *)
(* never for a seed row.                                                   *)
(***************************************************************************)
THEOREM LoginNeedsPasswordAlways == Spec => []LoginNeedsPassword
<1>1. Inv => LoginNeedsPassword
  BY DEF Inv
<1> QED
  BY <1>1, Invariance, PTL

(***************************************************************************)
(* No step of any request changes or removes an account.                   *)
(***************************************************************************)
THEOREM UsersStayAlways == Spec => UsersStay
<1>1. ASSUME Inv, [Next]_vars
      PROVE  [UsersKept]_vars
  <2>1. CASE users' = users
    BY <2>1 DEF UsersKept
  <2>2. ASSUME NEW p \in Procs, UserInserted(p), Inserting(p) PROVE UsersKept
    BY <1>1, <2>2, InsertedRow
  <2> QED
    BY <1>1, <2>1, <2>2
       DEF Next, vars, Serve, Tick, Register, Insert, InsertUnacknowledged,
           LostInsert, Login, GetByEmail, DummyLogin, Request, DBError, Abandon,
           Inserting
<1> QED
  BY <1>1, Invariance, PTL DEF Spec, UsersStay, UsersKept

=============================================================================
