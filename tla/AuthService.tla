------------------------------- MODULE AuthService -------------------------------
(***************************************************************************)
(* AuthService with its handlers, and the Auth middleware that turns a     *)
(* token back into an actor: registration, login, dummy login, and the     *)
(* admission of a protected request.  One action per statement sent to     *)
(* the database and the faults of BookingService: a failing statement, a   *)
(* lost acknowledgement, an abandoned request whose insert still runs.     *)
(*                                                                         *)
(* E-mail addresses are spellings; Normal gives the one normalizeEmail     *)
(* makes of each (trimmed, in lower case).  Of a password bcrypt sees      *)
(* Digest, the salt left out; it refuses to hash one of TooLong.           *)
(***************************************************************************)
EXTENDS Integers, FiniteSets

CONSTANTS Procs,        \* goroutines serving requests
          UserIDs,      \* the uuids uuid.New() draws for users
          AdminSeed, UserSeed,    \* the fixed ids adminUserID, normalUserID
          Spellings,    \* e-mail addresses as clients write them
          SeedEmail,    \* of the two seed rows: seed id -> spelling
          Normal,       \* spelling -> spelling
          Malformed,    \* the spellings mail.ParseAddress refuses
          Passwords,
          Blank, TooLong,   \* passwords of spaces, and of over 72 bytes
          Credentials,      \* the addresses with passwords clients send
          RoleParams,       \* the roles they ask for, known or not
          Digests, Digest,  \* what bcrypt makes of a password
          TTL,          \* life of a token, 24 hours in the program
          MaxTime,      \* bound: the clock stops here
          NULL

Roles == {"admin", "user"}
Seeds == {AdminSeed, UserSeed}
IDs == UserIDs \cup Seeds

ASSUME AuthAssumption ==
  /\ AdminSeed # UserSeed /\ Seeds \cap UserIDs = {}
  /\ Normal \in [Spellings -> Spellings]
  /\ \A e \in Spellings : Normal[Normal[e]] = Normal[e]
  /\ SeedEmail \in [Seeds -> Spellings]
  /\ SeedEmail[AdminSeed] # SeedEmail[UserSeed]
  /\ \A seed \in Seeds : Normal[SeedEmail[seed]] = SeedEmail[seed]
  /\ Digest \in [Passwords -> Digests]
  /\ Credentials \subseteq [email : Spellings, password : Passwords]
  /\ TTL \in Nat \ {0} /\ MaxTime \in Nat

VARIABLES now,     \* the wall clock
          users,   \* table users: id -> email, role, password_hash
          held,    \* the token the client of each goroutine keeps
          pc, call, reply

vars == <<now, users, held, pc, call, reply>>

Row == [email : Spellings, role : Roles, digest : Digests \cup {NULL}]

Token == [user : IDs, role : Roles, exp : Nat]

\* Account: what a client knows of a registration that was acknowledged.
Account == [email : Spellings, password : Passwords]

Call ==
  [op : {"register"}, id : UserIDs, email : Spellings, password : Passwords,
   role : RoleParams]
  \cup [op : {"login"}, email : Spellings, password : Passwords,
        acknowledged : SUBSET Account]
  \cup [op : {"dummyLogin"}, role : RoleParams]
  \cup [op : {"request"}, token : Token]

\* What a call comes to.  EMAIL_TAKEN is domain.ErrEmailTaken, which the handler
\* answers with 400, INVALID_REQUEST and a message of its own.
Codes == {"created", "ok", "INVALID_REQUEST", "EMAIL_TAKEN", "UNAUTHORIZED",
          "INTERNAL_ERROR"}

\* The token, or the actor a protected handler is called with.
Reply == [code : Codes, actor : [user : IDs, role : Roles] \cup {NULL}]

ASSUME NullAssumption ==
  /\ NULL \notin Digests /\ NULL \notin Call /\ NULL \notin Reply
  /\ NULL \notin [user : IDs, role : Roles] /\ NULL \notin Token

TypeOK ==
  /\ now \in Nat
  /\ DOMAIN users \in SUBSET IDs /\ users \in [DOMAIN users -> Row]
  /\ held \in [Procs -> Token \cup {NULL}]
  /\ pc \in [Procs -> {"idle", "Insert", "LostInsert", "GetByEmail"}]
  /\ call \in [Procs -> Call \cup {NULL}]
  /\ reply \in [Procs -> Reply \cup {NULL}]

SeedRow(seed) ==
  [email |-> SeedEmail[seed],
   role |-> IF seed = AdminSeed THEN "admin" ELSE "user", digest |-> NULL]

\* Requests are served only after 003_seed_dummy_data.sql has been applied.
Init ==
  /\ now = 0
  /\ users = [seed \in Seeds |-> SeedRow(seed)]
  /\ held = [p \in Procs |-> NULL]
  /\ pc = [p \in Procs |-> "idle"]
  /\ call = [p \in Procs |-> NULL]
  /\ reply = [p \in Procs |-> NULL]

-----------------------------------------------------------------------------
Goto(p, step) == pc' = [pc EXCEPT ![p] = step]

Answered(code, actor) == [code |-> code, actor |-> actor]

Answer(p, code) ==
  Goto(p, "idle") /\ reply' = [reply EXCEPT ![p] = Answered(code, NULL)]

Got(p, op, code) == reply[p] # NULL /\ reply[p].code = code /\ call[p].op = op

Receive(p, c) == pc[p] = "idle" /\ call' = [call EXCEPT ![p] = c]

Accept(p, step) == Goto(p, step) /\ reply' = [reply EXCEPT ![p] = NULL]

\* JWTManager.Generate, and the answer that carries the token.
Grant(p, user, role) ==
  /\ held' = [held EXCEPT ![p] =
                [user |-> user, role |-> role, exp |-> now + TTL]]
  /\ Goto(p, "idle")
  /\ reply' = [reply EXCEPT ![p] =
                 Answered("ok", [user |-> user, role |-> role])]

\* Faulty variant: neither trimmed nor in lower case.
NormalizeNothing(email) == email

NormalizeEmail(email) == Normal[email]

\* validateCredentials, after normalizeEmail.
ValidCredentials(email, password) ==
  NormalizeEmail(email) \notin Malformed /\ password \notin Blank

\* RoleIDByCode(role) # 0
KnownRole(role) == role \in Roles

\* uuid.New()
FreshID(id) ==
  /\ id \notin DOMAIN users
  /\ \A p \in Procs : pc[p] \in {"Insert", "LostInsert"} => call[p].id # id

\* PostRegister and AuthService.Register up to the insert.
Register(p, id, email, password, role) ==
  /\ FreshID(id)
  /\ Receive(p, [op |-> "register", id |-> id, email |-> email,
                 password |-> password, role |-> role])
  /\ \/ /\ ~ ValidCredentials(email, password) \/ ~ KnownRole(role)
        /\ Answer(p, "INVALID_REQUEST")
     \/ /\ ValidCredentials(email, password) /\ KnownRole(role)
        /\ IF password \in TooLong THEN Answer(p, "INTERNAL_ERROR")
                                   ELSE Accept(p, "Insert")
  /\ UNCHANGED <<now, users, held>>

NewRow(c) == [email |-> NormalizeEmail(c.email), role |-> c.role,
              digest |-> Digest[c.password]]

WithRow(id, row) ==
  [i \in DOMAIN users \cup {id} |-> IF i = id THEN row ELSE users[i]]

EmailTaken(email) == \E id \in DOMAIN users : users[id].email = email

\* Faulty variant: on conflict (email) do update set password_hash, role_id.
UserUpserted(p) ==
  LET row == NewRow(call[p])
      same == { id \in DOMAIN users : users[id].email = row.email }
  IN  users' = IF same = {} THEN WithRow(call[p].id, row)
               ELSE [i \in DOMAIN users |-> IF i \in same THEN row ELSE users[i]]

\* insert into users commits: users.email is unique.
UserInserted(p) ==
  /\ call[p].id \notin DOMAIN users
  /\ ~ EmailTaken(NewRow(call[p]).email)
  /\ users' = WithRow(call[p].id, NewRow(call[p]))

\* UserRepository.Create
Insert(p) ==
  /\ pc[p] = "Insert"
  /\ \/ UserInserted(p) /\ Answer(p, "created")
     \/ /\ EmailTaken(NewRow(call[p]).email)
        /\ Answer(p, "EMAIL_TAKEN")
        /\ UNCHANGED users
  /\ UNCHANGED <<now, held, call>>

InsertUnacknowledged(p) ==
  /\ pc[p] = "Insert"
  /\ UserInserted(p)
  /\ Answer(p, "INTERNAL_ERROR")
  /\ UNCHANGED <<now, held, call>>

LostInsert(p) ==
  /\ pc[p] = "LostInsert"
  /\ UserInserted(p) \/ UNCHANGED users
  /\ Goto(p, "idle")
  /\ UNCHANGED <<now, held, call, reply>>

-----------------------------------------------------------------------------
\* The registrations whose clients have their 201 by now.
Acknowledged ==
  { [email |-> NormalizeEmail(call[q].email), password |-> call[q].password] :
      q \in { r \in Procs : Got(r, "register", "created") } }

\* PostLogin and AuthService.Login up to the lookup.
Login(p, email, password) ==
  /\ Receive(p, [op |-> "login", email |-> email, password |-> password,
                 acknowledged |-> Acknowledged])
  /\ IF ValidCredentials(email, password) THEN Accept(p, "GetByEmail")
                                          ELSE Answer(p, "UNAUTHORIZED")
  /\ UNCHANGED <<now, users, held>>

\* Faulty variant: the password is not compared.
SameEmail(email, password) ==
  { id \in DOMAIN users : users[id].email = NormalizeEmail(email) }

\* The user with this e-mail, a stored hash, and this password.
Authenticated(email, password) ==
  { id \in DOMAIN users : /\ users[id].email = NormalizeEmail(email)
                          /\ users[id].digest = Digest[password] }

\* UserRepository.GetByEmail, CheckPassword and the token.
GetByEmail(p) ==
  LET found == Authenticated(call[p].email, call[p].password)
  IN  /\ pc[p] = "GetByEmail"
      /\ \/ found = {} /\ Answer(p, "UNAUTHORIZED") /\ UNCHANGED held
         \/ \E id \in found : Grant(p, id, users[id].role)
      /\ UNCHANGED <<now, users, call>>

\* Faulty variant: the two fixed ids are swapped.
SeedOther(role) == IF role = "admin" THEN UserSeed ELSE AdminSeed

SeedOf(role) == IF role = "admin" THEN AdminSeed ELSE UserSeed

\* PostDummyLogin: no statement is sent.
DummyLogin(p, role) ==
  /\ Receive(p, [op |-> "dummyLogin", role |-> role])
  /\ \/ role \in Roles /\ Grant(p, SeedOf(role), role)
     \/ role \notin Roles /\ Answer(p, "INVALID_REQUEST") /\ UNCHANGED held
  /\ UNCHANGED <<now, users>>

\* The Auth middleware and actorFromContext, for a token that was issued.
Request(p, token) ==
  /\ Receive(p, [op |-> "request", token |-> token])
  /\ Goto(p, "idle")
  /\ reply' = [reply EXCEPT ![p] =
       IF now < token.exp
         THEN Answered("ok", [user |-> token.user, role |-> token.role])
         ELSE Answered("UNAUTHORIZED", NULL)]
  /\ UNCHANGED <<now, users, held>>

-----------------------------------------------------------------------------
DBError(p) ==
  /\ pc[p] \in {"Insert", "GetByEmail"}
  /\ Answer(p, "INTERNAL_ERROR")
  /\ UNCHANGED <<now, users, held, call>>

Abandon(p) ==
  /\ pc[p] \in {"Insert", "GetByEmail"}
  /\ \/ Goto(p, "idle")
     \/ pc[p] = "Insert" /\ Goto(p, "LostInsert")
  /\ UNCHANGED <<now, users, held, call, reply>>

Tick ==
  /\ now < MaxTime
  /\ now' = now + 1
  /\ UNCHANGED <<users, held, pc, call, reply>>

Serve(p) ==
  \/ \E id \in UserIDs, c \in Credentials, role \in RoleParams :
       Register(p, id, c.email, c.password, role)
  \/ Insert(p)
  \/ InsertUnacknowledged(p)
  \/ LostInsert(p)
  \/ \E c \in Credentials : Login(p, c.email, c.password)
  \/ GetByEmail(p)
  \/ \E role \in RoleParams : DummyLogin(p, role)
  \/ \E q \in Procs : held[q] # NULL /\ Request(p, held[q])
  \/ DBError(p)
  \/ Abandon(p)

Next == Tick \/ \E p \in Procs : Serve(p)

Spec == Init /\ [][Next]_vars

-----------------------------------------------------------------------------
(***************************************************************************)
(* One account per mailbox however its address is spelled, although the    *)
(* unique constraint compares the stored text and requests race.           *)
(***************************************************************************)
OneUserPerMailbox ==
  \A a, b \in DOMAIN users :
    Normal[users[a].email] = Normal[users[b].email] => a = b

(***************************************************************************)
(* Of the registrations of one mailbox at most one is answered 201, and    *)
(* that answer stays true: the row holds the password and the role asked   *)
(* for, whatever later registrations of the same address do.               *)
(***************************************************************************)
RegistrationHolds ==
  \A p \in Procs :
    Got(p, "register", "created") =>
      /\ call[p].id \in DOMAIN users
      /\ users[call[p].id].role = call[p].role
      /\ users[call[p].id].digest = Digest[call[p].password]
      /\ \A q \in Procs \ {p} :
           Got(q, "register", "created") =>
             Normal[call[p].email] # Normal[call[q].email]

(***************************************************************************)
(* A client that was told 201 before it logs in with the same password is  *)
(* not told that its credentials are wrong, in whatever spelling it gives  *)
(* the address and whatever else was registered since.                     *)
(***************************************************************************)
RegisteredCanLogin ==
  \A p \in Procs :
    Got(p, "login", "UNAUTHORIZED") =>
      \A account \in call[p].acknowledged :
        ~ /\ account.email = Normal[call[p].email]
          /\ account.password = call[p].password

(***************************************************************************)
(* Every token, and so every actor a protected handler is called with, is  *)
(* a row of users and carries its role, also a day after the login; this   *)
(* is what the other services take for granted of userID and role, and     *)
(* what the foreign key of bookings.user_id needs.                         *)
(***************************************************************************)
TokensNameUsers ==
  \A p \in Procs :
    /\ held[p] # NULL =>
         /\ held[p].user \in DOMAIN users
         /\ users[held[p].user].role = held[p].role
    /\ reply[p] # NULL /\ reply[p].actor # NULL =>
         /\ reply[p].actor.user \in DOMAIN users
         /\ users[reply[p].actor.user].role = reply[p].actor.role

(***************************************************************************)
(* A login is answered with a token only for the password the row holds;   *)
(* the seed rows, which hold none, are reached by dummyLogin alone.        *)
(***************************************************************************)
LoginNeedsPassword ==
  \A p \in Procs :
    Got(p, "login", "ok") =>
      /\ reply[p].actor # NULL
      /\ reply[p].actor.user \notin Seeds
      /\ users[reply[p].actor.user].digest = Digest[call[p].password]

(***************************************************************************)
(* No registration, retried, lost or raced, changes an account that is     *)
(* there: tokens and bookings refer to it by id, and the role in a token   *)
(* is never looked up again.                                               *)
(***************************************************************************)
UsersStay ==
  [][\A id \in DOMAIN users :
       id \in DOMAIN users' /\ users'[id] = users[id]]_vars

-----------------------------------------------------------------------------
(***************************************************************************)
(* The inductive invariant: stored addresses are normal and differ, and    *)
(* what a goroutine knows while its insert is under way.                   *)
(***************************************************************************)
UniqueEmails ==
  \A a, b \in DOMAIN users : users[a].email = users[b].email => a = b

StoredNormal == \A id \in DOMAIN users : Normal[users[id].email] = users[id].email

SeedsStand == \A seed \in Seeds : /\ seed \in DOMAIN users
                                  /\ users[seed] = SeedRow(seed)

Inserting(p) == pc[p] \in {"Insert", "LostInsert"}

\* Ids are drawn once, so a 201 names a row of its own.
IdsDiffer ==
  \A p, q \in Procs :
    p # q =>
      /\ Inserting(p) /\ Inserting(q) => call[p].id # call[q].id
      /\ Got(p, "register", "created") /\ Got(q, "register", "created") =>
           call[p].id # call[q].id

RegisteringKnows(p) ==
  Inserting(p) =>
    /\ call[p] # NULL /\ call[p].op = "register"
    /\ call[p].role \in Roles
    /\ call[p].id \notin DOMAIN users
    /\ ValidCredentials(call[p].email, call[p].password)
    /\ reply[p] = NULL

LoggingInKnows(p) ==
  pc[p] = "GetByEmail" =>
    /\ call[p] # NULL /\ call[p].op = "login" /\ reply[p] = NULL
    /\ ValidCredentials(call[p].email, call[p].password)

CreatedKnows(p) ==
  /\ reply[p] # NULL => call[p] # NULL
  /\ Got(p, "register", "created") =>
       /\ call[p].id \in DOMAIN users /\ users[call[p].id] = NewRow(call[p])
       /\ ValidCredentials(call[p].email, call[p].password)

\* What was acknowledged when a login arrived is in the table.
AcknowledgedStands(p) ==
  call[p] # NULL /\ call[p].op = "login" =>
    \A account \in call[p].acknowledged :
      /\ account.email \notin Malformed /\ account.password \notin Blank
      /\ \E id \in DOMAIN users : /\ users[id].email = account.email
                                  /\ users[id].digest = Digest[account.password]

Inv ==
  /\ TypeOK
  /\ UniqueEmails /\ StoredNormal /\ SeedsStand
  /\ IdsDiffer
  /\ \A p \in Procs : /\ RegisteringKnows(p)
                      /\ LoggingInKnows(p)
                      /\ CreatedKnows(p)
                      /\ AcknowledgedStands(p)
  /\ RegisteredCanLogin
  /\ TokensNameUsers
  /\ LoginNeedsPassword

=============================================================================
