------------------------------ MODULE ServerProofs ------------------------------
(***************************************************************************)
(* The lifecycle of the server, for any number of client connections, any  *)
(* size of the pool and any number of statements.  The invariant follows   *)
(* main: what is open and who is served in each of its phases.             *)
(***************************************************************************)
EXTENDS ServerLifecycle, HttpLayer, SequenceTheorems, TLAPS

\* A request that waits for a connection, or has one, has a statement to send.
StatementToSend ==
  \A c \in Clients : state[c] \in {"wait", "query"} => sent[c] < MaxStatements

\* Nobody is served before the listener listens, and it does while main waits.
ServedOnceListening ==
  /\ main \in Starting =>
       /\ listener = "unstarted"
       /\ \A c \in Clients : state[c] = "none"
  /\ listener = "listening" => main = "wait"
  /\ main \in {"migrate", "wire", "wait", "shutdown", "close"} => poolOpen

\* What Shutdown waited for still holds when the pool is closed.
NobodyAfterGrace ==
  main \in {"close", "closing"} /\ ~ expired =>
    \A c \in Clients : state[c] \in {"none", "closed"}

\* Until the process ends no request is aborted, or refused before the ten
\* seconds are over; after that none runs.
EndsOnce ==
  /\ main # "exited" =>
       \A c \in Clients :
         /\ result[c] # "aborted"
         /\ result[c] \in {"refused", "cut"} => expired
  /\ main = "exited" => \A c \in Clients : state[c] \in {"none", "closed"}

Inv ==
  /\ TypeOK
  /\ StatementToSend
  /\ ServedOnceListening
  /\ NobodyAfterGrace
  /\ EndsOnce
  /\ GraceProtectsRequests
  /\ OrderlyExitAbortsNothing

-----------------------------------------------------------------------------
\* The queue of the pool: a request joins at its end, is served at its head,
\* or leaves from where it stands.
LEMMA Joined ==
  ASSUME NEW S, NEW q \in Seq(S), IsInjective(q), NEW c \in S, c \notin ToSet(q)
  PROVE  /\ Append(q, c) \in Seq(S) /\ IsInjective(Append(q, c))
         /\ ToSet(Append(q, c)) = ToSet(q) \cup {c}
<1> DEFINE a == Append(q, c)
<1>1. /\ a \in Seq(S) /\ Len(a) = Len(q) + 1
      /\ \A i \in 1 .. Len(q) : a[i] = q[i]
      /\ a[Len(q) + 1] = c
  BY AppendProperties
<1>2. /\ Len(q) \in Nat
      /\ DOMAIN q = 1 .. Len(q) /\ DOMAIN a = 1 .. Len(q) + 1
  BY <1>1, LenProperties
<1> HIDE DEF a
<1>3. \A i \in 1 .. Len(q) : a[i] # c
  BY <1>1, <1>2 DEF ToSet
<1>4. IsInjective(a)
  BY <1>1, <1>2, <1>3 DEF IsInjective
<1>5. ToSet(a) = ToSet(q) \cup {c}
  BY <1>1, <1>2 DEF ToSet
<1> QED  BY <1>1, <1>4, <1>5 DEF a

LEMMA Served ==
  ASSUME NEW S, NEW q \in Seq(S), IsInjective(q), q # <<>>
  PROVE  /\ Tail(q) \in Seq(S) /\ IsInjective(Tail(q))
         /\ ToSet(Tail(q)) = ToSet(q) \ {Head(q)}
<1> DEFINE t == Tail(q)
<1>1. /\ t \in Seq(S) /\ Len(t) = Len(q) - 1
      /\ \A i \in 1 .. Len(t) : t[i] = q[i + 1]
  BY HeadTailProperties
<1>2. /\ Len(q) \in Nat \ {0}
      /\ DOMAIN q = 1 .. Len(q) /\ DOMAIN t = 1 .. Len(q) - 1
  BY <1>1, LenProperties, EmptySeq
<1>3. Head(q) = q[1]
  OBVIOUS
<1> HIDE DEF t
<1>4. IsInjective(t)
  BY <1>1, <1>2 DEF IsInjective
<1>5. ASSUME NEW e \in ToSet(t)  PROVE  e \in ToSet(q) \ {q[1]}
  <2>1. PICK i \in 1 .. Len(q) - 1 : e = q[i + 1]
    BY <1>1, <1>2, <1>5 DEF ToSet
  <2> QED  BY <2>1, <1>2 DEF ToSet, IsInjective
<1>6. ASSUME NEW e \in ToSet(q), e # q[1]  PROVE  e \in ToSet(t)
  <2>1. PICK i \in 1 .. Len(q) : e = q[i]
    BY <1>2, <1>6 DEF ToSet
  <2>2. i - 1 \in 1 .. Len(q) - 1 /\ t[i - 1] = e
    BY <2>1, <1>1, <1>2, <1>6
  <2> QED  BY <2>2, <1>2 DEF ToSet
<1> QED  BY <1>1, <1>3, <1>4, <1>5, <1>6 DEF t

LEMMA Left ==
  ASSUME NEW S, NEW q \in Seq(S), IsInjective(q), NEW i \in DOMAIN q
  PROVE  /\ RemoveAt(q, i) \in Seq(S) /\ IsInjective(RemoveAt(q, i))
         /\ ToSet(RemoveAt(q, i)) = ToSet(q) \ {q[i]}
<1> DEFINE l == SubSeq(q, 1, i - 1)
           r == SubSeq(q, i + 1, Len(q))
           a == RemoveAt(q, i)
<1>1. Len(q) \in Nat /\ DOMAIN q = 1 .. Len(q) /\ \A j \in DOMAIN q : q[j] \in S
  BY LenProperties
<1>2. /\ l \in Seq(S) /\ Len(l) = i - 1
      /\ \A j \in 1 .. i - 1 : l[j] = q[j]
  <2>1. \A j \in 1 .. i - 1 : q[j] \in S
    BY <1>1
  <2>2. /\ l \in Seq(S)
        /\ Len(l) = IF 1 <= i - 1 THEN (i - 1) - 1 + 1 ELSE 0
        /\ \A j \in 1 .. (i - 1) - 1 + 1 : l[j] = q[1 + j - 1]
    BY <1>1, <2>1, SubSeqProperties
  <2> HIDE DEF l
  <2> QED  BY <2>2, <1>1
<1>3. /\ r \in Seq(S) /\ Len(r) = Len(q) - i
      /\ \A j \in 1 .. Len(q) - i : r[j] = q[i + j]
  <2>1. \A j \in i + 1 .. Len(q) : q[j] \in S
    BY <1>1
  <2>2. /\ r \in Seq(S)
        /\ Len(r) = IF i + 1 <= Len(q) THEN Len(q) - (i + 1) + 1 ELSE 0
        /\ \A j \in 1 .. Len(q) - (i + 1) + 1 : r[j] = q[(i + 1) + j - 1]
    BY <1>1, <2>1, SubSeqProperties
  <2> HIDE DEF r
  <2>3. Len(r) = Len(q) - i
    BY <2>2, <1>1
  <2>4. ASSUME NEW j \in 1 .. Len(q) - i  PROVE  r[j] = q[i + j]
    <3>1. r[j] = q[(i + 1) + j - 1] /\ (i + 1) + j - 1 = i + j
      BY <2>2, <1>1
    <3> QED  BY <3>1
  <2> QED  BY <2>2, <2>3, <2>4
<1>4. /\ a \in Seq(S) /\ Len(a) = Len(q) - 1 /\ DOMAIN a = 1 .. Len(q) - 1
      /\ \A j \in 1 .. Len(q) - 1 : a[j] = IF j < i THEN q[j] ELSE q[j + 1]
  <2>1. a = l \o r
    BY DEF RemoveAt
  <2> HIDE DEF a, l, r
  <2>2. /\ a \in Seq(S) /\ Len(a) = Len(l) + Len(r)
        /\ \A j \in 1 .. Len(l) + Len(r) :
             a[j] = IF j <= Len(l) THEN l[j] ELSE r[j - Len(l)]
    BY <1>2, <1>3, <2>1, ConcatProperties
  <2>3. Len(a) = Len(q) - 1 /\ DOMAIN a = 1 .. Len(q) - 1
    BY <1>1, <1>2, <1>3, <2>2, LenProperties
  <2>4. ASSUME NEW j \in 1 .. Len(q) - 1
        PROVE  a[j] = IF j < i THEN q[j] ELSE q[j + 1]
    <3>1. CASE j < i
      BY <1>1, <1>2, <1>3, <2>2, <3>1
    <3>2. CASE ~ (j < i)
      <4>1. a[j] = r[j - (i - 1)] /\ j - (i - 1) \in 1 .. Len(q) - i
        BY <1>1, <1>2, <1>3, <2>2, <3>2
      <4>2. r[j - (i - 1)] = q[i + (j - (i - 1))] /\ i + (j - (i - 1)) = j + 1
        BY <1>1, <1>3, <4>1
      <4> QED  BY <3>2, <4>1, <4>2
    <3> QED  BY <3>1, <3>2
  <2> QED  BY <2>2, <2>3, <2>4
<1> HIDE DEF a, l, r
<1>5. IsInjective(a)
  <2> SUFFICES ASSUME NEW j \in 1 .. Len(q) - 1, NEW k \in 1 .. Len(q) - 1,
                      a[j] = a[k]
               PROVE  j = k
    BY <1>4 DEF IsInjective
  <2> DEFINE Was(n) == IF n < i THEN n ELSE n + 1
  <2>1. /\ a[j] = q[Was(j)] /\ Was(j) \in DOMAIN q
        /\ a[k] = q[Was(k)] /\ Was(k) \in DOMAIN q
    BY <1>1, <1>4
  <2>2. Was(j) = Was(k)
    BY <2>1 DEF IsInjective
  <2> QED  BY <1>1, <2>2
<1>6. ASSUME NEW e \in ToSet(a)  PROVE  e \in ToSet(q) \ {q[i]}
  <2>1. PICK j \in 1 .. Len(q) - 1 : e = a[j]
    BY <1>4, <1>6 DEF ToSet
  <2> QED  BY <2>1, <1>1, <1>4 DEF ToSet, IsInjective
<1>7. ASSUME NEW e \in ToSet(q), e # q[i]  PROVE  e \in ToSet(a)
  <2>1. PICK j \in 1 .. Len(q) : e = q[j] /\ j # i
    BY <1>1, <1>7 DEF ToSet
  <2>2. CASE j < i
    BY <1>1, <1>4, <2>1, <2>2 DEF ToSet
  <2>3. CASE j > i
    <3>1. j - 1 \in 1 .. Len(q) - 1 /\ a[j - 1] = e
      BY <1>1, <1>4, <2>1, <2>3
    <3> QED  BY <1>4, <3>1 DEF ToSet
  <2> QED  BY <1>1, <2>1, <2>2, <2>3
<1> QED  BY <1>4, <1>5, <1>6, <1>7 DEF a

-----------------------------------------------------------------------------
ConnectionStates == {"none", "new", "body", "run", "wait", "query", "idle", "closed"}

\* One connection goes on, and main does not: the queue changes as its state
\* says, and only a closed pool refuses its request.
LEMMA Moved ==
  ASSUME Inv, Running, UNCHANGED <<process, poolOpen>>,
         NEW c \in Clients, NEW s \in ConnectionStates, NEW r,
         state[c] \in Open \/ listener = "listening",
         state' = [state EXCEPT ![c] = s],
         result' = [result EXCEPT ![c] = r],
         r \in {NULL, "answered", result[c]} \/ (r = "refused" /\ ~ poolOpen),
         sent' \in [Clients -> 0 .. MaxStatements],
         \A d \in Clients \ {c} : sent'[d] = sent[d],
         s \in {"wait", "query"} => sent'[c] < MaxStatements,
         queue' \in Seq(Clients), IsInjective(queue'),
         ToSet(queue') = IF s = "wait" THEN ToSet(queue) \cup {c}
                                       ELSE ToSet(queue) \ {c}
  PROVE  Inv'
<1> USE DEF Inv
<1>1. UNCHANGED <<env, main, code, signalled, listener, expired, poolOpen>>
  BY DEF process, startup
<1>2. state' \in [Clients -> ConnectionStates] /\ state'[c] = s
      /\ \A d \in Clients \ {c} : state'[d] = state[d]
  BY DEF TypeOK, ConnectionStates
<1>3. /\ result' \in [Clients -> {NULL, "answered", "refused", "cut", "aborted"}]
      /\ result'[c] = r
      /\ \A d \in Clients \ {c} : result'[d] = result[d]
  BY DEF TypeOK
<1>4. \A d \in Clients : state'[d] = "wait" <=> d \in ToSet(queue')
  BY <1>2 DEF TypeOK
<1>5. TypeOK'
  BY <1>1, <1>2, <1>3, <1>4 DEF TypeOK, ConnectionStates
<1>6. StatementToSend'
  BY <1>2 DEF StatementToSend
<1>7. main \notin Starting
  BY DEF ServedOnceListening, Starting, Open
<1>8. ServedOnceListening'
  BY <1>1, <1>7 DEF ServedOnceListening, Starting
<1>9. ~ (main \in {"close", "closing"} /\ ~ expired)
  BY DEF NobodyAfterGrace, ServedOnceListening, Open
<1>10. NobodyAfterGrace'
  BY <1>1, <1>9 DEF NobodyAfterGrace
<1>11. r # "aborted" /\ (r \in {"refused", "cut"} => expired)
  <2>1. CASE r \in {NULL, "answered"}
    BY <2>1, ServerAssumption
  <2>2. CASE r = result[c]
    BY <2>2 DEF EndsOnce, Running
  <2>3. CASE r = "refused" /\ ~ poolOpen
    BY <2>3, <1>7, <1>9 DEF ServedOnceListening, Running, TypeOK
  <2> QED  BY <2>1, <2>2, <2>3
<1>12. EndsOnce'
  BY <1>1, <1>3, <1>11 DEF EndsOnce, Running
<1>13. GraceProtectsRequests'
  BY <1>1, <1>3, <1>11 DEF GraceProtectsRequests
<1>14. OrderlyExitAbortsNothing'
  BY <1>1, <1>3, <1>11 DEF OrderlyExitAbortsNothing, EndsOnce, Running
<1> QED  BY <1>5, <1>6, <1>8, <1>10, <1>12, <1>13, <1>14

\* A connection goes on without the queue, and sends no statement.
LEMMA MovedApart ==
  ASSUME Inv, Running, UNCHANGED <<process, poolOpen, sent, queue>>,
         NEW c \in Clients, NEW s \in ConnectionStates, NEW r,
         state[c] \in Open \ {"wait"} \/ (listener = "listening" /\ state[c] = "none"),
         s \notin {"wait", "query"},
         state' = [state EXCEPT ![c] = s],
         result' = [result EXCEPT ![c] = r],
         r \in {NULL, "answered", result[c]} \/ (r = "refused" /\ ~ poolOpen)
  PROVE  Inv'
<1>1. /\ sent' \in [Clients -> 0 .. MaxStatements]
      /\ \A d \in Clients \ {c} : sent'[d] = sent[d]
      /\ queue' = queue /\ queue \in Seq(Clients) /\ IsInjective(queue)
      /\ c \notin ToSet(queue)
  BY DEF Inv, TypeOK
<1>2. ToSet(queue') = ToSet(queue) \ {c}
  BY <1>1
<1> QED  BY <1>1, <1>2, Moved, Zenon DEF Open

\* main goes on, and no connection does.
LEMMA MainMoved ==
  ASSUME Inv, UNCHANGED requests, TypeOK', ServedOnceListening',
         NobodyAfterGrace', code' = code, main # "exited", main' # "exited",
         expired => expired'
  PROVE  Inv'
BY DEF Inv, requests, StatementToSend, EndsOnce, GraceProtectsRequests,
       OrderlyExitAbortsNothing

\* The process ends: with a failure, or once no statement is under way.
LEMMA Ended ==
  ASSUME Inv, Running, NEW status \in {0, 1}, Exit(status),
         status = 0 => main = "closing" /\ Querying = {}
  PROVE  Inv'
<1> USE DEF Inv
<1>1. /\ main' = "exited" /\ code' = status /\ queue' = <<>> /\ poolOpen' = FALSE
      /\ listener' = "closed"
      /\ UNCHANGED <<env, signalled, expired, sent>>
      /\ state' = [c \in Clients |-> IF state[c] \in Open THEN "closed" ELSE state[c]]
      /\ result' = [c \in Clients |->
                      CASE state[c] = "query" -> "aborted"
                        [] state[c] \in {"body", "run", "wait"} -> "cut"
                        [] OTHER -> result[c]]
  BY DEF Exit
<1>2. \A c \in Clients : state'[c] \in {"none", "closed"}
  BY <1>1 DEF TypeOK, Open
<1>3. ASSUME NEW c \in Clients
      PROVE  /\ result'[c] \in {NULL, "answered", "refused", "cut", "aborted"}
             /\ status = 0 => result'[c] # "aborted"
             /\ result'[c] \in {"refused", "cut", "aborted"} => expired \/ status = 1
  <2>1. CASE state[c] = "query"
    BY <2>1, <1>1 DEF Querying
  <2>2. CASE state[c] \in {"body", "run", "wait"}
    <3>1. result'[c] = "cut"
      BY <2>2, <1>1
    <3> QED  BY <2>2, <3>1 DEF NobodyAfterGrace
  <2>3. CASE state[c] \notin {"query", "body", "run", "wait"}
    <3>1. result'[c] = result[c]
      BY <2>3, <1>1
    <3>2. result[c] # "aborted" /\ (result[c] \in {"refused", "cut"} => expired)
      BY DEF EndsOnce, Running
    <3> QED  BY <3>1, <3>2 DEF TypeOK, EndsOnce, Running
  <2> QED  BY <2>1, <2>2, <2>3
<1>4. <<>> \in Seq(Clients) /\ IsInjective(<<>>) /\ ToSet(<<>>) = {}
  BY EmptySeq DEF IsInjective, ToSet
<1>5. TypeOK'
  BY <1>1, <1>2, <1>3, <1>4 DEF TypeOK
<1>6. StatementToSend' /\ ServedOnceListening' /\ NobodyAfterGrace' /\ EndsOnce'
  BY <1>1, <1>2 DEF StatementToSend, ServedOnceListening, NobodyAfterGrace,
                    EndsOnce, Starting
<1>7. GraceProtectsRequests' /\ OrderlyExitAbortsNothing'
  BY <1>1, <1>3 DEF GraceProtectsRequests, OrderlyExitAbortsNothing
<1> QED  BY <1>5, <1>6, <1>7

-----------------------------------------------------------------------------
\* A step of main: the start, the stop, and what ends the process.
LEMMA MainKeeps ==
  ASSUME Inv, Main  PROVE Inv'
<1> USE DEF Inv
<1>1. CASE main = "load" /\ env # Required /\ Fatal
  BY <1>1, Ended DEF Fatal, Running
<1>2. CASE main = "connect" /\ Fatal
  BY <1>2, Ended DEF Fatal, Running
<1>3. CASE main = "migrate" /\ Fatal
  BY <1>3, Ended DEF Fatal, Running
<1>4. CASE main = "closing" /\ Querying = {} /\ Exit(0)
  BY <1>4, Ended DEF Running
<1>5. ASSUME main # "exited", main' # "exited", code' = code, expired => expired',
             UNCHANGED requests, env' = env, signalled' = signalled,
             main' \in Starting \cup {"wait", "shutdown", "close", "closing"},
             listener' \in {"unstarted", "starting", "listening", "closed"},
             expired' \in BOOLEAN, poolOpen' \in BOOLEAN
      PROVE  TypeOK'
  BY <1>5 DEF TypeOK, requests
<1>6. CASE \/ main = "load" /\ main' = "connect" /\ UNCHANGED poolOpen
           \/ main = "connect" /\ main' = "migrate" /\ poolOpen' = TRUE
           \/ main = "migrate" /\ main' = "wire" /\ UNCHANGED poolOpen
  <2>1. SUFFICES ASSUME UNCHANGED <<startup, listener, expired, requests>>
                 PROVE  Inv'
    BY <1>6, <1>1, <1>2, <1>3
       DEF Main, LoadConfig, NewPool, RunMigrations, StartServer, Shutdown, Expire,
           ShutdownReturns, CloseDB, Fatal, Exit
  <2>2. TypeOK'
    BY <2>1, <1>5, <1>6 DEF Starting, startup, TypeOK
  <2>3. ServedOnceListening' /\ NobodyAfterGrace'
    BY <2>1, <1>6 DEF ServedOnceListening, NobodyAfterGrace, Starting, requests
  <2> QED  BY <2>1, <2>2, <2>3, <1>6, MainMoved DEF startup
<1>7. CASE StartServer
  <2>1. TypeOK'
    BY <1>7, <1>5 DEF StartServer, startup, TypeOK, requests
  <2>2. ServedOnceListening' /\ NobodyAfterGrace'
    BY <1>7 DEF StartServer, ServedOnceListening, NobodyAfterGrace, Starting, requests
  <2> QED  BY <1>7, <2>1, <2>2, MainMoved DEF StartServer, startup
<1>8. CASE Shutdown
  <2>1. TypeOK'
    BY <1>8, <1>5 DEF Shutdown, startup, TypeOK, requests
  <2>2. ServedOnceListening' /\ NobodyAfterGrace'
    BY <1>8 DEF Shutdown, ServedOnceListening, NobodyAfterGrace, Starting, requests
  <2> QED  BY <1>8, <2>1, <2>2, MainMoved DEF Shutdown, startup
<1>9. CASE Expire
  <2>1. TypeOK'
    BY <1>9, <1>5 DEF Expire, startup, TypeOK, requests
  <2>2. ServedOnceListening' /\ NobodyAfterGrace'
    BY <1>9 DEF Expire, ServedOnceListening, NobodyAfterGrace, Starting, requests
  <2> QED  BY <1>9, <2>1, <2>2, MainMoved DEF Expire, startup
<1>10. CASE ShutdownReturns
  <2>1. TypeOK'
    BY <1>10, <1>5 DEF ShutdownReturns, startup, TypeOK, requests
  <2>2. ServedOnceListening' /\ NobodyAfterGrace'
    BY <1>10 DEF ShutdownReturns, ServedOnceListening, NobodyAfterGrace, Starting,
                 requests
  <2> QED  BY <1>10, <2>1, <2>2, MainMoved DEF ShutdownReturns, startup
<1>11. CASE /\ main = "close" /\ main' = "closing" /\ poolOpen' = FALSE
            /\ UNCHANGED <<startup, listener, expired, requests>>
  <2>1. TypeOK'
    BY <1>11, <1>5 DEF startup, TypeOK, requests
  <2>2. ServedOnceListening' /\ NobodyAfterGrace'
    BY <1>11 DEF ServedOnceListening, NobodyAfterGrace, Starting, requests
  <2> QED  BY <1>11, <2>1, <2>2, MainMoved DEF startup
<1> QED  BY <1>1, <1>2, <1>3, <1>4, <1>6, <1>7, <1>8, <1>9, <1>10, <1>11
         DEF Main, LoadConfig, NewPool, RunMigrations, CloseDB

\* A step of a connection and the request it carries.
LEMMA ServeKeeps ==
  ASSUME Inv, NEW c \in Clients, Serve(c)  PROVE Inv'
<1> USE DEF Inv
<1>1. /\ Running
      /\ state \in [Clients -> ConnectionStates] /\ DOMAIN result = Clients
      /\ queue \in Seq(Clients) /\ IsInjective(queue)
      /\ state[c] = "wait" <=> c \in ToSet(queue)
  BY DEF Serve, TypeOK, ConnectionStates
<1>2. result = [result EXCEPT ![c] = result[c]]
  BY DEF TypeOK
<1>3. CASE Accept(c)
  BY <1>1, <1>2, <1>3, MovedApart DEF Accept, Goto, ConnectionStates
<1>4. CASE HeaderTimeout(c)
  BY <1>1, <1>2, <1>4, MovedApart DEF HeaderTimeout, Goto, ConnectionStates, Open
<1>5. CASE CloseIdle(c)
  BY <1>1, <1>2, <1>5, MovedApart DEF CloseIdle, Goto, ConnectionStates, Open
<1>6. CASE ReadBody(c)
  BY <1>1, <1>2, <1>6, MovedApart DEF ReadBody, Goto, ConnectionStates, Open
<1>7. CASE Respond(c)
  BY <1>1, <1>7, MovedApart DEF Respond, Ends, Goto, ConnectionStates, Open
<1>8. CASE ReadHeader(c)
  <2>1. /\ sent' \in [Clients -> 0 .. MaxStatements]
        /\ \A d \in Clients \ {c} : sent'[d] = sent[d]
    BY <1>8, ServerAssumption DEF ReadHeader, TypeOK
  <2>2. ToSet(queue') = ToSet(queue) \ {c}
    BY <1>1, <1>8 DEF ReadHeader
  <2> QED  BY <1>1, <1>8, <2>1, <2>2, Moved
           DEF ReadHeader, Goto, ConnectionStates, Open
<1>9. CASE Statement(c)
  <2>1. /\ sent' \in [Clients -> 0 .. MaxStatements]
        /\ \A d \in Clients \ {c} : sent'[d] = sent[d]
    BY <1>9, ServerAssumption DEF Statement, TypeOK, StatementToSend
  <2>2. ToSet(queue') = ToSet(queue) \ {c}
    BY <1>1, <1>9 DEF Statement
  <2> QED  BY <1>1, <1>2, <1>9, <2>1, <2>2, Moved
           DEF Statement, Goto, ConnectionStates, Open
<1>10. ASSUME UNCHANGED sent
       PROVE  /\ sent' \in [Clients -> 0 .. MaxStatements]
              /\ \A d \in Clients \ {c} : sent'[d] = sent[d]
  BY <1>10 DEF TypeOK
<1>11. CASE Acquire(c)
  <2>1. CASE poolOpen /\ Goto(c, "wait") /\ queue' = Append(queue, c)
             /\ UNCHANGED result
    <3>1. /\ queue' \in Seq(Clients) /\ IsInjective(queue')
          /\ ToSet(queue') = ToSet(queue) \cup {c}
      BY <1>1, <1>11, <2>1, Joined DEF Acquire
    <3> QED  BY <1>1, <1>2, <1>10, <1>11, <2>1, <3>1, Moved
             DEF Acquire, Goto, ConnectionStates, Open
  <2>2. CASE ~ poolOpen /\ Ends(c, "refused") /\ UNCHANGED queue
    BY <1>1, <1>11, <2>2, MovedApart DEF Acquire, Ends, Goto, ConnectionStates, Open
  <2> QED  BY <1>11, <2>1, <2>2 DEF Acquire
<1>12. CASE Acquired(c)
  <2>1. /\ queue' \in Seq(Clients) /\ IsInjective(queue')
        /\ ToSet(queue') = ToSet(queue) \ {c}
    <3>1. queue # <<>>
      BY <1>1, <1>12 DEF Acquired, ToSet
    <3> QED  BY <1>1, <1>12, <3>1, Served DEF Acquired
  <2>2. CASE Goto(c, "query") /\ UNCHANGED result
    BY <1>1, <1>2, <1>10, <1>12, <2>1, <2>2, Moved
       DEF Acquired, Goto, ConnectionStates, Open, StatementToSend
  <2>3. CASE ~ poolOpen /\ Ends(c, "refused")
    BY <1>1, <1>10, <1>12, <2>1, <2>3, Moved
       DEF Acquired, Ends, Goto, ConnectionStates, Open
  <2> QED  BY <1>12, <2>2, <2>3 DEF Acquired
<1>13. CASE ClientGone(c)
  <2>1. /\ queue' \in Seq(Clients) /\ IsInjective(queue')
        /\ ToSet(queue') = ToSet(queue) \ {c}
    <3>1. CASE c \notin ToSet(queue) /\ UNCHANGED queue
      BY <1>1, <3>1
    <3>2. CASE \E i \in DOMAIN queue : queue[i] = c /\ queue' = RemoveAt(queue, i)
      BY <1>1, <3>2, Left
    <3> QED  BY <1>13, <3>1, <3>2 DEF ClientGone
  <2> QED  BY <1>1, <1>2, <1>10, <1>13, <2>1, Moved
           DEF ClientGone, Goto, ConnectionStates, Open
<1> QED  BY <1>3, <1>4, <1>5, <1>6, <1>7, <1>8, <1>9, <1>11, <1>12, <1>13
         DEF Serve, Handler

LEMMA NextKeeps ==
  ASSUME Inv, [Next]_vars  PROVE Inv'
<1>1. CASE Signal
  BY <1>1 DEF Signal, Inv, TypeOK, StatementToSend, ServedOnceListening,
              NobodyAfterGrace, EndsOnce, GraceProtectsRequests,
              OrderlyExitAbortsNothing, requests
<1>2. CASE Main
  BY <1>2, MainKeeps
<1>3. CASE Listen
  <2>1. TypeOK' /\ ServedOnceListening' /\ NobodyAfterGrace'
    BY <1>3 DEF Listen, Inv, TypeOK, ServedOnceListening, NobodyAfterGrace,
                requests, startup, Running, Starting
  <2> QED  BY <1>3, <2>1, MainMoved DEF Listen, Running, startup
<1>4. CASE ListenFails
  BY <1>4, Ended DEF ListenFails, Fatal
<1>5. CASE \E c \in Clients : Serve(c)
  BY <1>5, ServeKeeps
<1>6. CASE UNCHANGED vars
  BY <1>6 DEF vars, Inv, TypeOK, StatementToSend, ServedOnceListening,
              NobodyAfterGrace, EndsOnce, GraceProtectsRequests,
              OrderlyExitAbortsNothing
<1> QED  BY <1>1, <1>2, <1>3, <1>4, <1>5, <1>6 DEF Next

-----------------------------------------------------------------------------
(***************************************************************************)
(* In every state of the process the pool, the listener and main agree on  *)
(* who is served, which is what the theorems below rest on.                *)
(***************************************************************************)
THEOREM Invariance == Spec => []Inv
<1>1. Init => Inv
  <2> SUFFICES ASSUME Init  PROVE Inv
    OBVIOUS
  <2>1. <<>> \in Seq(Clients) /\ IsInjective(<<>>) /\ ToSet(<<>>) = {}
    BY EmptySeq DEF IsInjective, ToSet
  <2>2. /\ env \in SUBSET Required
        /\ main = "load" /\ code = NULL /\ ~ signalled /\ ~ expired /\ ~ poolOpen
        /\ signalled \in BOOLEAN /\ expired \in BOOLEAN /\ poolOpen \in BOOLEAN
        /\ listener = "unstarted"
        /\ state = [c \in Clients |-> "none"]
        /\ sent = [c \in Clients |-> 0]
        /\ queue = <<>>
        /\ result = [c \in Clients |-> NULL]
    BY DEF Init
  <2>3. TypeOK
    BY <2>1, <2>2, ServerAssumption DEF TypeOK, Starting
  <2>4. StatementToSend /\ ServedOnceListening /\ NobodyAfterGrace
    BY <2>2 DEF StatementToSend, ServedOnceListening, NobodyAfterGrace, Starting
  <2>5. EndsOnce /\ GraceProtectsRequests /\ OrderlyExitAbortsNothing
    BY <2>2, ServerAssumption
       DEF EndsOnce, GraceProtectsRequests, OrderlyExitAbortsNothing
  <2> QED  BY <2>3, <2>4, <2>5 DEF Inv
<1> QED  BY <1>1, NextKeeps, PTL DEF Spec

(***************************************************************************)
(* Exactly the requests that wait for a connection are queued, once each,  *)
(* whoever joins, is served or goes away; and no request sends more        *)
(* statements than its operation has.                                      *)
(***************************************************************************)
THEOREM TypeCorrect == Spec => []TypeOK
BY Invariance, PTL DEF Inv

(***************************************************************************)
(* A stop in its ten seconds refuses, cuts off and aborts no request, with *)
(* any number of connections and at any moment the signal may come.        *)
(***************************************************************************)
THEOREM GraceIsKept == Spec => []GraceProtectsRequests
BY Invariance, PTL DEF Inv

(***************************************************************************)
(* An orderly exit aborts no statement, however long one runs.             *)
(***************************************************************************)
THEOREM OrderlyExitIsClean == Spec => []OrderlyExitAbortsNothing
BY Invariance, PTL DEF Inv

-----------------------------------------------------------------------------
(***************************************************************************)
(* The layers of a request, whoever sends it.                              *)
(***************************************************************************)
Layers == {"idle", "auth", "route", "bind", "decode", "handle", "visit",
           "encode", "log", "done"}

\* The layers in which a request knows its operation, and those before an answer.
Routed == {"bind", "decode", "handle", "visit", "encode"}
Unanswered == {"idle", "auth", "route", "bind", "decode", "handle", "visit"}

RequestFits ==
  /\ at \in Layers
  /\ at = "idle" <=> request = None
  /\ request \in Request \cup {None}

\* Behind Auth a request has the claims of its token, or needs none.
ClaimsFit ==
  /\ claims \in Actor \cup {None}
  /\ claims # None => request # None /\ claims = request.token
  /\ at \in Routed => request.op \in Operations
  /\ at \in Routed \cup {"route"} => OnPublicPath \/ claims # None

\* What a service returned, it returned for the claims the handler let pass.
OutcomeFits ==
  IF outcome = None
    THEN at \in {"visit", "encode"} => HandlerRefusal # None
    ELSE /\ at \in {"visit", "encode", "log", "done"}
         /\ request.op \in Operations
         /\ request.op \in Protected => claims # None
         /\ HandlerRefusal = None
         /\ outcome \in (IF request.op = "info" THEN {"ok"} ELSE Outcomes(request.op))

\* One response, which is the handler's where there was one.
ResponseFits ==
  /\ at \in Unanswered => wire = None
  /\ at \notin Unanswered => wire \in Response
  /\ at = "encode" => wire = HandlerResponse
  /\ at \in {"log", "done"} =>
       IF outcome = None THEN wire.status \notin {200, 201}
                         ELSE wire = HandlerResponse

\* What Logging has recorded, unless encoding the response failed.
LogFits ==
  /\ broken \in BOOLEAN /\ (broken => at \in {"log", "done"})
  /\ at \in {"encode", "log"} /\ ~ broken => recorded = wire.status
  /\ at # "done" => logged = None
  /\ at = "done" /\ logged # None /\ ~ broken => logged = wire.status

HttpInv ==
  /\ RequestFits /\ ClaimsFit /\ OutcomeFits /\ ResponseFits /\ LogFits

-----------------------------------------------------------------------------
\* No token and no answer is one of the values it stands beside.
LEMMA NoneIsApart ==
  /\ \A r \in Request : r # None
  /\ \A r \in Response : r # None
  /\ \A a \in Actor : a # None
  /\ None \notin DomainErrors \cup {"ok", "internal"}
  /\ None \notin Int
BY HttpAssumption

\* What a handler refuses, it refuses as the client's mistake.
LEMMA RefusalIsError ==
  HandlerRefusal \in {None, JSON(400, "INVALID_REQUEST"), JSON(403, "FORBIDDEN")}
BY DEF HandlerRefusal

\* The mapping of the domain errors.
LEMMA StatusKnown ==
  ASSUME NEW error
  PROVE  /\ StatusOf(error) \in {400, 401, 403, 404, 409, 500}
         /\ CodeOf(error) \in ErrorCodes
BY DEF StatusOf, CodeOf, ErrorCodes

\* What the mapping says of an error can be read back from it.
LEMMA MappingMeans ==
  ASSUME NEW error \in DomainErrors
  PROVE  error \in Meaning(StatusOf(error), CodeOf(error))
BY DEF Meaning, StatusOf, CodeOf, DomainErrors

LEMMA ResponseTyped ==
  /\ \A n \in Int : \A c \in ErrorCodes \cup {None} :
       JSON(n, c) \in Response /\ JSON(n, c).status = n /\ JSON(n, c).code = c
  /\ \A n \in Int : Text(n) \in Response /\ Text(n).status = n
BY DEF JSON, Text, Response

\* What the outcomes of the services are.
LEMMA OutcomeKnown ==
  ASSUME NEW op \in Operations
  PROVE  /\ ServiceErrors(op) \subseteq DomainErrors
         /\ Outcomes(op) \subseteq DomainErrors \cup {"ok", "internal"}
BY DEF ServiceErrors, Outcomes, DomainErrors

\* Every error a service may return has a case in its handler, with the status
\* and the code of the mapping, and api.yaml lists that status.
LEMMA ErrorIsHandled ==
  ASSUME NEW op \in Operations, NEW error \in DomainErrors,
         error \in ServiceErrors(op)
           \/ (error = "Forbidden" /\ ServiceRole(op) # Roles)
  PROVE  /\ ErrorResponse(op, error) = JSON(StatusOf(error), CodeOf(error))
         /\ StatusOf(error) \in Documented(op)
<1>1. CASE error \in ServiceErrors(op)
  BY <1>1 DEF ServiceErrors, ErrorResponse, StatusOf, CodeOf, Handled, Documented,
              Operations, Protected, Public
<1>2. CASE error = "Forbidden" /\ ServiceRole(op) # Roles
  BY <1>2 DEF ServiceRole, ErrorResponse, StatusOf, Handled, Documented,
              Operations, Protected, Public
<1> QED  BY <1>1, <1>2

\* Whom the handlers and the services together let act.
LEMMA RolesAgree ==
  ASSUME NEW op \in Protected, NEW role \in ServiceRole(op),
         op \in AdminInHandler => role = "admin"
  PROVE  role \in AllowedRoles(op)
BY DEF Protected, ServiceRole, AdminInHandler, AllowedRoles

\* Successes and failures of the infrastructure are listed for the operations
\* that may have them.
LEMMA OthersListed ==
  ASSUME NEW op \in Operations
  PROVE  /\ SuccessStatus(op) \in Documented(op)
         /\ op # "info" => 500 \in Documented(op)
BY DEF SuccessStatus, Documented, Operations, Protected, Public

\* What the handler makes of its outcome.
LEMMA ResponseMeans ==
  ASSUME request \in Request, claims \in Actor \cup {None}, OutcomeFits,
         outcome # None
  PROVE  /\ HandlerResponse \in Response
         /\ HandlerResponse.status \in {200, 201} <=> outcome = "ok"
         /\ outcome \in Meaning(HandlerResponse.status, HandlerResponse.code)
         /\ HandlerResponse.status \in Documented(request.op)
<1> DEFINE op == request.op
<1>1. /\ op \in Operations
      /\ outcome \in (IF op = "info" THEN {"ok"} ELSE Outcomes(op))
  BY DEF OutcomeFits
<1>2. outcome \in DomainErrors \cup {"ok", "internal"}
  BY <1>1, OutcomeKnown
<1>3. CASE outcome = "ok"
  <2>1. HandlerResponse = JSON(SuccessStatus(op), None)
    BY <1>3 DEF HandlerResponse
  <2>2. SuccessStatus(op) \in {200, 201} /\ SuccessStatus(op) \in Documented(op)
    BY <1>1, OthersListed DEF SuccessStatus
  <2>3. /\ HandlerResponse \in Response
        /\ HandlerResponse.status = SuccessStatus(op) /\ HandlerResponse.code = None
    BY <2>1, <2>2, ResponseTyped
  <2>4. "ok" \in Meaning(HandlerResponse.status, HandlerResponse.code)
    BY <2>2, <2>3 DEF Meaning
  <2> QED  BY <1>3, <2>2, <2>3, <2>4
<1>4. CASE outcome = "internal"
  <2>1. StatusOf(outcome) = 500 /\ 500 \notin Handled(op)
    BY <1>4 DEF StatusOf, Handled
  <2>2. HandlerResponse = JSON(500, "INTERNAL_ERROR")
    BY <1>4, <2>1, NoneIsApart DEF HandlerResponse, ErrorResponse, InternalError
  <2>3. /\ HandlerResponse \in Response
        /\ HandlerResponse.status = 500 /\ HandlerResponse.code = "INTERNAL_ERROR"
    BY <2>2, ResponseTyped DEF ErrorCodes
  <2>4. "internal" \in Meaning(HandlerResponse.status, HandlerResponse.code)
    BY <2>3 DEF Meaning
  <2>5. 500 \in Documented(op)
    BY <1>1, <1>4, OthersListed
  <2> QED  BY <1>4, <2>3, <2>4, <2>5
<1>5. CASE outcome \in DomainErrors
  <2>1. outcome # "ok" /\ outcome # "internal"
    BY <1>5 DEF DomainErrors
  <2>2. outcome \in ServiceErrors(op)
          \/ (outcome = "Forbidden" /\ ServiceRole(op) # Roles)
    <3>1. CASE claims # None /\ claims.role \notin ServiceRole(op)
      <4>1. claims.role \in Roles
        BY <3>1 DEF Actor
      <4> QED  BY <1>1, <2>1, <3>1, <4>1 DEF Outcomes
    <3>2. CASE ~ (claims # None /\ claims.role \notin ServiceRole(op))
      BY <1>1, <2>1, <3>2 DEF Outcomes
    <3> QED  BY <3>1, <3>2
  <2>3. HandlerResponse = ErrorResponse(op, outcome)
    BY <2>1, <1>5, NoneIsApart DEF HandlerResponse
  <2>4. /\ HandlerResponse = JSON(StatusOf(outcome), CodeOf(outcome))
        /\ StatusOf(outcome) \in Documented(op)
    BY <1>1, <1>5, <2>2, <2>3, ErrorIsHandled
  <2>5. /\ StatusOf(outcome) \in Int /\ StatusOf(outcome) \notin {200, 201}
        /\ CodeOf(outcome) \in ErrorCodes
    BY StatusKnown
  <2>6. /\ HandlerResponse \in Response
        /\ HandlerResponse.status = StatusOf(outcome)
        /\ HandlerResponse.code = CodeOf(outcome)
    BY <2>4, <2>5, ResponseTyped
  <2> QED  BY <1>5, <2>1, <2>4, <2>5, <2>6, MappingMeans
<1> QED  BY <1>2, <1>3, <1>4, <1>5

-----------------------------------------------------------------------------
\* A layer passes the request on to the next one before there is an answer.
LEMMA Passed ==
  ASSUME HttpInv, NEW next \in Routed \cup {"route"}, Pass(next),
         at \in Unanswered \ {"idle", "visit"},
         next \in Routed => request.op \in Operations,
         OnPublicPath \/ claims # None,
         next \in Unanswered,
         next = "visit" => HandlerRefusal # None
  PROVE  HttpInv'
<1> USE DEF HttpInv, Pass
<1>1. /\ at' = next /\ UNCHANGED <<request, claims, outcome, wire, recorded>>
      /\ UNCHANGED <<broken, logged>>
  BY DEF Unlogged
<1>2. /\ at # "idle" /\ next # "idle" /\ next \in Layers
      /\ next \notin {"encode", "log", "done"}
  BY DEF Unanswered, Routed, Layers
<1>3. RequestFits'
  BY <1>1, <1>2 DEF RequestFits
<1>4. ClaimsFit'
  BY <1>1, <1>2 DEF ClaimsFit, OnPublicPath
<1>5. outcome = None
  BY DEF OutcomeFits, Unanswered
<1>6. OutcomeFits'
  <2>1. HandlerRefusal' = HandlerRefusal
    BY <1>1 DEF HandlerRefusal
  <2> QED  BY <1>1, <1>2, <1>5, <2>1 DEF OutcomeFits
<1>7. ResponseFits'
  BY <1>1, <1>2 DEF ResponseFits, Unanswered
<1>8. LogFits'
  BY <1>1, <1>2 DEF LogFits, Unanswered
<1> QED  BY <1>3, <1>4, <1>6, <1>7, <1>8

\* A layer under Logging answers in place of the layers behind it.
LEMMA Refused ==
  ASSUME HttpInv, NEW response \in Response, response.status \notin {200, 201},
         Refuse(response), at \in Unanswered \ {"idle", "visit"}
  PROVE  HttpInv'
<1> USE DEF HttpInv, Refuse
<1>1. /\ at' = "log" /\ UNCHANGED <<request, claims, outcome>>
      /\ UNCHANGED <<broken, logged>>
      /\ wire' = response /\ recorded' = response.status
  BY DEF Unlogged, Send, Write, ResponseFits
<1>2. RequestFits' /\ ClaimsFit'
  BY <1>1 DEF RequestFits, ClaimsFit, OnPublicPath, Routed, Unanswered, Layers
<1>3. outcome = None
  BY DEF OutcomeFits, Unanswered
<1>4. OutcomeFits' /\ ResponseFits' /\ LogFits'
  BY <1>1, <1>3 DEF OutcomeFits, ResponseFits, LogFits, Unanswered
<1> QED  BY <1>2, <1>4

LEMMA HttpKeeps ==
  ASSUME HttpInv, [HttpNext]_httpVars  PROVE HttpInv'
<1> USE DEF HttpInv
<1>1. ASSUME NEW r \in Request, Receive(r)  PROVE HttpInv'
  <2>1. /\ at = "idle" /\ at' = "auth" /\ request' = r /\ claims = None
        /\ outcome = None
        /\ UNCHANGED <<claims, outcome, wire, recorded, broken, logged>>
    BY <1>1, NoneIsApart DEF Receive, Unlogged, RequestFits, ClaimsFit, OutcomeFits
  <2>2. r # None
    BY NoneIsApart
  <2>3. RequestFits' /\ ClaimsFit'
    BY <2>1, <2>2 DEF RequestFits, ClaimsFit, Routed, Layers
  <2>4. OutcomeFits' /\ ResponseFits' /\ LogFits'
    BY <2>1 DEF OutcomeFits, ResponseFits, LogFits, Unanswered
  <2> QED  BY <2>3, <2>4
<1>2. CASE Auth
  <2>1. CASE OnPublicPath /\ Pass("route")
    BY <1>2, <2>1, Passed DEF Auth, Unanswered, Routed
  <2>2. CASE request.token = None /\ Refuse(JSON(401, "UNAUTHORIZED"))
    <3>1. /\ JSON(401, "UNAUTHORIZED") \in Response
          /\ JSON(401, "UNAUTHORIZED").status = 401
      BY ResponseTyped DEF ErrorCodes
    <3> QED  BY <1>2, <2>2, <3>1, Refused DEF Auth, Unanswered
  <2>3. CASE /\ request.token # None
             /\ claims' = request.token /\ at' = "route"
             /\ UNCHANGED <<request, outcome, wire, recorded>> /\ Unlogged
    <3>1. at = "auth" /\ request \in Request /\ request # None /\ outcome = None
      BY <1>2 DEF Auth, RequestFits, OutcomeFits
    <3>2. request.token \in Actor
      BY <2>3, <3>1 DEF Request
    <3>3. RequestFits' /\ ClaimsFit'
      BY <2>3, <3>1, <3>2 DEF RequestFits, ClaimsFit, Routed, Layers
    <3>4. OutcomeFits' /\ ResponseFits' /\ LogFits'
      BY <2>3, <3>1 DEF OutcomeFits, ResponseFits, LogFits, Unanswered, Unlogged
    <3> QED  BY <3>3, <3>4
  <2> QED  BY <1>2, <2>1, <2>2, <2>3 DEF Auth
<1>3. CASE Route
  <2>1. /\ Text(404) \in Response /\ Text(404).status = 404
        /\ Text(405) \in Response /\ Text(405).status = 405
    BY ResponseTyped
  <2>2. CASE Refuse(Text(404))
    BY <1>3, <2>1, <2>2, Refused DEF Route, Unanswered
  <2>3. CASE Refuse(Text(405))
    BY <1>3, <2>1, <2>3, Refused DEF Route, Unanswered
  <2>4. CASE request.op \in Operations /\ Pass("bind")
    BY <1>3, <2>4, Passed DEF Route, ClaimsFit, Unanswered, Routed
  <2> QED  BY <1>3, <2>2, <2>3, <2>4 DEF Route
<1>4. CASE Bind
  <2>1. Text(400) \in Response /\ Text(400).status = 400
    BY ResponseTyped
  <2>2. CASE Refuse(Text(400))
    BY <1>4, <2>1, <2>2, Refused DEF Bind, Unanswered
  <2>3. CASE Pass("decode")
    BY <1>4, <2>3, Passed DEF Bind, ClaimsFit, Unanswered, Routed
  <2> QED  BY <1>4, <2>2, <2>3 DEF Bind
<1>5. CASE Decode
  <2>1. /\ JSON(400, "INVALID_REQUEST") \in Response
        /\ JSON(400, "INVALID_REQUEST").status = 400
    BY ResponseTyped DEF ErrorCodes
  <2>2. CASE Refuse(JSON(400, "INVALID_REQUEST"))
    BY <1>5, <2>1, <2>2, Refused DEF Decode, Unanswered
  <2>3. CASE Pass("handle")
    BY <1>5, <2>3, Passed DEF Decode, ClaimsFit, Unanswered, Routed
  <2> QED  BY <1>5, <2>2, <2>3 DEF Decode
<1>6. CASE Handle
  <2>1. CASE HandlerRefusal # None /\ Pass("visit")
    BY <1>6, <2>1, Passed DEF Handle, ClaimsFit, Unanswered, Routed
  <2>2. CASE /\ HandlerRefusal = None
             /\ outcome' \in (IF request.op = "info" THEN {"ok"}
                                                     ELSE Outcomes(request.op))
             /\ at' = "visit"
             /\ UNCHANGED <<request, claims, wire, recorded>> /\ Unlogged
    <3>1. at = "handle" /\ request # None /\ request \in Request
      BY <1>6 DEF Handle, RequestFits
    <3>2. /\ request.op \in Operations
          /\ OnPublicPath \/ claims # None
      BY <3>1 DEF ClaimsFit, Routed
    <3>3. RequestFits' /\ ClaimsFit'
      BY <2>2, <3>1, <3>2 DEF RequestFits, ClaimsFit, Routed, Layers, OnPublicPath
    <3>4. request.op \in Protected => claims # None
      BY <3>2 DEF OnPublicPath, Protected, Public
    <3>5. /\ HandlerRefusal' = HandlerRefusal
          /\ Outcomes(request.op)' = Outcomes(request.op)
      BY <2>2 DEF HandlerRefusal, Outcomes
    <3>6. outcome' # None
      BY <2>2, <3>2, OutcomeKnown, NoneIsApart
    <3>7. OutcomeFits'
      BY <2>2, <3>2, <3>4, <3>5, <3>6 DEF OutcomeFits
    <3>8. ResponseFits' /\ LogFits'
      BY <2>2, <3>1 DEF ResponseFits, LogFits, Unanswered, Unlogged
    <3> QED  BY <3>3, <3>7, <3>8
  <2> QED  BY <1>6, <2>1, <2>2 DEF Handle
<1>7. CASE Panic
  <2>1. /\ at = "handle" /\ at' = "done" /\ outcome = None /\ wire = None
        /\ wire' = JSON(500, "INTERNAL_ERROR")
        /\ UNCHANGED <<request, claims, outcome, recorded, broken, logged>>
    BY <1>7 DEF Panic, InternalError, Write, Unlogged, ResponseFits, OutcomeFits, Unanswered
  <2>2. wire' \in Response /\ wire'.status = 500
    BY <2>1, ResponseTyped DEF ErrorCodes
  <2>3. RequestFits' /\ ClaimsFit'
    BY <2>1 DEF RequestFits, ClaimsFit, Routed, Layers
  <2>4. OutcomeFits' /\ ResponseFits' /\ LogFits'
    BY <2>1, <2>2 DEF OutcomeFits, ResponseFits, LogFits, Unanswered
  <2> QED  BY <2>3, <2>4
<1>8. ASSUME at = "visit" \/ (at = "encode" /\ outcome = None) \/ outcome # None,
             at # "idle"
      PROVE  /\ HandlerResponse \in Response
             /\ outcome = None => HandlerResponse.status \notin {200, 201}
  <2>1. request \in Request /\ claims \in Actor \cup {None}
    BY <1>8 DEF RequestFits, ClaimsFit
  <2>2. CASE outcome # None
    BY <2>1, <2>2, ResponseMeans
  <2>3. CASE outcome = None
    <3>1. HandlerRefusal \in {JSON(400, "INVALID_REQUEST"), JSON(403, "FORBIDDEN")}
      BY <1>8, <2>3, RefusalIsError DEF OutcomeFits
    <3>2. HandlerResponse = HandlerRefusal
      BY <2>3, NoneIsApart DEF HandlerResponse
    <3> QED  BY <3>1, <3>2, ResponseTyped DEF ErrorCodes
  <2> QED  BY <2>2, <2>3
<1>9. ASSUME UNCHANGED <<request, claims, outcome>>, at' # "idle", at # "idle",
             at \in {"visit", "encode", "log"}, at' \in {"encode", "log", "done"},
             at = "log" => at' # "encode"
      PROVE  /\ RequestFits' /\ ClaimsFit' /\ OutcomeFits'
             /\ HandlerResponse' = HandlerResponse
  <2>1. HandlerRefusal' = HandlerRefusal
    BY <1>9 DEF HandlerRefusal
  <2>2. HandlerResponse' = HandlerResponse
    BY <1>9, <2>1 DEF HandlerResponse, ErrorResponse
  <2>3. RequestFits' /\ ClaimsFit'
    BY <1>9 DEF RequestFits, ClaimsFit, Routed, Layers, OnPublicPath
  <2>4. Outcomes(request.op)' = Outcomes(request.op)
    BY <1>9 DEF Outcomes
  <2>5. OutcomeFits'
    BY <1>9, <2>1, <2>4 DEF OutcomeFits
  <2> QED  BY <2>2, <2>3, <2>5
<1>10. CASE Visit
  <2>1. /\ at = "visit" /\ at' = "encode" /\ wire' = HandlerResponse
        /\ recorded' = HandlerResponse.status
        /\ UNCHANGED <<request, claims, outcome>> /\ UNCHANGED <<broken, logged>>
    BY <1>10 DEF Visit, Send, Write, Unlogged, ResponseFits, Unanswered
  <2>2. ResponseFits' /\ LogFits'
    BY <2>1, <1>8, <1>9 DEF ResponseFits, LogFits, Unanswered
  <2> QED  BY <2>1, <2>2, <1>9
<1>11. CASE Encode
  <2>1. /\ at = "encode" /\ at' = "log" /\ wire = HandlerResponse
        /\ wire \in Response
        /\ UNCHANGED <<request, claims, outcome, logged>>
    BY <1>11 DEF Encode, ResponseFits, Unanswered
  <2>2. wire' = wire /\ broken' \in BOOLEAN /\ (~ broken' => recorded' = recorded)
    BY <1>11, <2>1, NoneIsApart DEF Encode, Send, Write
  <2>3. ~ broken /\ recorded = wire.status /\ logged = None
    BY <2>1 DEF LogFits
  <2>4. ResponseFits' /\ LogFits'
    BY <2>1, <2>2, <2>3, <1>8, <1>9 DEF ResponseFits, LogFits, Unanswered
  <2> QED  BY <2>1, <2>4, <1>9
<1>12. CASE Log
  <2>1. /\ at = "log" /\ at' = "done" /\ logged' = recorded
        /\ UNCHANGED <<request, claims, outcome, wire, recorded, broken>>
    BY <1>12 DEF Log
  <2>2. ResponseFits' /\ LogFits'
    BY <2>1, <1>9 DEF ResponseFits, LogFits, Unanswered
  <2> QED  BY <2>1, <2>2, <1>9
<1>13. CASE NextRequest
  BY <1>13 DEF NextRequest, RequestFits, ClaimsFit, OutcomeFits, ResponseFits,
               LogFits, Layers, Routed, Unanswered
<1>14. CASE UNCHANGED httpVars
  <2>1. HandlerRefusal' = HandlerRefusal
    BY <1>14 DEF httpVars, HandlerRefusal
  <2>2. HandlerResponse' = HandlerResponse
    BY <1>14, <2>1 DEF httpVars, HandlerResponse, ErrorResponse
  <2>3. Outcomes(request.op)' = Outcomes(request.op)
    BY <1>14 DEF httpVars, Outcomes
  <2> QED  BY <1>14, <2>1, <2>2, <2>3
           DEF httpVars, RequestFits, ClaimsFit, OutcomeFits, ResponseFits,
               LogFits, OnPublicPath
<1> QED  BY <1>1, <1>2, <1>3, <1>4, <1>5, <1>6, <1>7, <1>10, <1>11, <1>12,
            <1>13, <1>14 DEF HttpNext

-----------------------------------------------------------------------------
(***************************************************************************)
(* In every layer a request has the claims, the outcome and the response   *)
(* that the layers it has passed left it.                                  *)
(***************************************************************************)
THEOREM HttpInvariance == HttpSpec => []HttpInv
<1>1. HttpInit => HttpInv
  BY DEF HttpInit, HttpInv, RequestFits, ClaimsFit, OutcomeFits, ResponseFits,
         LogFits, Layers, Routed, Unanswered
<1> QED  BY <1>1, HttpKeeps, PTL DEF HttpSpec

(***************************************************************************)
(* Whatever the tokens and users: what is done under a protected path is   *)
(* done for the actor of the token, in a role the operation is for.        *)
(***************************************************************************)
THEOREM OnlyAllowedActorsActAlways == HttpSpec => []OnlyAllowedActorsAct
<1>1. HttpInv => OnlyAllowedActorsAct
  <2> SUFFICES ASSUME HttpInv, request # None, request.op \in Protected,
                      outcome = "ok"
               PROVE  /\ claims # None /\ request.token = claims
                      /\ claims.role \in AllowedRoles(request.op)
    BY DEF OnlyAllowedActorsAct
  <2>1. outcome # None
    BY NoneIsApart
  <2>2. /\ claims # None /\ request.token = claims /\ claims \in Actor
        /\ HandlerRefusal = None
        /\ outcome \in (IF request.op = "info" THEN {"ok"} ELSE Outcomes(request.op))
    BY <2>1 DEF HttpInv, OutcomeFits, ClaimsFit
  <2>3. claims.role \in ServiceRole(request.op)
    BY <2>2 DEF Outcomes, Protected
  <2>4. request.op \in AdminInHandler => claims.role = "admin"
    <3>1. JSON(400, "INVALID_REQUEST") # None /\ JSON(403, "FORBIDDEN") # None
      BY NoneIsApart, ResponseTyped DEF ErrorCodes
    <3> QED  BY <2>2, <3>1 DEF HandlerRefusal
  <2> QED  BY <2>2, <2>3, <2>4, RolesAgree
<1> QED  BY <1>1, HttpInvariance, PTL

(***************************************************************************)
(* The client, and the log, are told of a success exactly when there was   *)
(* one, through every layer that may answer in a service's place.          *)
(***************************************************************************)
THEOREM SuccessMeansDoneAlways == HttpSpec => []SuccessMeansDone
<1>1. HttpInv => SuccessMeansDone
  <2> SUFFICES ASSUME HttpInv, at = "done"
               PROVE  /\ wire.status \in {200, 201} <=> outcome = "ok"
                      /\ logged # None /\ ~ broken => logged = wire.status
    BY DEF SuccessMeansDone
  <2>1. CASE outcome = None
    BY <2>1, NoneIsApart DEF HttpInv, ResponseFits, LogFits
  <2>2. CASE outcome # None
    <3>1. request \in Request /\ claims \in Actor \cup {None}
      BY DEF HttpInv, RequestFits, ClaimsFit
    <3>2. wire = HandlerResponse
      BY <2>2 DEF HttpInv, ResponseFits
    <3> QED  BY <2>2, <3>1, <3>2, ResponseMeans DEF HttpInv, LogFits
  <2> QED  BY <2>1, <2>2
<1> QED  BY <1>1, HttpInvariance, PTL

(***************************************************************************)
(* The table of every handler has a case for every domain error that may   *)
(* reach it, no two errors but an invalid request and a taken address have *)
(* the same status and code, and api.yaml lists every status that answers  *)
(* an outcome of a service.                                                *)
(***************************************************************************)
THEOREM ErrorsKeepTheirMeaningAlways == HttpSpec => []ErrorsKeepTheirMeaning
<1>1. HttpInv => ErrorsKeepTheirMeaning
  <2> SUFFICES ASSUME HttpInv, at = "done", outcome # None
               PROVE  /\ outcome \in Meaning(wire.status, wire.code)
                      /\ wire.status \in Documented(request.op)
    BY DEF ErrorsKeepTheirMeaning
  <2>1. request \in Request /\ claims \in Actor \cup {None}
    BY DEF HttpInv, RequestFits, ClaimsFit
  <2>2. wire = HandlerResponse
    BY DEF HttpInv, ResponseFits
  <2> QED  BY <2>1, <2>2, ResponseMeans DEF HttpInv
<1> QED  BY <1>1, HttpInvariance, PTL

=============================================================================
