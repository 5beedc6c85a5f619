----------------------------- MODULE ServerLifecycle -----------------------------
(***************************************************************************)
(* One process of cmd/api: main with its start, the HTTP server with its   *)
(* client connections, the pool of database connections, and the stop on a *)
(* signal.  A request is its waits: for its body, for a pooled connection, *)
(* for the database; each of its statements has a connection of its own,   *)
(* which goes back to the pool before the next.                            *)
(*                                                                         *)
(* net/http and pgxpool are modelled from how main uses them; of           *)
(* RunMigrations, one step here, the module Migrations says more.          *)
(***************************************************************************)
EXTENDS Integers, FiniteSets, Sequences, SequencesExt

CONSTANTS Clients,         \* TCP connections clients may open
          PoolSize,        \* connections of the pool
          MaxStatements,   \* the most statements a request sends: 3
          NULL

ASSUME ServerAssumption ==
  /\ PoolSize \in Nat \ {0} /\ MaxStatements \in Nat
  /\ NULL \notin {"answered", "refused", "cut", "aborted"}

Required == {"HTTP_PORT", "DB_DSN", "JWT_SECRET"}

VARIABLES env,        \* the variables that are set to something
          main,       \* where main() is
          code,       \* exit status, NULL while the process runs
          signalled,  \* SIGINT or SIGTERM came: ctx is cancelled
          listener,   \* the goroutine in ListenAndServe
          expired,    \* the ten seconds of shutdownCtx are over
          poolOpen,
          state,      \* of each client connection
          sent,       \* statements its request has sent
          queue,      \* requests waiting for a pooled connection, in order
          result      \* how the last request of the connection ended

vars == <<env, main, code, signalled, listener, expired, poolOpen,
          state, sent, queue, result>>

startup == <<env, code, signalled>>
requests == <<state, sent, queue, result>>

Starting == {"load", "connect", "migrate", "wire"}

TypeOK ==
  /\ env \subseteq Required
  /\ main \in Starting \cup {"wait", "shutdown", "close", "closing", "exited"}
  /\ code \in {0, 1, NULL}
  /\ signalled \in BOOLEAN /\ expired \in BOOLEAN /\ poolOpen \in BOOLEAN
  /\ listener \in {"unstarted", "starting", "listening", "closed"}
  /\ state \in [Clients -> {"none", "new", "body", "run", "wait", "query",
                            "idle", "closed"}]
  /\ sent \in [Clients -> 0..MaxStatements]
  /\ queue \in Seq(Clients) /\ IsInjective(queue)
  /\ \A c \in Clients : state[c] = "wait" <=> c \in ToSet(queue)
  /\ result \in [Clients -> {NULL, "answered", "refused", "cut", "aborted"}]

Init ==
  /\ env \in SUBSET Required
  /\ main = "load" /\ code = NULL /\ signalled = FALSE
  /\ listener = "unstarted" /\ expired = FALSE /\ poolOpen = FALSE
  /\ state = [c \in Clients |-> "none"]
  /\ sent = [c \in Clients |-> 0]
  /\ queue = <<>>
  /\ result = [c \in Clients |-> NULL]

-----------------------------------------------------------------------------
Running == main # "exited"

Open == {"new", "body", "run", "wait", "query", "idle"}

\* A request is being served.
Active(c) == state[c] \in {"body", "run", "wait", "query"}

Querying == { c \in Clients : state[c] = "query" }

\* The process ends with every goroutine and connection it has.
Exit(status) ==
  /\ main' = "exited" /\ code' = status
  /\ state' = [c \in Clients |-> IF state[c] \in Open THEN "closed" ELSE state[c]]
  /\ result' = [c \in Clients |->
                  CASE state[c] = "query" -> "aborted"
                    [] state[c] \in {"body", "run", "wait"} -> "cut"
                    [] OTHER -> result[c]]
  /\ queue' = <<>> /\ poolOpen' = FALSE
  /\ listener' = "closed"
  /\ UNCHANGED <<env, signalled, expired, sent>>

\* log.Fatalf: the deferred calls of main are not run.
Fatal == Exit(1)

\* signal.NotifyContext; a second signal changes nothing.
Signal ==
  /\ Running /\ ~ signalled
  /\ signalled' = TRUE
  /\ UNCHANGED <<env, main, code, listener, expired, poolOpen, requests>>

\* config.Load
LoadConfig ==
  /\ main = "load"
  /\ \/ env # Required /\ Fatal
     \/ /\ env = Required
        /\ main' = "connect"
        /\ UNCHANGED <<startup, listener, expired, poolOpen, requests>>

\* postgres.NewPool, with its Ping on ctx.
NewPool ==
  /\ main = "connect"
  /\ \/ Fatal
     \/ /\ ~ signalled
        /\ main' = "migrate" /\ poolOpen' = TRUE
        /\ UNCHANGED <<startup, listener, expired, requests>>

\* postgres.RunMigrations, on the same ctx.
RunMigrations ==
  /\ main = "migrate"
  /\ \/ Fatal
     \/ /\ ~ signalled
        /\ main' = "wire"
        /\ UNCHANGED <<startup, listener, expired, poolOpen, requests>>

\* NewServer, and the goroutine of ListenAndServe; ctx is not looked at.
StartServer ==
  /\ main = "wire"
  /\ main' = "wait" /\ listener' = "starting"
  /\ UNCHANGED <<startup, expired, poolOpen, requests>>

\* ListenAndServe asks shuttingDown() before it listens.
Listen ==
  /\ Running /\ listener = "starting"
  /\ \/ main = "wait" /\ listener' = "listening"
     \/ main # "wait" /\ listener' = "closed"
  /\ UNCHANGED <<startup, main, expired, poolOpen, requests>>

\* The port is taken, also if Shutdown comes after ListenAndServe asked, or
\* Accept fails.
ListenFails ==
  /\ Running
  /\ listener = "starting" \/ (main = "wait" /\ listener = "listening")
  /\ Fatal

\* <-ctx.Done() and srv.Shutdown, which closes the listener.
Shutdown ==
  /\ main = "wait" /\ signalled
  /\ main' = "shutdown"
  /\ listener' = IF listener = "listening" THEN "closed" ELSE listener
  /\ UNCHANGED <<startup, expired, poolOpen, requests>>

\* Faulty variant: context.Background() in place of the ten seconds.
ExpireNever == FALSE /\ UNCHANGED vars

Expire ==
  /\ main = "shutdown" /\ ~ expired
  /\ expired' = TRUE
  /\ UNCHANGED <<startup, main, listener, poolOpen, requests>>

\* Faulty variant: main does not wait for Shutdown.
ShutdownNotAwaited ==
  /\ main = "shutdown"
  /\ main' = "close"
  /\ UNCHANGED <<startup, listener, expired, poolOpen, requests>>

\* Shutdown returns: no connection is left, or its context is done.
ShutdownReturns ==
  /\ main = "shutdown"
  /\ expired \/ \A c \in Clients : state[c] \in {"none", "closed"}
  /\ main' = "close"
  /\ UNCHANGED <<startup, listener, expired, poolOpen, requests>>

\* Faulty variant: main has no defer db.Close().
CloseNothing ==
  /\ main \in {"close", "closing"}
  /\ Exit(0)

\* The deferred db.Close: it waits for every connection in use.
CloseDB ==
  \/ /\ main = "close"
     /\ main' = "closing" /\ poolOpen' = FALSE
     /\ UNCHANGED <<startup, listener, expired, requests>>
  \/ /\ main = "closing" /\ Querying = {}
     /\ Exit(0)

-----------------------------------------------------------------------------
Goto(c, step) == state' = [state EXCEPT ![c] = step]

Ends(c, outcome) ==
  /\ Goto(c, IF main = "wait" /\ outcome = "answered" THEN "idle" ELSE "closed")
  /\ result' = [result EXCEPT ![c] = outcome]

process == <<startup, main, listener, expired>>

Accept(c) ==
  /\ listener = "listening" /\ state[c] = "none"
  /\ Goto(c, "new")
  /\ UNCHANGED <<process, poolOpen, sent, queue, result>>

\* The header of a request has arrived.
ReadHeader(c) ==
  /\ state[c] \in {"new", "idle"}
  /\ Goto(c, "body")
  /\ sent' = [sent EXCEPT ![c] = 0]
  /\ result' = [result EXCEPT ![c] = NULL]
  /\ UNCHANGED <<process, poolOpen, queue>>

\* ReadHeaderTimeout; also Shutdown closes such a connection after 5 seconds.
HeaderTimeout(c) ==
  /\ state[c] = "new"
  /\ Goto(c, "closed")
  /\ UNCHANGED <<process, poolOpen, sent, queue, result>>

\* Shutdown closes idle connections, time and again.
CloseIdle(c) ==
  /\ main = "shutdown" /\ state[c] = "idle"
  /\ Goto(c, "closed")
  /\ UNCHANGED <<process, poolOpen, sent, queue, result>>

\* The handler has read its body; nothing bounds how long that takes.
ReadBody(c) ==
  /\ state[c] = "body"
  /\ Goto(c, "run")
  /\ UNCHANGED <<process, poolOpen, sent, queue, result>>

\* The next statement asks the pool for a connection.
Acquire(c) ==
  /\ state[c] = "run" /\ sent[c] < MaxStatements
  /\ \/ poolOpen /\ Goto(c, "wait") /\ queue' = Append(queue, c)
        /\ UNCHANGED result
     \/ ~ poolOpen /\ Ends(c, "refused") /\ UNCHANGED queue
  /\ UNCHANGED <<process, poolOpen, sent>>

\* Faulty variant: a request keeps its first connection, as a transaction
\* would, while its later statements ask the pool for another.
HeldToTheEnd ==
  Cardinality(Querying)
  + Cardinality({ c \in Clients : Active(c) /\ sent[c] > 0 })

InUse == Cardinality(Querying)

\* The pool serves its waiters in order, and refuses them once it is closed.
Acquired(c) ==
  /\ state[c] = "wait" /\ Head(queue) = c
  /\ queue' = Tail(queue)
  /\ \/ poolOpen /\ InUse < PoolSize /\ Goto(c, "query") /\ UNCHANGED result
     \/ ~ poolOpen /\ Ends(c, "refused")
  /\ UNCHANGED <<process, poolOpen, sent>>

\* The database answers, with rows or an error; the connection is released.
Statement(c) ==
  /\ state[c] = "query"
  /\ Goto(c, "run")
  /\ sent' = [sent EXCEPT ![c] = @ + 1]
  /\ UNCHANGED <<process, poolOpen, queue, result>>

\* The response is sent, after the last statement or on an error; no
\* connection is kept alive during a shutdown.
Respond(c) ==
  /\ state[c] = "run"
  /\ Ends(c, "answered")
  /\ UNCHANGED <<process, poolOpen, sent, queue>>

\* Faulty variant: handlers use context.Background(), which no client cancels.
GoneUnnoticed(c) ==
  /\ state[c] \in Open
  /\ Goto(c, "closed")
  /\ UNCHANGED <<process, poolOpen, sent, queue, result>>

\* The client goes away: r.Context() is cancelled, and a statement under way
\* with it.
ClientGone(c) ==
  /\ state[c] \in Open
  /\ Goto(c, "closed")
  /\ \/ \E i \in DOMAIN queue : queue[i] = c /\ queue' = RemoveAt(queue, i)
     \/ c \notin ToSet(queue) /\ UNCHANGED queue
  /\ UNCHANGED <<process, poolOpen, sent, result>>

\* What a handler does once its body is read.
Handler(c) == Acquire(c) \/ Acquired(c) \/ Statement(c) \/ Respond(c)

Serve(c) ==
  /\ Running
  /\ \/ Accept(c)
     \/ ReadHeader(c)
     \/ HeaderTimeout(c) \/ CloseIdle(c)
     \/ ReadBody(c)
     \/ Handler(c)
     \/ ClientGone(c)

Main ==
  \/ LoadConfig \/ NewPool \/ RunMigrations \/ StartServer
  \/ Shutdown \/ Expire \/ ShutdownReturns \/ CloseDB

Next == Signal \/ Main \/ Listen \/ ListenFails \/ \E c \in Clients : Serve(c)

\* main and the handlers run on, the database answers, the clock goes on; a
\* client need not send the rest of its request, or go away.
Fairness ==
  /\ WF_vars(Main)
  /\ \A c \in Clients : WF_vars(Running /\ Handler(c))

Spec == Init /\ [][Next]_vars

FairSpec == Spec /\ Fairness

-----------------------------------------------------------------------------
(***************************************************************************)
(* A graceful stop: while the ten seconds last no request is refused by a  *)
(* closed pool, cut off or left without its statement's answer, whatever   *)
(* it was doing when the signal came; only log.Fatalf does that.           *)
(***************************************************************************)
GraceProtectsRequests ==
  \A c \in Clients :
    result[c] \in {"refused", "cut", "aborted"} => expired \/ code = 1

(***************************************************************************)
(* Also after the ten seconds an orderly exit aborts no statement: a       *)
(* booking whose insert was sent is known to be made or not.               *)
(***************************************************************************)
OrderlyExitAbortsNothing ==
  code = 0 => \A c \in Clients : result[c] # "aborted"

(***************************************************************************)
(* A signal ends the process, in every phase of the start, with clients    *)
(* that never finish what they send, and with requests that wait.          *)
(***************************************************************************)
SignalEnds == signalled ~> main = "exited"

(***************************************************************************)
(* A request that waits for a connection of the pool gets one or is ended: *)
(* no set of requests holds all of them and waits for more.                *)
(***************************************************************************)
WaitersGoOn == \A c \in Clients : state[c] = "wait" ~> state[c] # "wait"

=============================================================================
