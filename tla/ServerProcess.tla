----------------------------- MODULE ServerProcess -----------------------------
(***************************************************************************)
(* The server from start to exit: main, the goroutine that serves, the     *)
(* connections net/http keeps for it, and signals.  Its only handler       *)
(* answers at once, but a client can hold its connection for as long as it *)
(* likes, by sending a body slowly.                                        *)
(***************************************************************************)
EXTENDS ServerConfig

CONSTANT Conns  \* the connections clients may open, each once

VARIABLES
  given, cfg,  \* what Load is given, forgotten after its use; what it returned
  main,        \* where main is
  server,      \* the goroutine that calls e.Start
  conn,        \* the connections as net/http sees them
  pool,        \* the database pool
  signalled,   \* ctx is done
  exit,        \* "no", "ok" for exit code 0, "error" for 1, or "killed"
  failed       \* a call main or its goroutine made has failed

vars == <<given, cfg, main, server, conn, pool, signalled, exit, failed>>

Forgotten == [forgotten |-> TRUE]

Init ==
  /\ given \in Givens /\ cfg = Failed
  /\ main = "load" /\ server = "none"
  /\ conn = [c \in Conns |-> "none"]
  /\ pool = "none"
  /\ signalled = FALSE /\ exit = "no" /\ failed = FALSE

Running == exit = "no"

(* The end of the process takes its goroutines and connections with it; a  *)
(* pool that is open is not closed but lost.                               *)
Stop(code) ==
  /\ exit' = code
  /\ main' = "ended" /\ server' = "ended"
  /\ conn' = [c \in Conns |-> IF conn[c] = "none" THEN "none" ELSE "closed"]

(* A call fails, and os.Exit(1) follows.                                   *)
Fail == Stop("error") /\ failed' = TRUE

-----------------------------------------------------------------------------
(* main.                                                                   *)

LoadConfig ==
  /\ main = "load"
  /\ cfg' \in Load(given)
  /\ IF cfg' = Failed THEN Stop("error") ELSE main' = "level" /\ UNCHANGED <<server, conn, exit>>
  /\ UNCHANGED <<given, pool, signalled, failed>>

SetLogger ==
  /\ main = "level"
  /\ IF LevelOK(cfg) THEN main' = "notify" /\ UNCHANGED <<server, conn, exit>> ELSE Stop("error")
  /\ given' = Forgotten
  /\ UNCHANGED <<cfg, pool, signalled, failed>>

(* From here on SIGTERM and SIGINT only end ctx.                           *)
NotifyContext ==
  /\ main = "notify"
  /\ main' = "migrate"
  /\ UNCHANGED <<given, cfg, server, conn, pool, signalled, exit, failed>>

(* Migrate is not given ctx.                                               *)
Migrate ==
  /\ main = "migrate"
  /\ \/ main' = "pool" /\ UNCHANGED <<server, conn, exit, failed>>
     \/ Fail
  /\ UNCHANGED <<given, cfg, pool, signalled>>

NewPool ==
  /\ main = "pool"
  /\ \/ main' = "spawn" /\ pool' = "open" /\ UNCHANGED <<server, conn, exit, failed>>
     \/ Stop("error") /\ signalled /\ UNCHANGED <<pool, failed>>
     \/ Fail /\ UNCHANGED pool
  /\ UNCHANGED <<given, cfg, signalled>>

Spawn ==
  /\ main = "spawn"
  /\ main' = "wait" /\ server' = "starting"
  /\ UNCHANGED <<given, cfg, conn, pool, signalled, exit, failed>>

(* e.Shutdown begins: it closes the listener.                              *)
BeginShutdown ==
  /\ main = "wait" /\ signalled
  /\ main' = "drain"
  /\ UNCHANGED <<given, cfg, server, conn, pool, signalled, exit, failed>>

\* Slip: Shutdown is not waited for.
NoWait == TRUE

(* Serve has returned and nothing is in progress.                          *)
Drained == server # "serving" /\ \A c \in Conns : conn[c] \notin {"new", "active"}

CloseIdle == [c \in Conns |-> IF conn[c] = "idle" THEN "closed" ELSE conn[c]]

\* Slip: Shutdown is given ctx, which is done, and returns its error.
ShutdownUnderCtx ==
  main = "drain" /\ Stop("error") /\ UNCHANGED <<given, cfg, pool, signalled, failed>>

ShutdownReturns ==
  /\ main = "drain" /\ Drained
  /\ \/ main' = "close" /\ conn' = CloseIdle /\ UNCHANGED <<server, exit, failed>>
     \/ Fail
  /\ UNCHANGED <<given, cfg, pool, signalled>>

(* The deferred ClosePool; then stop, and main returns.                    *)
ClosePool ==
  /\ main = "close"
  /\ pool' = "closed" /\ main' = "return"
  /\ UNCHANGED <<given, cfg, server, conn, signalled, exit, failed>>

Return ==
  /\ main = "return"
  /\ Stop("ok")
  /\ UNCHANGED <<given, cfg, pool, signalled, failed>>

Main ==
  \/ LoadConfig \/ SetLogger \/ NotifyContext \/ Migrate \/ NewPool \/ Spawn
  \/ BeginShutdown \/ ShutdownReturns \/ ClosePool \/ Return

-----------------------------------------------------------------------------
(* The goroutine that serves.                                              *)

ShuttingDown == main \in {"drain", "close", "return"}

(* e.Start: listen, which may fail, then Serve, which notices a Shutdown   *)
(* that was faster.  Any error but ErrServerClosed ends the process.       *)
Start ==
  /\ server = "starting"
  /\ \/ server' = (IF ShuttingDown THEN "ended" ELSE "serving")
        /\ UNCHANGED <<main, conn, exit, failed>>
     \/ Fail
  /\ UNCHANGED <<given, cfg, pool, signalled>>

ServeReturns ==
  /\ server = "serving"
  /\ \/ ShuttingDown /\ server' = "ended" /\ UNCHANGED <<main, conn, exit, failed>>
     \/ Fail
  /\ UNCHANGED <<given, cfg, pool, signalled>>

Serve == Start \/ ServeReturns

-----------------------------------------------------------------------------
(* The connections.                                                        *)

Becomes(c, state) ==
  /\ conn' = [conn EXCEPT ![c] = state]
  /\ UNCHANGED <<given, cfg, main, server, pool, signalled, exit, failed>>

(* Serve may still register a connection that it had accepted when the     *)
(* listener was closed.                                                    *)
Connect(c) == server = "serving" /\ conn[c] = "none" /\ Becomes(c, "new")

Request(c) == conn[c] \in {"new", "idle"} /\ Becomes(c, "active")

\* Slip: the handler takes the connection over, and Shutdown loses sight of it.
Hijack(c) == conn[c] = "active" /\ Becomes(c, "hijacked")

(* The handler has answered and the body has been read.                    *)
Respond(c) == conn[c] = "active" /\ Becomes(c, IF ShuttingDown THEN "closed" ELSE "idle")

Disconnect(c) == conn[c] \in {"new", "active", "idle"} /\ Becomes(c, "closed")

\* Slip: a new connection that sends nothing counts as busy.
CloseOnlyIdle(c) == main = "drain" /\ conn[c] = "idle" /\ Becomes(c, "closed")

(* Shutdown looks at the connections again and again: idle ones it closes, *)
(* and new ones that have sent nothing for some seconds.                   *)
CloseQuiet(c) == main = "drain" /\ conn[c] \in {"new", "idle"} /\ Becomes(c, "closed")

-----------------------------------------------------------------------------
(* A second signal changes nothing: stop() is called on return only.       *)
Signal ==
  /\ Running
  /\ IF main \in {"load", "level", "notify"}
     THEN Stop("killed") /\ UNCHANGED signalled
     ELSE signalled' = TRUE /\ UNCHANGED <<main, server, conn, exit>>
  /\ UNCHANGED <<given, cfg, pool, failed>>

Ended == ~Running /\ UNCHANGED vars

Next ==
  \/ Main \/ Serve
  \/ \E c \in Conns : Connect(c) \/ Request(c) \/ Respond(c) \/ Disconnect(c) \/ CloseQuiet(c)
  \/ Signal \/ Ended

Spec == Init /\ [][Next]_vars

(* Main and the serving goroutine are scheduled, and the calls they make   *)
(* (Load, Migrate, NewPool) return.  Nothing is assumed of clients.        *)
FairSpec == Spec /\ WF_vars(Main) /\ WF_vars(Serve) /\ \A c \in Conns : WF_vars(CloseQuiet(c))

-----------------------------------------------------------------------------
TypeOK ==
  /\ given \in Givens \cup {Forgotten}
  /\ cfg \in [Settings -> Texts \cup {"default", Unset}]
  /\ main \in {"load", "level", "notify", "migrate", "pool", "spawn", "wait", "drain", "close",
               "return", "ended"}
  /\ server \in {"none", "starting", "serving", "ended"}
  /\ conn \in [Conns -> {"none", "new", "active", "idle", "closed"}]
  /\ pool \in {"none", "open", "closed"}
  /\ signalled \in BOOLEAN
  /\ exit \in {"no", "ok", "error", "killed"}
  /\ failed \in BOOLEAN

(* A variable that is set to something wins over the file and the default, *)
(* for every key, whether it has a default or not; and nothing the         *)
(* administrator has set is replaced by a default.                         *)
EnvironmentWins ==
  main = "level" => \A k \in Settings :
    IF given.env[k] \in {Unset, ""}
    THEN cfg[k] = "default" => ~InFile(given, k)
    ELSE cfg[k] = given.env[k]

(* docs/TODO.md:65, drain requests and close the database: as long as a    *)
(* request is being served the pool is open, and exit code 0 means that    *)
(* all of them were answered and the pool was closed.                      *)
PoolOutlivesRequests ==
  /\ \A c \in Conns : conn[c] \in {"new", "active"} => pool = "open"
  /\ exit = "ok" => pool = "closed" /\ signalled

(* Exit code 1 has a cause outside: a bad setting, a failed call, or a     *)
(* signal that came before the pool was there, which makes a wanted stop   *)
(* look like a failure; and it never leaves out closing a pool but for a   *)
(* failed call.                                                            *)
ExitCodeTells ==
  exit = "error" =>
    /\ failed \/ cfg = Failed \/ ~LevelOK(cfg) \/ (signalled /\ pool = "none")
    /\ pool = "open" => failed

(* A signal ends the process, whatever main is doing, unless a client      *)
(* holds a request for ever: Shutdown has no deadline.                     *)
StopsUnlessHeld ==
  signalled ~> (~Running \/ \E c \in Conns : [](conn[c] = "active"))
=============================================================================
