----------------------------- MODULE ServerProofs -----------------------------
(***************************************************************************)
(* The safety of the server's start and end, for any set of connections    *)
(* and any settings that include the two it depends on.                    *)
(***************************************************************************)
EXTENDS ServerProcess, TLAPS

USE SettingsAssumption

Early == {"load", "level", "notify", "migrate", "pool"}
Late  == {"spawn", "wait", "drain", "close"}

(* Where main is tells what there is: no pool early, an open one late, and *)
(* connections only while main waits or drains.                            *)
PlacesInv ==
  /\ main \in Early => pool = "none"
  /\ main \in Late => pool = "open"
  /\ main = "return" => pool = "closed"
  /\ main \in Early \cup {"spawn"} => server = "none"
  /\ main = "ended" => server = "ended"
  /\ server = "serving" => main \in {"wait", "drain"}
  /\ \A c \in Conns : conn[c] \in {"new", "active", "idle"} => main \in {"wait", "drain"}
  /\ main \in {"drain", "close", "return"} => signalled
  /\ exit = "no" <=> main # "ended"
  /\ exit = "ok" => pool = "closed" /\ signalled

(* What Load was given is there until its result has been used, and the    *)
(* result is that of Load.                                                 *)
GivenInv ==
  /\ main \in {"load", "level"} => given \in Givens
  /\ main = "level" => cfg \in Load(given) /\ cfg # Failed

ServerInv == TypeOK /\ PlacesInv /\ GivenInv /\ ExitCodeTells

(* Load returns a text for each key.                                       *)
LEMMA LoadTypes ==
  ASSUME NEW g \in Givens, NEW r \in Load(g)
  PROVE  r \in [Settings -> Texts \cup {"default", Unset}]
<1>1. Failed \in [Settings -> Texts \cup {"default", Unset}]
  BY DEF Failed
<1>2. ASSUME NEW k \in Settings PROVE Setting(g, k) \in Texts \cup {"default", Unset}
  BY DEF Setting, Givens, Texts
<1>3. Unmarshal(g) \in [Settings -> Texts \cup {"default", Unset}]
  BY <1>2 DEF Unmarshal
<1> QED
  BY <1>1, <1>3 DEF Load

(* Nothing is there before main has begun.                                 *)
LEMMA InitServer == Init => ServerInv
  BY DEF Init, ServerInv, TypeOK, PlacesInv, GivenInv, ExitCodeTells, Failed, Early, Late

(* Each of main's steps.                                                   *)
LEMMA MainKeeps ==
  ASSUME ServerInv, Main
  PROVE  ServerInv'
<1> USE DEF ServerInv, TypeOK, PlacesInv, GivenInv, ExitCodeTells, Early, Late, Stop, Fail
<1>1. CASE LoadConfig
  <2>1. cfg' \in [Settings -> Texts \cup {"default", Unset}]
    BY <1>1, LoadTypes DEF LoadConfig
  <2> QED
    BY <1>1, <2>1 DEF LoadConfig
<1>2. CASE SetLogger
  BY <1>2 DEF SetLogger
<1>3. CASE NotifyContext
  BY <1>3 DEF NotifyContext
<1>4. CASE Migrate
  BY <1>4 DEF Migrate
<1>5. CASE NewPool
  BY <1>5 DEF NewPool
<1>6. CASE Spawn
  BY <1>6 DEF Spawn
<1>7. CASE BeginShutdown
  BY <1>7 DEF BeginShutdown
<1>8. CASE ShutdownReturns
  BY <1>8 DEF ShutdownReturns, Drained, CloseIdle
<1>9. CASE ClosePool
  BY <1>9 DEF ClosePool
<1>10. CASE Return
  BY <1>10 DEF Return
<1> QED
  BY <1>1, <1>2, <1>3, <1>4, <1>5, <1>6, <1>7, <1>8, <1>9, <1>10 DEF Main

(* The serving goroutine begins, ends, or ends the process.                *)
LEMMA ServeKeeps ==
  ASSUME ServerInv, Serve
  PROVE  ServerInv'
<1> USE DEF ServerInv, TypeOK, PlacesInv, GivenInv, ExitCodeTells, Early, Late, Stop, Fail
<1>1. CASE Start
  BY <1>1 DEF Start, ShuttingDown
<1>2. CASE ServeReturns
  BY <1>2 DEF ServeReturns, ShuttingDown
<1> QED
  BY <1>1, <1>2 DEF Serve

(* A connection that changes its state while main waits or drains.         *)
LEMMA ConnKeeps ==
  ASSUME ServerInv, NEW c \in Conns, NEW s \in {"new", "active", "idle", "closed"},
         Becomes(c, s),
         s = "closed" \/ main \in {"wait", "drain"}
  PROVE  ServerInv'
  BY DEF ServerInv, TypeOK, PlacesInv, GivenInv, ExitCodeTells, Becomes, Early, Late

(* What clients and Shutdown do to the connections.                        *)
LEMMA ConnsKeep ==
  ASSUME ServerInv, NEW c \in Conns,
         Connect(c) \/ Request(c) \/ Respond(c) \/ Disconnect(c) \/ CloseQuiet(c)
  PROVE  ServerInv'
<1>1. conn[c] \in {"new", "active", "idle"} => main \in {"wait", "drain"}
  BY DEF ServerInv, PlacesInv
<1>2. CASE Connect(c)
  BY <1>2, ConnKeeps DEF Connect, ServerInv, PlacesInv
<1>3. CASE Request(c)
  BY <1>1, <1>3, ConnKeeps DEF Request
<1>4. CASE Respond(c)
  BY <1>1, <1>4, ConnKeeps DEF Respond
<1>5. CASE Disconnect(c) \/ CloseQuiet(c)
  BY <1>5, ConnKeeps DEF Disconnect, CloseQuiet
<1> QED
  BY <1>2, <1>3, <1>4, <1>5

(* A signal kills the process early, later it only ends ctx.               *)
LEMMA SignalKeeps ==
  ASSUME ServerInv, Signal
  PROVE  ServerInv'
  BY DEF Signal, Running, ServerInv, TypeOK, PlacesInv, GivenInv, ExitCodeTells, Early, Late, Stop

(* ServerInv is inductive: one case for each actor.                        *)
LEMMA ServerStep == ServerInv /\ [Next]_vars => ServerInv'
<1> SUFFICES ASSUME ServerInv, [Next]_vars PROVE ServerInv'
  OBVIOUS
<1>1. CASE UNCHANGED vars
  BY <1>1 DEF vars, ServerInv, TypeOK, PlacesInv, GivenInv, ExitCodeTells
<1>2. CASE Ended
  BY <1>2 DEF Ended, vars, ServerInv, TypeOK, PlacesInv, GivenInv, ExitCodeTells
<1> QED
  BY <1>1, <1>2, MainKeeps, ServeKeeps, ConnsKeep, SignalKeeps DEF Next

(* Which of pool, goroutine and connections there are at each point of     *)
(* main.go's main, and that its settings are what Load made of what was    *)
(* given.                                                                  *)
THEOREM ServerInvariance == Spec => []ServerInv
  BY InitServer, ServerStep, PTL DEF Spec

(* All the state of the server stays in range.                             *)
THEOREM ServerTypes == Spec => []TypeOK
  BY ServerInvariance, PTL DEF ServerInv

(* While a request is being served the pool is open, and exit code 0 means *)
(* that it was closed after the last of them.                              *)
THEOREM RequestsHaveThePool == Spec => []PoolOutlivesRequests
<1>1. ServerInv => PoolOutlivesRequests
  BY DEF ServerInv, PlacesInv, PoolOutlivesRequests, Late
<1> QED
  BY <1>1, ServerInvariance, PTL

(* Exit code 1 has a cause outside the program.                            *)
THEOREM ExitCodesTell == Spec => []ExitCodeTells
  BY ServerInvariance, PTL DEF ServerInv

(* The environment wins over file and default for every key the server     *)
(* knows.                                                                  *)
THEOREM EnvironmentPrevails == Spec => []EnvironmentWins
<1>1. ServerInv => EnvironmentWins
  <2> SUFFICES ASSUME ServerInv, main = "level", NEW k \in Settings
               PROVE  IF given.env[k] \in {Unset, ""}
                      THEN cfg[k] = "default" => ~InFile(given, k)
                      ELSE cfg[k] = given.env[k]
    BY DEF EnvironmentWins
  <2>1. cfg = Unmarshal(given)
    BY DEF ServerInv, GivenInv, Load
  <2>2. cfg[k] = Setting(given, k)
    BY <2>1 DEF Unmarshal
  <2>3. given \in Givens
    BY DEF ServerInv, GivenInv
  <2>4. Known(given, k)
    BY DEF Known, SettingsAssumption
  <2>5. InFile(given, k) => given.file[k] \in Texts
    BY <2>3 DEF InFile, Givens
  <2> QED
    BY <2>2, <2>4, <2>5 DEF Setting, Texts
<1> QED
  BY <1>1, ServerInvariance, PTL
=============================================================================
