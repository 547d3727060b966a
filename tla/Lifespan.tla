------------------------------ MODULE Lifespan ------------------------------
(***************************************************************************)
(* Startup and shutdown (app.py, container.py): the resources are opened   *)
(* in order and entered on an exit stack, the background workers last; a   *)
(* failure on the way or the end of serving unwinds it.  A collection asks *)
(* RPCN twice from a thread, which cancelling its task does not stop.      *)
(***************************************************************************)
EXTENDS Naturals, Sequences, SequencesExt

CONSTANT PingLimit   \* Redis is pinged no more often than this before startup is given up

ASSUME LifespanAssumption == PingLimit \in Nat \ {0}

VARIABLES
  phase,    \* of the process
  pings,    \* failed pings of Redis
  stack,    \* the exit stack: what is to be closed or cancelled, last first
  worker,   \* background tasks: "off" or "on"
  thread,   \* questions the collector's thread has yet to ask RPCN
  inside,   \* that thread holds the session
  session   \* "none", "ours", or "stray": opened when nobody was to close it

lifevars == <<phase, pings, stack, worker, thread, inside, session>>

\* build_container, and the workers of the lifespan
Resources == <<"database", "rpcn_api", "save_server", "chzzk", "game_server">>
Workers == <<"match-history-collector", "save-capture", "match-event-consumer">>
Collector == Workers[1]

Needs(w) == {"database"} \cup
  (CASE w = Collector -> {"game_server"} [] w = "save-capture" -> {"save_server"} [] OTHER -> {})

IsOpen(r) == r \in ToSet(stack)

LifeInit ==
  /\ phase = "pinging" /\ pings = 0 /\ stack = <<>>
  /\ worker = [w \in ToSet(Workers) |-> "off"]
  /\ thread = 0 /\ inside = FALSE /\ session = "none"

----------------------------------------------------------------------------

\* redis_health_check, before anything else; with the dictionary it passes at once.
Ping ==
  /\ phase = "pinging"
  /\ \/ phase' = "opening" /\ UNCHANGED pings
     \/ pings' = pings + 1 /\ phase' = IF pings' = PingLimit THEN "exited" ELSE phase
  /\ UNCHANGED <<stack, worker, thread, inside, session>>

\* The next resource opens, or fails and takes down what was opened before it.
OpenNext ==
  /\ phase = "opening" /\ Len(stack) < Len(Resources)
  /\ \/ stack' = Append(stack, Resources[Len(stack) + 1]) /\ UNCHANGED phase
     \/ phase' = "closing" /\ UNCHANGED stack
  /\ UNCHANGED <<pings, worker, thread, inside, session>>

\* The workers entered before what they use.
StartWorkersWrong ==
  /\ phase = "opening" /\ stack = Resources
  /\ phase' = "serving"
  /\ stack' = Workers \o stack
  /\ worker' = [w \in ToSet(Workers) |-> "on"]
  /\ UNCHANGED <<pings, thread, inside, session>>

StartWorkers ==
  /\ phase = "opening" /\ stack = Resources
  /\ phase' = "serving"
  /\ stack' = stack \o Workers
  /\ worker' = [w \in ToSet(Workers) |-> "on"]
  /\ UNCHANGED <<pings, thread, inside, session>>

Quit ==
  /\ phase = "serving"
  /\ phase' = "closing"
  /\ UNCHANGED <<pings, stack, worker, thread, inside, session>>

\* The stack unwinds.  A worker is cancelled, its thread goes on; the game server
\* waits for whoever holds the session and disconnects it (SharedRpcnClient.shutdown).
Unwind ==
  /\ phase = "closing" /\ stack # <<>>
  /\ LET x == Last(stack) IN
       /\ worker' = IF x \in DOMAIN worker THEN [worker EXCEPT ![x] = "off"] ELSE worker
       /\ x = "game_server" => ~inside
       /\ session' = IF x = "game_server" THEN "none" ELSE session
  /\ stack' = Front(stack)
  /\ UNCHANGED <<phase, pings, thread, inside>>

Stop ==
  /\ phase = "closing" /\ stack = <<>>
  /\ phase' = "exited"
  /\ UNCHANGED <<pings, stack, worker, thread, inside, session>>

----------------------------------------------------------------------------
(* A collection *)

\* asyncio.to_thread: the tree of worlds is asked for, then the rooms.
Collect ==
  /\ worker[Collector] = "on" /\ thread = 0
  /\ thread' = 2
  /\ UNCHANGED <<phase, pings, stack, worker, inside, session>>

\* api_client connects on first use.
TakeSession ==
  /\ thread > 0 /\ ~inside
  /\ inside' = TRUE
  /\ session' = IF session # "none" THEN session ELSE IF IsOpen("game_server") THEN "ours" ELSE "stray"
  /\ UNCHANGED <<phase, pings, stack, worker, thread>>

\* An answer, or a failure that ends the collection and the session with it.
LeaveSession ==
  /\ inside
  /\ inside' = FALSE
  /\ \/ thread' = thread - 1 /\ UNCHANGED session
     \/ thread' = 0 /\ session' = "none"
  /\ UNCHANGED <<phase, pings, stack, worker>>

LifeNext ==
  \/ Ping \/ OpenNext \/ StartWorkers \/ Quit \/ Unwind \/ Stop
  \/ Collect \/ TakeSession \/ LeaveSession

LifeSpec == LifeInit /\ [][LifeNext]_lifevars

----------------------------------------------------------------------------
(* Properties *)

\* Workers "are cancelled before anything they read from closes", and "a failure
\* part-way closes exactly what was opened before it": what is open is always a
\* beginning of the order of opening, a running task finds everything it needs, and
\* at the end nothing is left.  The one thing that may outlive it all is a session
\* that the thread of a cancelled collection has opened after the game server closed.
ClosedInOrder ==
  /\ IsPrefix(stack, Resources \o Workers)
  /\ \A w \in DOMAIN worker : worker[w] = "on" => \A r \in Needs(w) : IsOpen(r)
  /\ session = "ours" => IsOpen("game_server")
  /\ phase = "exited" => stack = <<>> /\ \A w \in DOMAIN worker : worker[w] = "off"
=============================================================================
