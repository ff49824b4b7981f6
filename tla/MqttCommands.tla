---------------------------- MODULE MqttCommands ----------------------------
(***************************************************************************)
(* The command half of src/internal/transport/mqtt/mqtt.go: the callback   *)
(* of subscribeCommands, commandLoop, one entityCommandLoop per entity that*)
(* has had a command, and the part of Stop that waits for them.            *)
(*                                                                         *)
(* The client calls the callback for one message at a time.  Messages the  *)
(* callback refuses (unknown entity, no JSON) change nothing and are left  *)
(* out.  Of a command only its number matters.                             *)
(*                                                                         *)
(* Operators marked "Variant" are actions with a plausible bug, by which   *)
(* the properties are tested.                                              *)
(***************************************************************************)
EXTENDS Naturals, Sequences, FiniteSets

CONSTANTS Entities,     \* entities that have commands
          Queue,        \* commandQueueCapacity, 128
          EntityQueue,  \* entityCommandQueueCapacity, 16
          MaxCommands   \* bound: commands that come

ASSUME CapacityAssumption == Queue \in Nat \ {0} /\ EntityQueue \in Nat \ {0}
ASSUME BoundAssumption == MaxCommands \in Nat

VARIABLES
  came,      \* commands that came so far
  commands,  \* the channel between callback and commandLoop
  hand,      \* what commandLoop has taken and not handed on yet, at most one
  lpc,       \* commandLoop: "select", "hand", "wait" for the workers, "done"
  wpc,       \* wpc[e]: the worker of e: "none", "select", "handle", "exited"
  queue,     \* queue[e]: the channel of the worker
  busy,      \* busy[e]: the command its handler works on, at most one
  tpc,       \* Stop: "running", "stopping", "stopped", "failed"
  ctxDone    \* the context of the transport is over

loopVars   == <<hand, lpc>>
workerVars == <<wpc, queue, busy>>
stopVars   == <<tpc, ctxDone>>
mqttVars == <<came, commands, loopVars, workerVars, stopVars>>

Command == [id : Entities, n : 1..MaxCommands]

MqttInit ==
  /\ came = 0 /\ commands = <<>>
  /\ hand = <<>> /\ lpc = "select"
  /\ wpc = [e \in Entities |-> "none"]
  /\ queue = [e \in Entities |-> <<>>]
  /\ busy = [e \in Entities |-> <<>>]
  /\ tpc = "running" /\ ctxDone = FALSE
-----------------------------------------------------------------------------
(* The callback *)

\* The command is queued, or dropped by a full queue or a finished context; it
\* comes until the client is disconnected.
Come(e) ==
  /\ came < MaxCommands /\ tpc # "stopped"
  /\ came' = came + 1
  /\ \/ /\ Len(commands) < Queue
        /\ commands' = Append(commands, [id |-> e, n |-> came + 1])
     \/ /\ Len(commands) = Queue \/ ctxDone
        /\ UNCHANGED commands
  /\ UNCHANGED <<loopVars, workerVars, stopVars>>
-----------------------------------------------------------------------------
(* commandLoop *)

\* It takes a command and makes sure that there is a worker.
LoopTake ==
  /\ lpc = "select" /\ commands # <<>>
  /\ LET c == Head(commands)
     IN  /\ hand' = <<c>>
         /\ wpc' = [wpc EXCEPT ![c.id] = IF @ = "none" THEN "select" ELSE @]
  /\ commands' = Tail(commands)
  /\ lpc' = "hand"
  /\ UNCHANGED <<came, queue, busy, stopVars>>

\* Variant: it waits for room in the worker's queue.
LoopHandBlocking ==
  /\ lpc = "hand"
  /\ LET e == hand[1].id
     IN  \/ /\ Len(queue[e]) < EntityQueue
            /\ queue' = [queue EXCEPT ![e] = @ \o hand]
            /\ lpc' = "select"
         \/ /\ ctxDone
            /\ lpc' = "wait"
            /\ UNCHANGED queue
  /\ hand' = <<>>
  /\ UNCHANGED <<came, commands, wpc, busy, stopVars>>

\* Variant: the newest command goes first.
LoopHandFront ==
  /\ lpc = "hand"
  /\ LET e == hand[1].id
     IN  \/ /\ Len(queue[e]) < EntityQueue
            /\ queue' = [queue EXCEPT ![e] = hand \o @]
            /\ lpc' = "select"
         \/ /\ ctxDone
            /\ lpc' = "wait"
            /\ UNCHANGED queue
         \/ /\ Len(queue[e]) = EntityQueue /\ ~ctxDone
            /\ lpc' = "select"
            /\ UNCHANGED queue
  /\ hand' = <<>>
  /\ UNCHANGED <<came, commands, wpc, busy, stopVars>>

\* It hands the command on without waiting, or drops it: when the worker's queue is
\* full, or as it leaves.
LoopHand ==
  /\ lpc = "hand"
  /\ LET e == hand[1].id
     IN  \/ /\ Len(queue[e]) < EntityQueue
            /\ queue' = [queue EXCEPT ![e] = @ \o hand]
            /\ lpc' = "select"
         \/ /\ ctxDone
            /\ lpc' = "wait"
            /\ UNCHANGED queue
         \/ /\ Len(queue[e]) = EntityQueue /\ ~ctxDone
            /\ lpc' = "select"
            /\ UNCHANGED queue
  /\ hand' = <<>>
  /\ UNCHANGED <<came, commands, wpc, busy, stopVars>>

\* On a finished context, which may be taken before the commands that wait.
LoopExit ==
  /\ lpc = "select" /\ ctxDone
  /\ lpc' = "wait"
  /\ UNCHANGED <<came, commands, hand, workerVars, stopVars>>

\* Variant: it does not wait for the workers.
LoopDoneEarly ==
  /\ lpc = "wait"
  /\ lpc' = "done"
  /\ UNCHANGED <<came, commands, hand, workerVars, stopVars>>

\* workerGroup.Wait, close(done).
LoopDone ==
  /\ lpc = "wait"
  /\ \A e \in Entities : wpc[e] \in {"none", "exited"}
  /\ lpc' = "done"
  /\ UNCHANGED <<came, commands, hand, workerVars, stopVars>>

LoopStep == LoopTake \/ LoopHand \/ LoopExit \/ LoopDone
-----------------------------------------------------------------------------
(* entityCommandLoop *)

WorkerTake(e) ==
  /\ wpc[e] = "select" /\ queue[e] # <<>>
  /\ wpc' = [wpc EXCEPT ![e] = "handle"]
  /\ busy' = [busy EXCEPT ![e] = <<Head(queue[e])>>]
  /\ queue' = [queue EXCEPT ![e] = Tail(@)]
  /\ UNCHANGED <<came, commands, loopVars, stopVars>>

\* RouteCommand returns; its error is logged.
WorkerReturn(e) ==
  /\ wpc[e] = "handle"
  /\ wpc' = [wpc EXCEPT ![e] = "select"]
  /\ busy' = [busy EXCEPT ![e] = <<>>]
  /\ UNCHANGED <<came, commands, loopVars, queue, stopVars>>

WorkerExit(e) ==
  /\ wpc[e] = "select" /\ ctxDone
  /\ wpc' = [wpc EXCEPT ![e] = "exited"]
  /\ UNCHANGED <<came, commands, loopVars, queue, busy, stopVars>>
-----------------------------------------------------------------------------
(* Stop *)

\* The context of the agent ends; only then Runtime stops the transport.
Cancel ==
  /\ tpc = "running" /\ ~ctxDone
  /\ ctxDone' = TRUE
  /\ UNCHANGED <<came, commands, loopVars, workerVars, tpc>>

Stop ==
  /\ tpc = "running"
  /\ tpc' = "stopping" /\ ctxDone' = TRUE
  /\ UNCHANGED <<came, commands, loopVars, workerVars>>

StopReturn ==
  /\ tpc = "stopping" /\ lpc = "done"
  /\ tpc' = "stopped"
  /\ UNCHANGED <<ctxDone, came, commands, loopVars, workerVars>>

\* The context of Stop is over first; handlers may still run.
StopTimeout ==
  /\ tpc = "stopping" /\ lpc # "done"
  /\ tpc' = "failed"
  /\ UNCHANGED <<ctxDone, came, commands, loopVars, workerVars>>
-----------------------------------------------------------------------------
MqttNext ==
  \/ LoopStep
  \/ \E e \in Entities : Come(e) \/ WorkerTake(e) \/ WorkerReturn(e) \/ WorkerExit(e)
  \/ Cancel \/ Stop \/ StopReturn \/ StopTimeout

MqttSpec == MqttInit /\ [][MqttNext]_mqttVars

\* Goroutines run.  Handlers need not return, except for those that are promised to.
MqttFairness ==
  /\ WF_mqttVars(LoopStep)
  /\ \A e \in Entities : WF_mqttVars(WorkerTake(e) \/ WorkerExit(e))

MqttFairSpec == MqttSpec /\ MqttFairness
-----------------------------------------------------------------------------
(* Properties *)

\* The numbers of the commands for e in a queue, and of those on their way.
numbers(s, e) == {s[i].n : i \in {j \in DOMAIN s : s[j].id = e}}

onTheWay(e) == numbers(queue[e], e) \cup numbers(hand, e) \cup numbers(commands, e)

\* Besides the types: no queue is longer than its channel, and a command is handed, or
\* waits, only where there is a worker, whose handler agrees with where the worker is.
MqttTypeOK ==
  /\ came \in 0..MaxCommands
  /\ commands \in Seq(Command) /\ Len(commands) <= Queue
  /\ hand \in {<<>>} \cup {<<c>> : c \in Command}
  /\ lpc \in {"select", "hand", "wait", "done"} /\ (hand # <<>> <=> lpc = "hand")
  /\ \A c \in Command : hand = <<c>> => wpc[c.id] # "none"
  /\ wpc \in [Entities -> {"none", "select", "handle", "exited"}]
  /\ queue \in [Entities -> Seq(Command)]
  /\ busy \in [Entities -> {<<>>} \cup {<<c>> : c \in Command}]
  /\ tpc \in {"running", "stopping", "stopped", "failed"}
  /\ ctxDone \in BOOLEAN /\ (tpc # "running" => ctxDone)
  /\ \A e \in Entities : /\ Len(queue[e]) <= EntityQueue
                         /\ wpc[e] = "none" => queue[e] = <<>>
                         /\ busy[e] # <<>> <=> wpc[e] = "handle"

\* Each entity's commands take a lane of their own: in order, one at a time, at most
\* once, across two queues that may overflow, a hand-over and a shutdown.
Lanes == INSTANCE CommandLanes WITH
           Lanes <- Entities,
           lane <- [e \in Entities |-> onTheWay(e)],
           busy <- [e \in Entities |-> numbers(busy[e], e)]

ImplementsLanes == Lanes!LaneInit /\ [][Lanes!LaneNext]_(Lanes!lvars)

\* While a command is handled only later ones for its entity are on their way: so
\* the handlers see an entity's commands in the order they came, each at most once.
OldestFirst ==
  \A e \in Entities : \A n \in numbers(busy[e], e), m \in onTheWay(e) : n < m

\* A transport that was stopped without an error is quiet: no handler of a command is
\* running, and nobody is left who could call one.
QuietAfterStop ==
  tpc = "stopped" => lpc = "done" /\ \A e \in Entities : wpc[e] \in {"none", "exited"}

\* Entities are independent: if the handlers of e return, every command for it is handed
\* to its handler or dropped in the end, even if those of other entities hang.
Independent ==
  \A e \in Entities :
    []<>(busy[e] = <<>>) =>
      \A n \in 1..MaxCommands : n \in onTheWay(e) ~> (n \notin onTheWay(e) \/ ctxDone)
=============================================================================
