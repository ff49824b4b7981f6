------------------------------ MODULE EventBus ------------------------------
(***************************************************************************)
(* src/internal/core/events/bus.go: the event bus of one runtime           *)
(* generation.  Publishers are the goroutines that call Publish (plugin    *)
(* tasks, command handlers, the registry on their behalf); every           *)
(* subscription has an unbounded queue, a goroutine run() that moves the   *)
(* queue into the buffered channel the caller reads, and a goroutine that  *)
(* removes the subscription when the caller's context is done.             *)
(*                                                                         *)
(* A step is what one goroutine does between two points where another can  *)
(* be observed: a critical section of s.mu, one channel operation, one     *)
(* acquisition or release of b.mu.  An event is its publisher and its      *)
(* number; type, entity and payload make no difference to the bus.         *)
(*                                                                         *)
(* The operators marked "Variant" are no part of the model: each is an     *)
(* action with a plausible bug in it, by which the properties are tested.  *)
(***************************************************************************)
EXTENDS Naturals, Sequences, FiniteSets

CONSTANTS Publishers,   \* goroutines that publish
          Subs,         \* the subscriptions that Subscribe creates
          Buffer,       \* capacity of the channel Subscribe returns
          MaxEvents     \* bound: events published by each publisher

ASSUME BufferAssumption == Buffer \in Nat \ {0}
ASSUME MaxEventsAssumption == MaxEvents \in Nat

VARIABLES
  subs,       \* b.subs
  ppc,        \* ppc[p]: "idle", or "range" in the loop of Publish, which
              \* holds b.mu for reading
  todo,       \* todo[p]: the subscriptions the loop has not visited yet
  owes,       \* owes[p]: the subscription p has appended to and not signalled
              \* yet, after s.mu.Unlock in enqueue: a set of at most one
  sent,       \* sent[p]: events published so far; the current one is the last
  ctxDone,    \* ctxDone[s]: the subscriber's context is done
  upc,        \* upc[s]: the goroutine waiting for it: "unborn", "watch",
              \* "lock" (blocked in b.mu.Lock), "locked", "gone"
  queue, closed, ready, done,  \* fields of the subscription
  rpc,        \* rpc[s]: where run() is: "next", "wait", "send", "exited"
  hand,       \* hand[s]: the event run() holds, a sequence of length 0 or 1
  events,     \* events[s]: content of the buffered channel
  accepted,   \* history: what enqueue appended to the queue of s, in order
  received    \* history: what the reader of s received, in order

pubVars == <<ppc, todo, owes, sent>>
subVars == <<queue, closed, ready, done, rpc, hand, events>>
vars == <<subs, pubVars, ctxDone, upc, subVars, accepted, received>>

Event == [by : Publishers, n : 1..MaxEvents]
current(p) == [by |-> p, n |-> sent[p]]

Reading == {p \in Publishers : ppc[p] # "idle"}
\* sync.RWMutex: a Lock waits for the readers in progress and keeps new ones out.
CanRLock == \A s \in Subs : upc[s] \notin {"lock", "locked"}
CanLock  == Reading = {} /\ \A s \in Subs : upc[s] # "locked"

Init ==
  /\ subs = {}
  /\ ppc  = [p \in Publishers |-> "idle"]
  /\ todo = [p \in Publishers |-> {}]
  /\ owes = [p \in Publishers |-> {}]
  /\ sent = [p \in Publishers |-> 0]
  /\ ctxDone = [s \in Subs |-> FALSE]
  /\ upc    = [s \in Subs |-> "unborn"]
  /\ queue  = [s \in Subs |-> <<>>]
  /\ closed = [s \in Subs |-> FALSE]
  /\ ready  = [s \in Subs |-> FALSE]
  /\ done   = [s \in Subs |-> FALSE]
  /\ rpc    = [s \in Subs |-> "next"]
  /\ hand   = [s \in Subs |-> <<>>]
  /\ events = [s \in Subs |-> <<>>]
  /\ accepted = [s \in Subs |-> <<>>]
  /\ received = [s \in Subs |-> <<>>]
-----------------------------------------------------------------------------
(* Publish and enqueue *)

\* Publish: b.mu.RLock and the start of the loop over b.subs.
PublishBegin(p) ==
  /\ ppc[p] = "idle"
  /\ CanRLock
  /\ sent[p] < MaxEvents
  /\ sent' = [sent EXCEPT ![p] = @ + 1]
  /\ ppc'  = [ppc EXCEPT ![p] = "range"]
  /\ todo' = [todo EXCEPT ![p] = subs]
  /\ UNCHANGED <<subs, owes, ctxDone, upc, subVars, accepted, received>>

\* enqueue under s.mu: a closed subscription takes nothing and needs no signal.
EnqueueAppend(p, s) ==
  /\ ppc[p] = "range"
  /\ owes[p] = {}
  /\ s \in todo[p]
  /\ LET taken == IF closed[s] THEN <<>> ELSE <<current(p)>>
     IN  /\ queue' = [queue EXCEPT ![s] = @ \o taken]
         /\ accepted' = [accepted EXCEPT ![s] = @ \o taken]
  /\ owes' = [owes EXCEPT ![p] = IF closed[s] THEN {} ELSE {s}]
  /\ todo' = [todo EXCEPT ![p] = @ \ {s}]
  /\ UNCHANGED <<subs, ppc, sent, ctxDone, upc, closed, ready, done, rpc, hand,
                 events, received>>

\* Variant: the send on the ready channel blocks while a token is there.
EnqueueSignalBlocking(p) ==
  /\ \E s \in owes[p] : ~ready[s] /\ ready' = [ready EXCEPT ![s] = TRUE]
  /\ owes' = [owes EXCEPT ![p] = {}]
  /\ UNCHANGED <<subs, ppc, todo, sent, ctxDone, upc, queue, closed, done, rpc,
                 hand, events, accepted, received>>

\* The non-blocking send on the ready channel, whose capacity is 1.
EnqueueSignal(p) ==
  /\ \E s \in owes[p] : ready' = [ready EXCEPT ![s] = TRUE]
  /\ owes' = [owes EXCEPT ![p] = {}]
  /\ UNCHANGED <<subs, ppc, todo, sent, ctxDone, upc, queue, closed, done, rpc,
                 hand, events, accepted, received>>

\* Publish returns: b.mu.RUnlock.
PublishEnd(p) ==
  /\ ppc[p] = "range"
  /\ todo[p] = {}
  /\ owes[p] = {}
  /\ ppc' = [ppc EXCEPT ![p] = "idle"]
  /\ UNCHANGED <<subs, todo, owes, sent, ctxDone, upc, subVars, accepted, received>>
-----------------------------------------------------------------------------
(* Subscribe and the end of a subscription *)

Subscribe(s) ==
  /\ upc[s] = "unborn"
  /\ CanLock
  /\ subs' = subs \cup {s}
  /\ upc' = [upc EXCEPT ![s] = "watch"]
  /\ UNCHANGED <<pubVars, ctxDone, subVars, accepted, received>>

\* The subscriber cancels the context it subscribed with.
Cancel(s) ==
  /\ upc[s] = "watch"
  /\ ~ctxDone[s]
  /\ ctxDone' = [ctxDone EXCEPT ![s] = TRUE]
  /\ UNCHANGED <<subs, pubVars, upc, subVars, accepted, received>>

UnsubscribeWake(s) ==
  /\ upc[s] = "watch"
  /\ ctxDone[s]
  /\ upc' = [upc EXCEPT ![s] = "lock"]
  /\ UNCHANGED <<subs, pubVars, ctxDone, subVars, accepted, received>>

\* Holding b.mu: delete from b.subs, then the s.mu section of close().
UnsubscribeClear(s) ==
  /\ upc[s] = "lock"
  /\ CanLock
  /\ subs' = subs \ {s}
  /\ closed' = [closed EXCEPT ![s] = TRUE]
  /\ queue' = [queue EXCEPT ![s] = <<>>]
  /\ upc' = [upc EXCEPT ![s] = "locked"]
  /\ UNCHANGED <<pubVars, ctxDone, ready, done, rpc, hand, events,
                 accepted, received>>

\* close(s.done) and b.mu.Unlock.
UnsubscribeDone(s) ==
  /\ upc[s] = "locked"
  /\ done' = [done EXCEPT ![s] = TRUE]
  /\ upc' = [upc EXCEPT ![s] = "gone"]
  /\ UNCHANGED <<subs, pubVars, ctxDone, queue, closed, ready, rpc, hand,
                 events, accepted, received>>
-----------------------------------------------------------------------------
(* run: the goroutine of one subscription, and the reader of its channel *)

\* Variant: next() returns the newest event.
RunTakeNewest(s) ==
  /\ upc[s] # "unborn"
  /\ rpc[s] = "next"
  /\ queue[s] # <<>>
  /\ hand' = [hand EXCEPT ![s] = <<queue[s][Len(queue[s])]>>]
  /\ queue' = [queue EXCEPT ![s] = SubSeq(@, 1, Len(@) - 1)]
  /\ rpc' = [rpc EXCEPT ![s] = "send"]
  /\ UNCHANGED <<subs, pubVars, ctxDone, upc, closed, ready, done, events,
                 accepted, received>>

\* next() returns the head of the queue.
RunTake(s) ==
  /\ upc[s] # "unborn"
  /\ rpc[s] = "next"
  /\ queue[s] # <<>>
  /\ hand' = [hand EXCEPT ![s] = <<Head(queue[s])>>]
  /\ queue' = [queue EXCEPT ![s] = Tail(@)]
  /\ rpc' = [rpc EXCEPT ![s] = "send"]
  /\ UNCHANGED <<subs, pubVars, ctxDone, upc, closed, ready, done, events,
                 accepted, received>>

\* next() finds the queue empty; run blocks in its first select.
RunEmpty(s) ==
  /\ upc[s] # "unborn"
  /\ rpc[s] = "next"
  /\ queue[s] = <<>>
  /\ rpc' = [rpc EXCEPT ![s] = "wait"]
  /\ UNCHANGED <<subs, pubVars, ctxDone, upc, queue, closed, ready, done, hand,
                 events, accepted, received>>

RunWake(s) ==
  /\ rpc[s] = "wait"
  /\ ready[s]
  /\ ready' = [ready EXCEPT ![s] = FALSE]
  /\ rpc' = [rpc EXCEPT ![s] = "next"]
  /\ UNCHANGED <<subs, pubVars, ctxDone, upc, queue, closed, done, hand,
                 events, accepted, received>>

\* Variant: a token is taken to stand for one event.
RunSendThenWait(s) ==
  /\ rpc[s] = "send"
  /\ Len(events[s]) < Buffer
  /\ events' = [events EXCEPT ![s] = @ \o hand[s]]
  /\ hand' = [hand EXCEPT ![s] = <<>>]
  /\ rpc' = [rpc EXCEPT ![s] = "wait"]
  /\ UNCHANGED <<subs, pubVars, ctxDone, upc, queue, closed, ready, done,
                 accepted, received>>

\* Variant: the send has a default case, so a full channel drops the event.
RunSendOrDrop(s) ==
  /\ rpc[s] = "send"
  /\ events' = [events EXCEPT ![s] = IF Len(@) < Buffer THEN @ \o hand[s] ELSE @]
  /\ hand' = [hand EXCEPT ![s] = <<>>]
  /\ rpc' = [rpc EXCEPT ![s] = "next"]
  /\ UNCHANGED <<subs, pubVars, ctxDone, upc, queue, closed, ready, done,
                 accepted, received>>

\* The second select: there is room in the channel.
RunSend(s) ==
  /\ rpc[s] = "send"
  /\ Len(events[s]) < Buffer
  /\ events' = [events EXCEPT ![s] = @ \o hand[s]]
  /\ hand' = [hand EXCEPT ![s] = <<>>]
  /\ rpc' = [rpc EXCEPT ![s] = "next"]
  /\ UNCHANGED <<subs, pubVars, ctxDone, upc, queue, closed, ready, done,
                 accepted, received>>

\* Variant: the second select does not watch s.done.
RunExitIdle(s) ==
  /\ rpc[s] = "wait"
  /\ done[s]
  /\ rpc' = [rpc EXCEPT ![s] = "exited"]
  /\ UNCHANGED <<subs, pubVars, ctxDone, upc, queue, closed, ready, done, hand,
                 events, accepted, received>>

\* Either select: s.done is closed; run drops what it holds, closes events.
RunExit(s) ==
  /\ rpc[s] \in {"wait", "send"}
  /\ done[s]
  /\ hand' = [hand EXCEPT ![s] = <<>>]
  /\ rpc' = [rpc EXCEPT ![s] = "exited"]
  /\ UNCHANGED <<subs, pubVars, ctxDone, upc, queue, closed, ready, done,
                 events, accepted, received>>

\* The subscriber receives; it may go on after the channel is closed.
Receive(s) ==
  /\ events[s] # <<>>
  /\ received' = [received EXCEPT ![s] = Append(@, Head(events[s]))]
  /\ events' = [events EXCEPT ![s] = Tail(@)]
  /\ UNCHANGED <<subs, pubVars, ctxDone, upc, queue, closed, ready, done, rpc,
                 hand, accepted>>
-----------------------------------------------------------------------------
PublishStep(p) == \/ PublishBegin(p)
                  \/ \E s \in Subs : EnqueueAppend(p, s)
                  \/ EnqueueSignal(p)
                  \/ PublishEnd(p)

UnsubscribeStep(s) == \/ UnsubscribeWake(s)
                      \/ UnsubscribeClear(s)
                      \/ UnsubscribeDone(s)

RunStep(s) == RunTake(s) \/ RunEmpty(s) \/ RunWake(s) \/ RunSend(s) \/ RunExit(s)

Next == \/ \E p \in Publishers : PublishStep(p)
        \/ \E s \in Subs : \/ Subscribe(s)
                           \/ Cancel(s)
                           \/ UnsubscribeStep(s)
                           \/ RunStep(s)
                           \/ Receive(s)

Spec == Init /\ [][Next]_vars

\* The Go scheduler runs every goroutine that can run.  Nothing is assumed of
\* the readers, of the contexts, or that a publisher publishes at all.
SchedulerFairness ==
  /\ \A p \in Publishers :
       WF_vars((\E s \in Subs : EnqueueAppend(p, s)) \/ EnqueueSignal(p) \/ PublishEnd(p))
  /\ \A s \in Subs : WF_vars(UnsubscribeStep(s)) /\ WF_vars(RunStep(s))

FairSpec == Spec /\ SchedulerFairness
-----------------------------------------------------------------------------
(* Properties *)

TypeOK ==
  /\ subs \subseteq Subs
  /\ ppc  \in [Publishers -> {"idle", "range"}]
  /\ {todo, owes} \subseteq [Publishers -> SUBSET Subs]
  /\ sent \in [Publishers -> 0..MaxEvents]
  /\ upc  \in [Subs -> {"unborn", "watch", "lock", "locked", "gone"}]
  /\ rpc  \in [Subs -> {"next", "wait", "send", "exited"}]
  /\ {ctxDone, closed, ready, done} \subseteq [Subs -> BOOLEAN]
  /\ {queue, events, accepted, received} \subseteq [Subs -> Seq(Event)]
  /\ hand \in [Subs -> {<<>>} \cup {<<e>> : e \in Event}]
  /\ \A s \in Subs : Len(events[s]) <= Buffer /\ (hand[s] = <<>> <=> rpc[s] # "send")

\* Everything on its way from the queue of s to its reader, oldest first.
inTransit(s) == events[s] \o hand[s] \o queue[s]

\* FIFO without loss: as long as its context is not done, what the reader of a
\* subscription received followed by what is still under way is exactly what
\* publishers put into its queue, in that order.  The queue is unbounded and
\* run() moves one event at a time (enqueue, next, run).
NothingLost ==
  \A s \in Subs : ~closed[s] => accepted[s] = received[s] \o inTransit(s)

\* No lost wake-up: run() never sleeps on an open subscription with an event
\* queued unless the ready channel holds a token or a publisher is between its
\* append and its signal (the token is sent after s.mu is released, and the
\* send is dropped when a token is already there).
NoLostWakeup ==
  \A s \in Subs :
    rpc[s] = "wait" /\ queue[s] # <<>> /\ ~closed[s]
      => ready[s] \/ \E p \in Publishers : s \in owes[p]

\* A publish reaches all: when the loop of Publish ends, every subscription then
\* in b.subs has accepted the event, because b.mu is held for reading all along.
PublishReachesAll ==
  \A p \in Publishers : ppc[p] = "range" /\ todo[p] = {} =>
    \A s \in subs : \E i \in 1..Len(accepted[s]) : accepted[s][i] = current(p)

\* No subscription is torn down under a publisher: those the loop has still to
\* visit or to signal are not closed, so no event is accepted after the close
\* and the closed test of enqueue never has to save anything.
NoCloseDuringPublish ==
  \A p \in Publishers : \A s \in todo[p] \cup owes[p] : s \in subs /\ ~closed[s]

\* Publish always returns, whatever the readers do: a slow or dead transport
\* never blocks a plugin (no fairness of Receive is assumed).
PublishReturns == \A p \in Publishers : ppc[p] # "idle" ~> ppc[p] = "idle"

\* The channel of a cancelled subscription is eventually closed, even when its
\* reader has left and its buffer is full.
StreamEnds == \A s \in Subs : ctxDone[s] ~> rpc[s] = "exited"

\* A reader that keeps emptying its channel receives everything accepted for it
\* unless it cancels.
Delivered ==
  \A s \in Subs :
    []<>(events[s] = <<>>) =>
      \A p \in Publishers : \A n \in 1..MaxEvents :
        LET e == [by |-> p, n |-> n]
            In(q) == \E i \in 1..Len(q) : q[i] = e
        IN  In(accepted[s]) ~> (In(received[s]) \/ ctxDone[s])

\* The life of a subscription as its subscriber sees it.
phaseOf(s) == IF upc[s] = "unborn" THEN "none"
              ELSE IF rpc[s] = "exited" THEN "ended"
              ELSE IF closed[s] THEN "closing" ELSE "open"

\* The bus implements the mailboxes of Mailbox.tla.
MB == INSTANCE Mailbox WITH
        Readers <- Subs, Items <- Event,
        phase <- [s \in Subs |-> phaseOf(s)],
        box   <- [s \in Subs |-> inTransit(s)],
        taken <- received

\* Every step of the bus is a step of the mailboxes or leaves them unchanged:
\* what a cancellation throws away is a suffix, and nothing is put after it.
ImplementsMailbox == MB!MailInit /\ [][MB!MailNext]_(MB!mvars)
=============================================================================
