-------------------------- MODULE EventBus_proofs --------------------------
(***************************************************************************)
(* Theorems about EventBus for any publishers, subscriptions, buffer size  *)
(* and number of events.                                                   *)
(***************************************************************************)
EXTENDS EventBus, SequenceTheorems, TLAPS

\* A publisher in the loop has an event and owes at most one signal; outside
\* the loop it visits nobody and owes nothing.
PublisherInv ==
  \A p \in Publishers :
    /\ IF ppc[p] = "range" THEN sent[p] # 0 ELSE todo[p] = {} /\ owes[p] = {}
    /\ \A s, t \in owes[p] : s = t

TypeInv == TypeOK /\ PublisherInv

LEMMA TypeInit == Init => TypeInv
  BY BufferAssumption, MaxEventsAssumption DEF Init, TypeInv, TypeOK, PublisherInv, Event

LEMMA TypeStep == TypeInv /\ [Next]_vars => TypeInv'
<1> SUFFICES ASSUME TypeInv, [Next]_vars PROVE TypeInv'
  OBVIOUS
<1> USE BufferAssumption, MaxEventsAssumption
        DEF TypeInv, TypeOK, PublisherInv, pubVars, subVars
<1>1. ASSUME NEW p \in Publishers, PublishBegin(p) PROVE TypeInv'
  BY <1>1 DEF PublishBegin
<1>2. ASSUME NEW p \in Publishers, NEW s \in Subs, EnqueueAppend(p, s) PROVE TypeInv'
  <2>1. current(p) \in Event
    BY <1>2 DEF EnqueueAppend, current, Event
  <2>2. QED
    BY <1>2, <2>1 DEF EnqueueAppend
<1>3. ASSUME NEW p \in Publishers, EnqueueSignal(p) PROVE TypeInv'
  <2>1. PICK s \in Subs : ready' = [ready EXCEPT ![s] = TRUE]
    BY <1>3 DEF EnqueueSignal
  <2>2. ready' \in [Subs -> BOOLEAN]
    BY <2>1
  <2>3. owes' \in [Publishers -> SUBSET Subs]
    BY <1>3 DEF EnqueueSignal
  <2>4. QED
    BY <1>3, <2>2, <2>3 DEF EnqueueSignal
<1>4. ASSUME NEW p \in Publishers, PublishEnd(p) PROVE TypeInv'
  BY <1>4 DEF PublishEnd
<1>5. ASSUME NEW s \in Subs, Subscribe(s) PROVE TypeInv'
  BY <1>5 DEF Subscribe
<1>6. ASSUME NEW s \in Subs, Cancel(s) PROVE TypeInv'
  BY <1>6 DEF Cancel
<1>7. ASSUME NEW s \in Subs, UnsubscribeStep(s) PROVE TypeInv'
  <2>1. CASE UnsubscribeWake(s)
    BY <2>1 DEF UnsubscribeWake
  <2>2. CASE UnsubscribeClear(s)
    BY <2>2 DEF UnsubscribeClear
  <2>3. CASE UnsubscribeDone(s)
    BY <2>3 DEF UnsubscribeDone
  <2>4. QED
    BY <1>7, <2>1, <2>2, <2>3 DEF UnsubscribeStep
<1>8. ASSUME NEW s \in Subs, RunTake(s) PROVE TypeInv'
  <2>1. Head(queue[s]) \in Event /\ Tail(queue[s]) \in Seq(Event)
    BY <1>8, HeadTailProperties DEF RunTake
  <2>2. QED
    BY <1>8, <2>1 DEF RunTake
<1>9. ASSUME NEW s \in Subs, RunEmpty(s) \/ RunWake(s) PROVE TypeInv'
  <2>1. CASE RunEmpty(s)
    BY <2>1 DEF RunEmpty
  <2>2. CASE RunWake(s)
    BY <2>2 DEF RunWake
  <2>3. QED
    BY <1>9, <2>1, <2>2
<1>10. ASSUME NEW s \in Subs, RunSend(s) PROVE TypeInv'
  <2>1. PICK e \in Event : hand[s] = <<e>>
    BY <1>10 DEF RunSend
  <2>2. events[s] \o <<e>> \in Seq(Event) /\ Len(events[s] \o <<e>>) = Len(events[s]) + 1
    BY <2>1
  <2>3. Len(events[s]) + 1 <= Buffer
    BY <1>10 DEF RunSend
  <2>4. QED
    BY <1>10, <2>1, <2>2, <2>3 DEF RunSend
<1>11. ASSUME NEW s \in Subs, RunExit(s) PROVE TypeInv'
  BY <1>11 DEF RunExit
<1>12. ASSUME NEW s \in Subs, Receive(s) PROVE TypeInv'
  <2>1. /\ Head(events[s]) \in Event
        /\ Tail(events[s]) \in Seq(Event)
        /\ Len(Tail(events[s])) = Len(events[s]) - 1
    BY <1>12, HeadTailProperties DEF Receive
  <2>2. QED
    BY <1>12, <2>1 DEF Receive
<1>13. CASE UNCHANGED vars
  BY <1>13 DEF vars
<1>14. QED
  BY <1>1, <1>2, <1>3, <1>4, <1>5, <1>6, <1>7, <1>8, <1>9, <1>10, <1>11, <1>12,
     <1>13 DEF Next, PublishStep, RunStep

\* Every variable keeps its type: a channel never holds more than its buffer,
\* and run() holds an event exactly while it sends one.
THEOREM TypeCorrect == Spec => []TypeOK
<1>1. TypeInv => TypeOK
  BY DEF TypeInv
<1>2. QED
  BY TypeInit, TypeStep, <1>1, PTL DEF Spec

LEMMA CurrentEvent ==
  ASSUME TypeInv, NEW p \in Publishers, ppc[p] = "range"
  PROVE  current(p) \in Event
  BY DEF TypeInv, TypeOK, PublisherInv, current, Event

LEMMA TypeInvariant == Spec => []TypeInv
  BY TypeInit, TypeStep, PTL DEF Spec
-----------------------------------------------------------------------------
(* b.mu.  A publisher in its loop and an unsubscription exclude each other, *)
(* b.subs holds exactly the open subscriptions, only the runner of a closed *)
(* one exits, and the queue of a closed one stays empty.                    *)

LockInv ==
  /\ \A p \in Publishers : ppc[p] = "range" => \A s \in Subs : upc[s] # "locked"
  /\ \A p \in Publishers : todo[p] \cup owes[p] \subseteq subs
  /\ \A s \in Subs :
       /\ s \in subs <=> upc[s] \in {"watch", "lock"}
       /\ closed[s] <=> upc[s] \in {"locked", "gone"}
       /\ done[s] => closed[s]
       /\ rpc[s] = "exited" => done[s]
       /\ upc[s] = "unborn" => rpc[s] = "next"
       /\ closed[s] => queue[s] = <<>>

LEMMA LockInit == Init => LockInv
  BY DEF Init, LockInv

LEMMA LockStep == TypeInv /\ LockInv /\ [Next]_vars => LockInv'
<1> SUFFICES ASSUME TypeInv, LockInv, [Next]_vars PROVE LockInv'
  OBVIOUS
<1> USE DEF TypeInv, TypeOK, PublisherInv, LockInv, pubVars, subVars
<1>1. ASSUME NEW p \in Publishers, PublishBegin(p) PROVE LockInv'
  BY <1>1 DEF PublishBegin, CanRLock
<1>2. ASSUME NEW p \in Publishers, NEW s \in Subs, EnqueueAppend(p, s) PROVE LockInv'
  BY <1>2 DEF EnqueueAppend
<1>3. ASSUME NEW p \in Publishers, EnqueueSignal(p) PROVE LockInv'
  BY <1>3 DEF EnqueueSignal
<1>4. ASSUME NEW p \in Publishers, PublishEnd(p) PROVE LockInv'
  BY <1>4 DEF PublishEnd
<1>5. ASSUME NEW s \in Subs, Subscribe(s) PROVE LockInv'
  BY <1>5 DEF Subscribe
<1>6. ASSUME NEW s \in Subs, Cancel(s) PROVE LockInv'
  BY <1>6 DEF Cancel
<1>7. ASSUME NEW s \in Subs, UnsubscribeWake(s) PROVE LockInv'
  BY <1>7 DEF UnsubscribeWake
<1>8. ASSUME NEW s \in Subs, UnsubscribeClear(s) PROVE LockInv'
  <2>1. \A p \in Publishers : ppc[p] = "idle" /\ todo[p] = {} /\ owes[p] = {}
    BY <1>8 DEF UnsubscribeClear, CanLock, Reading
  <2>2. QED
    BY <1>8, <2>1 DEF UnsubscribeClear
<1>9. ASSUME NEW s \in Subs, UnsubscribeDone(s) PROVE LockInv'
  BY <1>9 DEF UnsubscribeDone
<1>10. ASSUME NEW s \in Subs, RunTake(s) PROVE LockInv'
  BY <1>10 DEF RunTake
<1>11. ASSUME NEW s \in Subs, RunEmpty(s) PROVE LockInv'
  BY <1>11 DEF RunEmpty
<1>12. ASSUME NEW s \in Subs, RunWake(s) PROVE LockInv'
  BY <1>12 DEF RunWake
<1>13. ASSUME NEW s \in Subs, RunSend(s) PROVE LockInv'
  BY <1>13 DEF RunSend
<1>14. ASSUME NEW s \in Subs, RunExit(s) PROVE LockInv'
  BY <1>14 DEF RunExit
<1>15. ASSUME NEW s \in Subs, Receive(s) PROVE LockInv'
  BY <1>15 DEF Receive
<1>16. CASE UNCHANGED vars
  BY <1>16 DEF vars
<1>17. QED
  BY <1>1, <1>2, <1>3, <1>4, <1>5, <1>6, <1>7, <1>8, <1>9, <1>10, <1>11, <1>12,
     <1>13, <1>14, <1>15, <1>16 DEF Next, PublishStep, UnsubscribeStep, RunStep

LEMMA LockInvariant == Spec => [](TypeInv /\ LockInv)
<1>1. Init => LockInv
  BY LockInit
<1>2. QED
  BY <1>1, TypeInvariant, LockStep, PTL DEF Spec

\* No subscription a publisher has still to visit or to signal is closed, and
\* none leaves b.subs: b.mu keeps unsubscriptions out of the loop of Publish.
THEOREM NeverClosedUnderPublisher == Spec => []NoCloseDuringPublish
<1>1. TypeInv /\ LockInv => NoCloseDuringPublish
  BY DEF TypeInv, TypeOK, LockInv, NoCloseDuringPublish
<1>2. QED
  BY <1>1, LockInvariant, PTL
-----------------------------------------------------------------------------
(* The wake-up protocol of enqueue and run. *)

\* An exited or a not yet started runner does not wait, and an empty queue or a
\* queue with a publisher about to signal is no concern: the invariant is
\* inductive with the facts about b.mu.
LEMMA WakeupStep ==
  TypeInv /\ LockInv /\ NoLostWakeup /\ [Next]_vars => NoLostWakeup'
<1> SUFFICES ASSUME TypeInv, LockInv, NoLostWakeup, [Next]_vars PROVE NoLostWakeup'
  OBVIOUS
<1> USE DEF TypeInv, TypeOK, PublisherInv, LockInv, NoLostWakeup, pubVars, subVars
<1>1. ASSUME NEW p \in Publishers, PublishBegin(p) PROVE NoLostWakeup'
  BY <1>1 DEF PublishBegin
<1>2. ASSUME NEW p \in Publishers, NEW s \in Subs, EnqueueAppend(p, s)
      PROVE NoLostWakeup'
  \* p owes s the signal for what it has appended.
  <2> SUFFICES ASSUME NEW t \in Subs, rpc'[t] = "wait", queue'[t] # <<>>, ~closed'[t]
               PROVE  ready'[t] \/ \E q \in Publishers : t \in owes'[q]
    OBVIOUS
  <2>a. s \in todo[p] /\ ~closed[s]
    BY <1>2 DEF EnqueueAppend
  <2>b. owes' = [owes EXCEPT ![p] = {s}]
    BY <1>2, <2>a DEF EnqueueAppend
  <2>c. s \in owes'[p]
    BY <2>b
  <2>1. closed' = closed /\ ready' = ready /\ rpc' = rpc
    BY <1>2 DEF EnqueueAppend
  <2>2. CASE t = s
    BY <2>c, <2>2
  <2>3. CASE t # s
    <3>1. queue'[t] = queue[t]
      BY <1>2, <2>3 DEF EnqueueAppend
    <3>2. \A q \in Publishers : t \in owes[q] => t \in owes'[q]
      BY <1>2 DEF EnqueueAppend
    <3>3. QED
      BY <2>1, <3>1, <3>2
  <2>4. QED
    BY <2>2, <2>3
<1>3. ASSUME NEW p \in Publishers, EnqueueSignal(p) PROVE NoLostWakeup'
  \* Whoever p owed a signal has a token; the others are owed by somebody else.
  <2> SUFFICES ASSUME NEW t \in Subs, rpc'[t] = "wait", queue'[t] # <<>>, ~closed'[t]
               PROVE  ready'[t] \/ \E q \in Publishers : t \in owes'[q]
    OBVIOUS
  <2>a. PICK s \in owes[p] : ready' = [ready EXCEPT ![s] = TRUE]
    BY <1>3 DEF EnqueueSignal
  <2>b. owes[p] \subseteq {s}
    BY <2>a
  <2>1. s \in Subs /\ owes[p] = {s} /\ ready' = [ready EXCEPT ![s] = TRUE]
    BY <2>a, <2>b
  <2>2. queue' = queue /\ rpc' = rpc /\ closed' = closed /\ owes' = [owes EXCEPT ![p] = {}]
    BY <1>3 DEF EnqueueSignal
  <2>3. CASE t = s
    BY <2>1, <2>3
  <2>4. CASE t # s
    <3>1. ready'[t] = ready[t]
      BY <2>1, <2>4
    <3>2. \A q \in Publishers : t \in owes[q] => t \in owes'[q]
      BY <2>1, <2>2, <2>4
    <3>3. QED
      BY <2>2, <3>1, <3>2
  <2>5. QED
    BY <2>3, <2>4
<1>4. ASSUME NEW p \in Publishers, PublishEnd(p) PROVE NoLostWakeup'
  BY <1>4 DEF PublishEnd
<1>5. ASSUME NEW s \in Subs, Subscribe(s) PROVE NoLostWakeup'
  BY <1>5 DEF Subscribe
<1>6. ASSUME NEW s \in Subs, Cancel(s) PROVE NoLostWakeup'
  BY <1>6 DEF Cancel
<1>7. ASSUME NEW s \in Subs, UnsubscribeWake(s) PROVE NoLostWakeup'
  BY <1>7 DEF UnsubscribeWake
<1>8. ASSUME NEW s \in Subs, UnsubscribeClear(s) PROVE NoLostWakeup'
  BY <1>8 DEF UnsubscribeClear
<1>9. ASSUME NEW s \in Subs, UnsubscribeDone(s) PROVE NoLostWakeup'
  BY <1>9 DEF UnsubscribeDone
<1>10. ASSUME NEW s \in Subs, RunTake(s) PROVE NoLostWakeup'
  BY <1>10 DEF RunTake
<1>11. ASSUME NEW s \in Subs, RunEmpty(s) PROVE NoLostWakeup'
  BY <1>11 DEF RunEmpty
<1>12. ASSUME NEW s \in Subs, RunWake(s) PROVE NoLostWakeup'
  BY <1>12 DEF RunWake
<1>13. ASSUME NEW s \in Subs, RunSend(s) PROVE NoLostWakeup'
  BY <1>13 DEF RunSend
<1>14. ASSUME NEW s \in Subs, RunExit(s) PROVE NoLostWakeup'
  BY <1>14 DEF RunExit
<1>15. ASSUME NEW s \in Subs, Receive(s) PROVE NoLostWakeup'
  BY <1>15 DEF Receive
<1>16. CASE UNCHANGED vars
  BY <1>16 DEF vars
<1>17. QED
  BY <1>1, <1>2, <1>3, <1>4, <1>5, <1>6, <1>7, <1>8, <1>9, <1>10, <1>11, <1>12,
     <1>13, <1>14, <1>15, <1>16 DEF Next, PublishStep, UnsubscribeStep, RunStep

\* run() never sleeps on an open subscription whose queue is not empty unless a
\* token is in the ready channel or a publisher is about to send one.
THEOREM WakeupsAreNotLost == Spec => []NoLostWakeup
<1>1. Init => NoLostWakeup
  BY DEF Init, NoLostWakeup
<1>2. QED
  BY <1>1, LockInvariant, WakeupStep, PTL DEF Spec
-----------------------------------------------------------------------------
(* How an event travels from the queue to the reader: sequences only.  Cat   *)
(* is concatenation under a name that the provers rewrite by its laws alone. *)

Cat(a, b) == a \o b

LEMMA CatType ==
  ASSUME NEW a \in Seq(Event), NEW b \in Seq(Event)
  PROVE  Cat(a, b) \in Seq(Event)
  BY DEF Cat

LEMMA CatAssociative ==
  ASSUME NEW a \in Seq(Event), NEW b \in Seq(Event), NEW c \in Seq(Event)
  PROVE  Cat(Cat(a, b), c) = Cat(a, Cat(b, c))
  BY DEF Cat

LEMMA CatEmpty ==
  ASSUME NEW a \in Seq(Event)
  PROVE  Cat(a, <<>>) = a /\ Cat(<<>>, a) = a
  BY DEF Cat

LEMMA HeadThenTail ==
  ASSUME NEW a \in Seq(Event), a # <<>>
  PROVE  /\ <<Head(a)>> \in Seq(Event) /\ Tail(a) \in Seq(Event)
         /\ a = Cat(<<Head(a)>>, Tail(a))
<1>1. Head(a) \in Event /\ Tail(a) \in Seq(Event) /\ <<Head(a)>> \in Seq(Event)
  BY HeadTailProperties
<1>2. /\ Len(a) = Len(<<Head(a)>> \o Tail(a))
      /\ <<Head(a)>> \o Tail(a) \in Seq(Event)
  BY <1>1, HeadTailProperties, ConcatProperties, LenProperties
<1>3. \A i \in 1..Len(a) : a[i] = (<<Head(a)>> \o Tail(a))[i]
  BY <1>1, HeadTailProperties, ConcatProperties, LenProperties
<1>4. QED
  BY <1>1, <1>2, <1>3, SeqEqual DEF Cat

\* Appending at the back of the queue appends at the back of everything.
LEMMA AppendAtBack ==
  ASSUME NEW r \in Seq(Event), NEW e \in Seq(Event), NEW h \in Seq(Event),
         NEW q \in Seq(Event), NEW x \in Seq(Event)
  PROVE  /\ Cat(Cat(e, h), Cat(q, x)) = Cat(Cat(Cat(e, h), q), x)
         /\ Cat(r, Cat(Cat(e, h), Cat(q, x))) = Cat(Cat(r, Cat(Cat(e, h), q)), x)
<1>1. Cat(Cat(e, h), Cat(q, x)) = Cat(Cat(Cat(e, h), q), x)
  BY CatType, CatAssociative
<1>2. Cat(r, Cat(Cat(e, h), Cat(q, x))) = Cat(Cat(r, Cat(Cat(e, h), q)), x)
  BY CatType, CatAssociative
<1>3. QED
  BY <1>1, <1>2

\* Taking the head of the queue into an empty hand changes nothing in transit.
LEMMA TakeIntoHand ==
  ASSUME NEW e \in Seq(Event), NEW q \in Seq(Event), q # <<>>
  PROVE  Cat(Cat(e, <<>>), q) = Cat(Cat(e, <<Head(q)>>), Tail(q))
<1>1. PICK x, t \in Seq(Event) : x = <<Head(q)>> /\ t = Tail(q) /\ q = Cat(x, t)
  BY HeadThenTail, Zenon
<1>2. Cat(Cat(e, <<>>), Cat(x, t)) = Cat(Cat(e, x), t)
  BY CatType, CatAssociative, CatEmpty
<1>3. QED
  BY <1>1, <1>2, Zenon

\* Sending from the hand changes nothing in transit.
LEMMA SendFromHand ==
  ASSUME NEW e \in Seq(Event), NEW h \in Seq(Event), NEW q \in Seq(Event)
  PROVE  Cat(Cat(Cat(e, h), <<>>), q) = Cat(Cat(e, h), q)
  BY CatType, CatEmpty

\* A receive moves the oldest event in transit to what was received.
LEMMA ReceiveOldest ==
  ASSUME NEW r \in Seq(Event), NEW x \in Seq(Event), NEW t \in Seq(Event),
         NEW h \in Seq(Event), NEW q \in Seq(Event)
  PROVE  /\ Cat(Cat(Cat(x, t), h), q) = Cat(x, Cat(Cat(t, h), q))
         /\ Cat(Cat(r, x), Cat(Cat(t, h), q)) = Cat(r, Cat(Cat(Cat(x, t), h), q))
<1>1. Cat(Cat(Cat(x, t), h), q) = Cat(x, Cat(Cat(t, h), q))
  BY CatType, CatAssociative
<1>2. Cat(Cat(r, x), Cat(Cat(t, h), q)) = Cat(r, Cat(Cat(Cat(x, t), h), q))
  BY <1>1, CatType, CatAssociative
<1>3. QED
  BY <1>1, <1>2

LEMMA AppendHead ==
  ASSUME NEW r \in Seq(Event), NEW e \in Seq(Event), e # <<>>
  PROVE  Append(r, Head(e)) = Cat(r, <<Head(e)>>)
<1>1. Head(e) \in Event
  BY HeadTailProperties
<1>2. QED
  BY <1>1, AppendIsConcat DEF Cat

LEMMA InTransit ==
  ASSUME NEW s \in Subs
  PROVE  /\ inTransit(s) = Cat(Cat(events[s], hand[s]), queue[s])
         /\ inTransit(s)' = Cat(Cat(events'[s], hand'[s]), queue'[s])
  BY DEF inTransit, Cat
LEMMA FieldTypes ==
  ASSUME TypeInv, NEW t \in Subs
  PROVE  /\ hand[t] \in Seq(Event) /\ events[t] \in Seq(Event)
         /\ queue[t] \in Seq(Event) /\ received[t] \in Seq(Event)
<1>1. \A e \in Event : <<e>> \in Seq(Event)
  OBVIOUS
<1>2. <<>> \in Seq(Event)
  OBVIOUS
<1>3. hand[t] \in {<<>>} \cup {<<e>> : e \in Event}
  BY DEF TypeInv, TypeOK
<1>4. hand[t] \in Seq(Event)
  BY <1>1, <1>2, <1>3
<1>5. QED
  BY <1>4 DEF TypeInv, TypeOK

\* run() moves an event from the queue to its hand and from there to the channel
\* without changing what is in transit.
LEMMA StillInTransit ==
  ASSUME TypeInv, NEW s \in Subs, RunTake(s) \/ RunSend(s), NEW t \in Subs
  PROVE  inTransit(t)' = inTransit(t)
<1>0. /\ hand[t] \in Seq(Event) /\ events[t] \in Seq(Event) /\ queue[t] \in Seq(Event)
  BY FieldTypes
<1>1. CASE t # s
  <2>1. /\ events \in [Subs -> Seq(Event)] /\ queue \in [Subs -> Seq(Event)]
        /\ \E H : hand \in [Subs -> H]
    BY DEF TypeInv, TypeOK
  <2>2. /\ UNCHANGED events \/ events' = [events EXCEPT ![s] = @ \o hand[s]]
        /\ UNCHANGED queue \/ queue' = [queue EXCEPT ![s] = Tail(@)]
        /\ \E h : hand' = [hand EXCEPT ![s] = h]
    BY DEF RunTake, RunSend
  <2>3. events'[t] = events[t] /\ queue'[t] = queue[t] /\ hand'[t] = hand[t]
    BY <1>1, <2>1, <2>2
  <2>4. QED
    BY <2>3 DEF inTransit
<1>2. CASE t = s /\ RunTake(s)
  <2>1. /\ hand[t] = <<>> /\ queue[t] # <<>>
        /\ hand'[t] = <<Head(queue[t])>> /\ queue'[t] = Tail(queue[t])
        /\ events' = events
    BY <1>2 DEF RunTake, TypeInv, TypeOK
  <2>2. Cat(Cat(events[t], <<>>), queue[t])
          = Cat(Cat(events[t], <<Head(queue[t])>>), Tail(queue[t]))
    BY <1>0, <2>1, TakeIntoHand, Zenon
  <2>3. QED
    BY <2>1, <2>2, InTransit, Zenon
<1>3. CASE t = s /\ RunSend(s)
  <2>1. /\ hand'[t] = <<>> /\ queue' = queue /\ events'[t] = Cat(events[t], hand[t])
    BY <1>3 DEF RunSend, TypeInv, TypeOK, Cat
  <2>2. Cat(Cat(Cat(events[t], hand[t]), <<>>), queue[t])
          = Cat(Cat(events[t], hand[t]), queue[t])
    BY <1>0, SendFromHand, Zenon
  <2>3. QED
    BY <2>1, <2>2, InTransit, Zenon
<1>4. QED
  BY <1>1, <1>2, <1>3
-----------------------------------------------------------------------------
(* FIFO without loss. *)

LEMMA NothingLostStep ==
  TypeInv /\ LockInv /\ NothingLost /\ [Next]_vars => NothingLost'
<1> SUFFICES ASSUME TypeInv, LockInv, NothingLost, [Next]_vars,
                    NEW t \in Subs, ~closed'[t]
             PROVE  accepted'[t] = Cat(received'[t], inTransit(t)')
  BY DEF NothingLost, Cat
<1> DEFINE Same == /\ closed'[t] = closed[t]
                   /\ accepted'[t] = accepted[t]
                   /\ received'[t] = received[t]
                   /\ inTransit(t)' = inTransit(t)
<1>a. ASSUME Same PROVE accepted'[t] = Cat(received'[t], inTransit(t)')
  BY <1>a DEF NothingLost, Cat
<1>b. /\ hand[t] \in Seq(Event) /\ events[t] \in Seq(Event) /\ queue[t] \in Seq(Event)
      /\ received[t] \in Seq(Event)
  BY FieldTypes
<1> USE DEF pubVars, subVars
<1>1. ASSUME NEW p \in Publishers, PublishBegin(p) PROVE Same
  BY <1>1 DEF PublishBegin, inTransit
<1>2. ASSUME NEW p \in Publishers, NEW s \in Subs, EnqueueAppend(p, s), t = s
      PROVE  accepted'[t] = Cat(received'[t], inTransit(t)')
  <2>1. ~closed[t] /\ current(p) \in Event
    BY <1>2 DEF EnqueueAppend, TypeInv, TypeOK, PublisherInv, current, Event
  <2>2. /\ queue'[t] = Cat(queue[t], <<current(p)>>)
        /\ accepted'[t] = Cat(accepted[t], <<current(p)>>)
        /\ events' = events /\ hand' = hand /\ received' = received
    BY <1>2, <2>1 DEF EnqueueAppend, TypeInv, TypeOK, Cat
  <2>3. accepted[t] = Cat(received[t], Cat(Cat(events[t], hand[t]), queue[t]))
    BY <2>1 DEF NothingLost, inTransit, Cat
  <2>x. <<current(p)>> \in Seq(Event)
    BY <2>1
  <2>4. PICK r, e, h, q, x \in Seq(Event) :
          /\ r = received[t] /\ e = events[t] /\ h = hand[t] /\ q = queue[t]
          /\ x = <<current(p)>>
    BY <1>b, <2>x, Zenon
  <2>5. Cat(r, Cat(Cat(e, h), Cat(q, x))) = Cat(Cat(r, Cat(Cat(e, h), q)), x)
    BY AppendAtBack, SMT
  <2>6. QED
    BY <2>2, <2>3, <2>4, <2>5, InTransit, Zenon
<1>3. ASSUME NEW p \in Publishers, NEW s \in Subs, EnqueueAppend(p, s), t # s PROVE Same
  BY <1>3 DEF EnqueueAppend, TypeInv, TypeOK, inTransit
<1>4. ASSUME NEW p \in Publishers, EnqueueSignal(p) PROVE Same
  BY <1>4 DEF EnqueueSignal, inTransit
<1>5. ASSUME NEW p \in Publishers, PublishEnd(p) PROVE Same
  BY <1>5 DEF PublishEnd, inTransit
<1>6. ASSUME NEW s \in Subs, Subscribe(s) PROVE Same
  BY <1>6 DEF Subscribe, inTransit
<1>7. ASSUME NEW s \in Subs, Cancel(s) PROVE Same
  BY <1>7 DEF Cancel, inTransit
<1>8. ASSUME NEW s \in Subs, UnsubscribeWake(s) PROVE Same
  BY <1>8 DEF UnsubscribeWake, inTransit
<1>9. ASSUME NEW s \in Subs, UnsubscribeClear(s) PROVE Same
  <2>1. t # s
    BY <1>9 DEF UnsubscribeClear, TypeInv, TypeOK
  <2>2. QED
    BY <1>9, <2>1 DEF UnsubscribeClear, TypeInv, TypeOK, inTransit
<1>10. ASSUME NEW s \in Subs, UnsubscribeDone(s) PROVE Same
  BY <1>10 DEF UnsubscribeDone, inTransit
<1>11. ASSUME NEW s \in Subs, RunTake(s) PROVE Same
  BY <1>11, StillInTransit DEF RunTake
<1>12. ASSUME NEW s \in Subs, RunEmpty(s) \/ RunWake(s) PROVE Same
  BY <1>12 DEF RunEmpty, RunWake, inTransit
<1>13. ASSUME NEW s \in Subs, RunSend(s) PROVE Same
  BY <1>13, StillInTransit DEF RunSend
<1>14. ASSUME NEW s \in Subs, RunExit(s) PROVE Same
  <2>1. closed[s] /\ closed' = closed
    BY <1>14 DEF RunExit, LockInv
  <2>2. t # s
    BY <2>1
  <2>3. QED
    BY <1>14, <2>2 DEF RunExit, TypeInv, TypeOK, inTransit
<1>15. ASSUME NEW s \in Subs, Receive(s), t = s
       PROVE  accepted'[t] = Cat(received'[t], inTransit(t)')
  <2>1. /\ events[t] # <<>> /\ queue' = queue /\ hand' = hand /\ accepted' = accepted
        /\ received'[t] = Append(received[t], Head(events[t]))
        /\ events'[t] = Tail(events[t]) /\ ~closed[t]
    BY <1>15 DEF Receive, TypeInv, TypeOK
  <2>2. PICK r, e, h, q \in Seq(Event) :
          /\ r = received[t] /\ e = events[t] /\ h = hand[t] /\ q = queue[t]
    BY <1>b, Zenon
  <2>3. PICK x, y \in Seq(Event) : x = <<Head(e)>> /\ y = Tail(e) /\ e = Cat(x, y)
    BY <2>1, <2>2, HeadThenTail, Zenon
  <2>4. Append(r, Head(e)) = Cat(r, x)
    BY <2>1, <2>2, <2>3, AppendHead, Zenon
  <2>5. Cat(Cat(r, x), Cat(Cat(y, h), q)) = Cat(r, Cat(Cat(Cat(x, y), h), q))
    BY ReceiveOldest, SMT
  <2>6. accepted[t] = Cat(r, Cat(Cat(e, h), q))
    BY <2>1, <2>2, Zenon DEF NothingLost, inTransit, Cat
  <2>7. QED
    BY <2>1, <2>2, <2>3, <2>4, <2>5, <2>6, InTransit, Zenon
<1>16. ASSUME NEW s \in Subs, Receive(s), t # s PROVE Same
  BY <1>16 DEF Receive, TypeInv, TypeOK, inTransit
<1>17. CASE UNCHANGED vars
  BY <1>17, <1>a DEF vars, inTransit
<1> HIDE DEF Same
<1>18. QED
  BY <1>a, <1>1, <1>2, <1>3, <1>4, <1>5, <1>6, <1>7, <1>8, <1>9, <1>10, <1>11,
     <1>12, <1>13, <1>14, <1>15, <1>16, <1>17
     DEF Next, PublishStep, UnsubscribeStep, RunStep

\* What the reader of an open subscription received, followed by what is under
\* way to it, is what publishers appended to its queue, in their order.
THEOREM NothingIsLost == Spec => []NothingLost
<1>1. Init => NothingLost
  BY EmptySeq DEF Init, NothingLost, inTransit
<1>2. QED
  BY <1>1, LockInvariant, NothingLostStep, PTL DEF Spec
-----------------------------------------------------------------------------
(* A publish reaches all subscriptions. *)

In(e, q) == \E i \in 1..Len(q) : q[i] = e

\* The subscriptions the loop has left behind have the event.
ReachInv ==
  \A p \in Publishers : ppc[p] = "range" =>
    \A s \in subs \ todo[p] : In(current(p), accepted[s])

LEMMA InAppended ==
  ASSUME NEW q \in Seq(Event), NEW e \in Event, NEW f
  PROVE  /\ In(e, q \o <<e>>)
         /\ In(f, q) => In(f, q \o <<e>>)
  BY DEF In

LEMMA ReachStep ==
  TypeInv /\ LockInv /\ ReachInv /\ [Next]_vars => ReachInv'
<1> SUFFICES ASSUME TypeInv, LockInv, ReachInv, [Next]_vars,
                    NEW q \in Publishers, ppc'[q] = "range", NEW t \in subs', t \notin todo'[q]
             PROVE  In(current(q)', accepted'[t])
  BY DEF ReachInv
<1> DEFINE Same == /\ ppc[q] = "range" /\ t \in subs /\ t \notin todo[q]
                   /\ current(q)' = current(q) /\ accepted'[t] = accepted[t]
<1>a. ASSUME Same PROVE In(current(q)', accepted'[t])
  BY <1>a DEF ReachInv
<1> USE DEF pubVars, subVars, current
<1>1. ASSUME NEW p \in Publishers, PublishBegin(p) PROVE Same
  BY <1>1 DEF PublishBegin, TypeInv, TypeOK
<1>2. ASSUME NEW p \in Publishers, NEW s \in Subs, EnqueueAppend(p, s)
      PROVE  In(current(q)', accepted'[t])
  <2>a. ~closed[s] /\ s \in subs /\ sent' = sent /\ subs' = subs /\ ppc' = ppc
    BY <1>2 DEF EnqueueAppend, LockInv
  <2>b. current(p) \in Event
    BY <1>2, CurrentEvent DEF EnqueueAppend
  <2>c. accepted[s] \in Seq(Event)
    BY DEF TypeInv, TypeOK
  <2>1. /\ ~closed[s] /\ current(p) \in Event /\ s \in subs /\ accepted[s] \in Seq(Event)
        /\ sent' = sent /\ subs' = subs /\ ppc' = ppc
    BY <2>a, <2>b, <2>c
  <2>2. accepted'[s] = accepted[s] \o <<current(p)>>
    BY <1>2, <2>1 DEF EnqueueAppend, TypeInv, TypeOK
  <2>3. CASE t = s /\ q = p
    BY <2>1, <2>2, <2>3, InAppended
  <2>4. CASE t = s /\ q # p
    <3>1. t \notin todo[q]
      BY <1>2, <2>4 DEF EnqueueAppend
    <3>2. In(current(q), accepted[s])
      BY <2>1, <2>4, <3>1 DEF ReachInv
    <3>3. In(current(q), accepted[s] \o <<current(p)>>)
      BY <2>1, <3>2, InAppended
    <3>4. QED
      BY <2>1, <2>2, <2>4, <3>3
  <2>5. CASE t # s
    <3>1. t \notin todo[q] /\ accepted'[t] = accepted[t]
      BY <1>2, <2>5 DEF EnqueueAppend, TypeInv, TypeOK
    <3>2. QED
      BY <2>1, <3>1 DEF ReachInv
  <2>6. QED
    BY <2>3, <2>4, <2>5
<1>3. ASSUME NEW p \in Publishers, EnqueueSignal(p) PROVE Same
  BY <1>3 DEF EnqueueSignal
<1>4. ASSUME NEW p \in Publishers, PublishEnd(p) PROVE Same
  BY <1>4 DEF PublishEnd, TypeInv, TypeOK
<1>5. ASSUME NEW s \in Subs, Subscribe(s) PROVE Same
  \* The write lock excludes a publisher in its loop.
  BY <1>5 DEF Subscribe, CanLock, Reading
<1>6. ASSUME NEW s \in Subs, Cancel(s) PROVE Same
  BY <1>6 DEF Cancel
<1>7. ASSUME NEW s \in Subs, UnsubscribeWake(s) PROVE Same
  BY <1>7 DEF UnsubscribeWake
<1>8. ASSUME NEW s \in Subs, UnsubscribeClear(s) PROVE Same
  BY <1>8 DEF UnsubscribeClear
<1>9. ASSUME NEW s \in Subs, UnsubscribeDone(s) PROVE Same
  BY <1>9 DEF UnsubscribeDone
<1>10. ASSUME NEW s \in Subs, RunStep(s) PROVE Same
  BY <1>10 DEF RunStep, RunTake, RunEmpty, RunWake, RunSend, RunExit
<1>11. ASSUME NEW s \in Subs, Receive(s) PROVE Same
  BY <1>11 DEF Receive
<1>12. CASE UNCHANGED vars
  BY <1>12, <1>a DEF vars
<1> HIDE DEF Same
<1>13. QED
  BY <1>a, <1>1, <1>2, <1>3, <1>4, <1>5, <1>6, <1>7, <1>8, <1>9, <1>10, <1>11, <1>12
     DEF Next, PublishStep, UnsubscribeStep

\* When the loop of Publish ends, every subscription in b.subs has accepted the
\* event: nobody subscribes or unsubscribes while b.mu is held for reading.
THEOREM EveryPublishReachesAll == Spec => []PublishReachesAll
<1>1. Init => ReachInv
  BY DEF Init, ReachInv
<1>2. ReachInv => PublishReachesAll
  BY DEF ReachInv, PublishReachesAll, In
<1>3. QED
  BY <1>1, <1>2, LockInvariant, ReachStep, PTL DEF Spec
-----------------------------------------------------------------------------
(* The bus implements the mailboxes. *)

\* A concatenation cut at the length of its first part is the first part.
LEMMA CutAtFirst ==
  ASSUME NEW a \in Seq(Event), NEW b \in Seq(Event)
  PROVE  \E n \in 0..Len(Cat(a, b)) : SubSeq(Cat(a, b), 1, n) = a
<1>1. Len(a) \in 0..Len(a \o b)
  BY ConcatProperties, LenProperties
<1>2. /\ SubSeq(a \o b, 1, Len(a)) \in Seq(Event)
      /\ Len(SubSeq(a \o b, 1, Len(a))) = Len(a)
      /\ \A i \in 1..Len(a) : SubSeq(a \o b, 1, Len(a))[i] = a[i]
  OBVIOUS
<1>3. SubSeq(a \o b, 1, Len(a)) = a
  BY <1>2, SeqEqual
<1>4. QED
  BY <1>1, <1>3 DEF Cat

\* A step that leaves what a subscriber sees alone.
Unseen == /\ \A t \in Subs : phaseOf(t)' = phaseOf(t) /\ inTransit(t)' = inTransit(t)
          /\ received' = received

LEMMA UnseenIsStutter == Unseen => UNCHANGED MB!mvars
  BY DEF Unseen, MB!mvars

\* A step that changes what the subscriber s sees and nobody else.
OnlyAt(s) == \A t \in Subs \ {s} : phaseOf(t)' = phaseOf(t) /\ inTransit(t)' = inTransit(t)

LEMMA PutRefined ==
  ASSUME TypeInv, LockInv, NEW p \in Publishers, NEW s \in Subs, EnqueueAppend(p, s)
  PROVE  MB!Put(s, current(p)) /\ current(p) \in Event
<1>1. current(p) \in Event
  BY CurrentEvent DEF EnqueueAppend
<1>2. ~closed[s] /\ phaseOf(s) = "open"
  BY DEF EnqueueAppend, TypeInv, TypeOK, LockInv, phaseOf
<1>3. /\ queue' = [queue EXCEPT ![s] = Cat(@, <<current(p)>>)]
      /\ events' = events /\ hand' = hand /\ received' = received
      /\ upc' = upc /\ rpc' = rpc /\ closed' = closed
  BY <1>2 DEF EnqueueAppend, Cat
<1>4. \A t \in Subs : phaseOf(t)' = phaseOf(t)
  BY <1>3 DEF phaseOf
<1>5. \A t \in Subs \ {s} : inTransit(t)' = inTransit(t)
  BY <1>3 DEF inTransit, TypeInv, TypeOK
<1>6. inTransit(s)' = Append(inTransit(s), current(p))
  <2>1. PICK e, h, q, x \in Seq(Event) :
          e = events[s] /\ h = hand[s] /\ q = queue[s] /\ x = <<current(p)>>
    <3>1. <<current(p)>> \in Seq(Event)
      BY <1>1
    <3>2. hand[s] \in Seq(Event) /\ events[s] \in Seq(Event) /\ queue[s] \in Seq(Event)
      BY FieldTypes
    <3>3. QED
      BY <3>1, <3>2, Zenon
  <2>2. Cat(Cat(e, h), Cat(q, x)) = Cat(Cat(Cat(e, h), q), x)
    BY CatType, CatAssociative
  <2>3. queue'[s] = Cat(q, x)
    BY <1>3, <2>1 DEF TypeInv, TypeOK
  <2>4. PICK b \in Seq(Event) : b = Cat(Cat(e, h), q)
    BY CatType
  <2>5. Append(b, current(p)) = Cat(b, x)
    BY <1>1, <2>1, AppendIsConcat DEF Cat
  <2>6. QED
    BY <1>3, <2>1, <2>2, <2>3, <2>4, <2>5, InTransit, Zenon
<1>7. QED
  BY <1>1, <1>2, <1>3, <1>4, <1>5, <1>6 DEF MB!Put

LEMMA CloseRefined ==
  ASSUME TypeInv, LockInv, NEW s \in Subs, UnsubscribeClear(s)
  PROVE  MB!Close(s)
<1>1. /\ phaseOf(s) = "open" /\ phaseOf(s)' = "closing"
      /\ \A t \in Subs \ {s} : phaseOf(t)' = phaseOf(t)
  BY DEF UnsubscribeClear, TypeInv, TypeOK, LockInv, phaseOf
<1>2. /\ events' = events /\ hand' = hand /\ received' = received
      /\ queue' = [queue EXCEPT ![s] = <<>>]
  BY DEF UnsubscribeClear
<1>3. \A t \in Subs \ {s} : inTransit(t)' = inTransit(t)
  BY <1>2 DEF inTransit, TypeInv, TypeOK
<1>4. PICK a, q \in Seq(Event) : a = Cat(events[s], hand[s]) /\ q = queue[s]
  BY FieldTypes, CatType
<1>5. inTransit(s) = Cat(a, q) /\ inTransit(s)' = a
  <2>1. queue'[s] = <<>>
    BY <1>2 DEF TypeInv, TypeOK
  <2>2. QED
    BY <1>2, <1>4, <2>1, InTransit, CatEmpty, Zenon
<1>6. PICK n \in 0..Len(inTransit(s)) : SubSeq(inTransit(s), 1, n) = inTransit(s)'
  BY <1>5, CutAtFirst
<1>7. [t \in Subs |-> inTransit(t)']
        = [[t \in Subs |-> inTransit(t)] EXCEPT ![s] = SubSeq(@, 1, n)]
  BY <1>3, <1>6
<1>8. QED
  BY <1>1, <1>2, <1>7 DEF MB!Close, MB!Truncate

LEMMA EndRefined ==
  ASSUME TypeInv, LockInv, NEW s \in Subs, RunExit(s)
  PROVE  MB!End(s)
<1>1. /\ phaseOf(s) = "closing" /\ phaseOf(s)' = "ended"
      /\ \A t \in Subs \ {s} : phaseOf(t)' = phaseOf(t)
  BY DEF RunExit, TypeInv, TypeOK, LockInv, phaseOf
<1>2. /\ events' = events /\ queue' = queue /\ received' = received
      /\ hand' = [hand EXCEPT ![s] = <<>>] /\ queue[s] = <<>>
  BY DEF RunExit, LockInv
<1>3. \A t \in Subs \ {s} : inTransit(t)' = inTransit(t)
  BY <1>2 DEF inTransit, TypeInv, TypeOK
<1>4. PICK e, h \in Seq(Event) : e = events[s] /\ h = hand[s]
  BY FieldTypes
<1>5. inTransit(s) = Cat(e, h) /\ inTransit(s)' = e
  <2>1. hand'[s] = <<>>
    BY <1>2 DEF TypeInv, TypeOK
  <2>2. inTransit(s) = Cat(Cat(e, h), <<>>) /\ inTransit(s)' = Cat(Cat(e, <<>>), <<>>)
    BY <1>2, <1>4, <2>1, InTransit, Zenon
  <2>3. QED
    BY <2>2, CatType, CatEmpty
<1>6. PICK n \in 0..Len(inTransit(s)) : SubSeq(inTransit(s), 1, n) = inTransit(s)'
  BY <1>5, CutAtFirst
<1>7. [t \in Subs |-> inTransit(t)']
        = [[t \in Subs |-> inTransit(t)] EXCEPT ![s] = SubSeq(@, 1, n)]
  BY <1>3, <1>6
<1>8. QED
  BY <1>1, <1>2, <1>7 DEF MB!End, MB!Truncate

LEMMA TakeRefined ==
  ASSUME TypeInv, LockInv, NEW s \in Subs, Receive(s)
  PROVE  MB!Take(s)
<1>1. \A t \in Subs : phaseOf(t)' = phaseOf(t)
  BY DEF Receive, phaseOf
<1>2. /\ queue' = queue /\ hand' = hand /\ events[s] # <<>>
      /\ events' = [events EXCEPT ![s] = Tail(@)]
      /\ received' = [received EXCEPT ![s] = Append(@, Head(events[s]))]
  BY DEF Receive
<1>3. \A t \in Subs \ {s} : inTransit(t)' = inTransit(t)
  BY <1>2 DEF inTransit, TypeInv, TypeOK
<1>4. PICK e, h, q \in Seq(Event) : e = events[s] /\ h = hand[s] /\ q = queue[s]
  BY FieldTypes
<1>5. PICK x, y \in Seq(Event) : x = <<Head(e)>> /\ y = Tail(e) /\ e = Cat(x, y)
  BY <1>2, <1>4, HeadThenTail, Zenon
<1>6. PICK b \in Seq(Event) : b = Cat(Cat(y, h), q)
  BY CatType
<1>7. inTransit(s) = Cat(x, b) /\ inTransit(s)' = b
  <2>1. events'[s] = y
    BY <1>2, <1>4, <1>5 DEF TypeInv, TypeOK
  <2>2. Cat(Cat(Cat(x, y), h), q) = Cat(x, Cat(Cat(y, h), q))
    BY CatType, CatAssociative
  <2>3. QED
    BY <1>2, <1>4, <1>5, <1>6, <2>1, <2>2, InTransit, Zenon
<1>8. /\ inTransit(s) # <<>> /\ Head(inTransit(s)) = Head(events[s])
      /\ Tail(inTransit(s)) = inTransit(s)'
  <2>1. Head(e) \in Event
    BY <1>2, <1>4, HeadTailProperties
  <2>2. \A v \in Event : /\ <<v>> \o b # <<>> /\ Head(<<v>> \o b) = v
                          /\ Tail(<<v>> \o b) = b
    <3>1. SUFFICES ASSUME NEW v \in Event
                   PROVE  /\ <<v>> \o b # <<>> /\ Head(<<v>> \o b) = v
                          /\ Tail(<<v>> \o b) = b
      OBVIOUS
    <3>2. /\ <<v>> \o b \in Seq(Event) /\ Len(<<v>> \o b) = Len(b) + 1
          /\ \A i \in 1..Len(b) : (<<v>> \o b)[i + 1] = b[i]
          /\ (<<v>> \o b)[1] = v
      OBVIOUS
    <3>3. <<v>> \o b # <<>>
      BY <3>2, LenProperties
    <3>4. /\ Tail(<<v>> \o b) \in Seq(Event) /\ Len(Tail(<<v>> \o b)) = Len(b)
          /\ \A i \in 1..Len(b) : Tail(<<v>> \o b)[i] = b[i]
      BY <3>2, <3>3, HeadTailProperties, LenProperties
    <3>5. Tail(<<v>> \o b) = b
      BY <3>4, SeqEqual
    <3>6. QED
      BY <3>2, <3>3, <3>5
  <2>3. QED
    BY <1>4, <1>5, <1>7, <2>1, <2>2 DEF Cat
<1>9. QED
  BY <1>1, <1>2, <1>3, <1>8 DEF MB!Take

\* A step that moves no event and neither starts, closes nor ends a subscription
\* is invisible to the mailboxes.
LEMMA InvisibleStep ==
  ASSUME UNCHANGED <<events, hand, queue, received, closed>>,
         \A t \in Subs : (upc'[t] = "unborn") = (upc[t] = "unborn"),
         \A t \in Subs : (rpc'[t] = "exited") = (rpc[t] = "exited")
  PROVE  Unseen
<1>1. closed' = closed
  OBVIOUS
<1>2. ASSUME NEW t \in Subs PROVE phaseOf(t)' = phaseOf(t)
  <2>1. (upc'[t] = "unborn") = (upc[t] = "unborn")
    OBVIOUS
  <2>2. (rpc'[t] = "exited") = (rpc[t] = "exited")
    OBVIOUS
  <2>3. QED
    BY ONLY <1>1, <2>1, <2>2, Zenon DEF phaseOf
<1>3. \A t \in Subs : inTransit(t)' = inTransit(t)
  BY DEF inTransit
<1>4. QED
  BY <1>2, <1>3 DEF Unseen

LEMMA StepRefined ==
  TypeInv /\ LockInv /\ [Next]_vars => [MB!MailNext]_(MB!mvars)
<1> SUFFICES ASSUME TypeInv, LockInv, [Next]_vars
             PROVE  MB!MailNext \/ UNCHANGED MB!mvars
  OBVIOUS
<1> USE DEF pubVars, subVars
<1> DEFINE UpcType == upc \in [Subs -> {"unborn", "watch", "lock", "locked", "gone"}]
           RpcType == rpc \in [Subs -> {"next", "wait", "send", "exited"}]
<1>0. UpcType /\ RpcType
  BY DEF TypeInv, TypeOK
<1>1. ASSUME NEW p \in Publishers, PublishBegin(p) PROVE Unseen
  BY <1>1, InvisibleStep DEF PublishBegin
<1>2. ASSUME NEW p \in Publishers, NEW s \in Subs, EnqueueAppend(p, s) PROVE MB!MailNext
  BY <1>2, PutRefined DEF MB!MailNext
<1>3. ASSUME NEW p \in Publishers, EnqueueSignal(p) PROVE Unseen
  BY <1>3, InvisibleStep DEF EnqueueSignal
<1>4. ASSUME NEW p \in Publishers, PublishEnd(p) PROVE Unseen
  BY <1>4, InvisibleStep DEF PublishEnd
<1>5. ASSUME NEW s \in Subs, Subscribe(s) PROVE MB!MailNext
  <2>1. /\ phaseOf(s) = "none" /\ phaseOf(s)' = "open"
        /\ \A t \in Subs \ {s} : phaseOf(t)' = phaseOf(t)
    BY <1>5 DEF Subscribe, phaseOf, TypeInv, TypeOK, LockInv
  <2>2. /\ \A t \in Subs : inTransit(t)' = inTransit(t)
        /\ received' = received
    BY <1>5 DEF Subscribe, inTransit
  <2>3. MB!Open(s)
    BY <2>1, <2>2 DEF MB!Open
  <2>4. QED
    BY <2>3 DEF MB!MailNext
<1>6. ASSUME NEW s \in Subs, Cancel(s) PROVE Unseen
  BY <1>6, InvisibleStep DEF Cancel
<1>7. ASSUME NEW s \in Subs, UnsubscribeWake(s) PROVE Unseen
  <2>1. /\ UNCHANGED <<events, hand, queue, received, closed, rpc>>
        /\ upc[s] = "watch" /\ upc' = [upc EXCEPT ![s] = "lock"]
    BY <1>7 DEF UnsubscribeWake
  <2>2. \A t \in Subs : (upc'[t] = "unborn") = (upc[t] = "unborn")
    BY <2>1, <1>0
  <2>3. QED
    BY <2>1, <2>2, InvisibleStep
<1>8. ASSUME NEW s \in Subs, UnsubscribeClear(s) PROVE MB!MailNext
  BY <1>8, CloseRefined DEF MB!MailNext
<1>9. ASSUME NEW s \in Subs, UnsubscribeDone(s) PROVE Unseen
  <2>1. /\ UNCHANGED <<events, hand, queue, received, closed, rpc>>
        /\ upc[s] = "locked" /\ upc' = [upc EXCEPT ![s] = "gone"]
    BY <1>9 DEF UnsubscribeDone
  <2>2. \A t \in Subs : (upc'[t] = "unborn") = (upc[t] = "unborn")
    BY <2>1, <1>0
  <2>3. QED
    BY <2>1, <2>2, InvisibleStep
<1>10. ASSUME NEW s \in Subs, RunTake(s) \/ RunSend(s) PROVE Unseen
  <2>1. \A t \in Subs : inTransit(t)' = inTransit(t)
    BY <1>10, StillInTransit
  <2>2. /\ \A t \in Subs : phaseOf(t)' = phaseOf(t)
        /\ received' = received
    BY <1>10 DEF RunTake, RunSend, phaseOf, TypeInv, TypeOK
  <2>3. QED
    BY <2>1, <2>2 DEF Unseen
<1>11. ASSUME NEW s \in Subs, RunEmpty(s) \/ RunWake(s) PROVE Unseen
  <2>1. /\ UNCHANGED <<events, hand, queue, received, closed, upc>>
        /\ rpc[s] # "exited"
        /\ \E w \in {"wait", "next"} : rpc' = [rpc EXCEPT ![s] = w]
    BY <1>11 DEF RunEmpty, RunWake
  <2>2. \A t \in Subs : (rpc'[t] = "exited") = (rpc[t] = "exited")
    BY <2>1, <1>0
  <2>3. QED
    BY <2>1, <2>2, InvisibleStep
<1>12. ASSUME NEW s \in Subs, RunExit(s) PROVE MB!MailNext
  BY <1>12, EndRefined DEF MB!MailNext
<1>13. ASSUME NEW s \in Subs, Receive(s) PROVE MB!MailNext
  BY <1>13, TakeRefined DEF MB!MailNext
<1>14. CASE UNCHANGED vars
  BY <1>14 DEF vars, MB!mvars, phaseOf, inTransit
<1>15. QED
  BY <1>1, <1>2, <1>3, <1>4, <1>5, <1>6, <1>7, <1>8, <1>9, <1>10, <1>11, <1>12,
     <1>13, <1>14, UnseenIsStutter
     DEF Next, PublishStep, UnsubscribeStep, RunStep

\* Every behaviour of the bus is a behaviour of the mailboxes: events are taken
\* in the order they were put, and a cancellation drops only the newest of them.
THEOREM BusImplementsMailbox == Spec => ImplementsMailbox
<1>1. Init => MB!MailInit
  BY EmptySeq DEF Init, MB!MailInit, phaseOf, inTransit
<1>2. QED
  BY <1>1, LockInvariant, StepRefined, PTL DEF Spec, ImplementsMailbox
=============================================================================
