---------------------------- MODULE MqttPublisher ----------------------------
(***************************************************************************)
(* The publishing half of src/internal/transport/mqtt/mqtt.go: Start, Stop,*)
(* eventLoop with its handlers, and the OnConnect handler, against a broker*)
(* that keeps retained messages, a connection that comes and goes, and a   *)
(* client library that keeps what it cannot deliver and sends it again.    *)
(*                                                                         *)
(* Goroutine 0 is eventLoop, n > 0 the OnConnect handler of the n-th       *)
(* connection.  What a goroutine has still to do is a sequence of the small*)
(* steps of its handlers: a section of t.mu, a look at the registry, the   *)
(* publication of one topic.  The bus gives eventLoop a mailbox (EventBus);*)
(* the registry and its events behave as in PluginScope, where an event    *)
(* follows the change of the registry.  Discovery of an entity clears its  *)
(* legacy topic first; no other topic depends on that one, and it is left  *)
(* out.                                                                    *)
(*                                                                         *)
(* Operators marked "Variant" are actions with a plausible bug, by which   *)
(* the properties are tested.                                              *)
(***************************************************************************)
EXTENDS Naturals, Sequences, FiniteSets

CONSTANTS Entities,    \* entity ids
          Data,        \* what an entity can carry besides its id
          States,      \* states a plugin publishes
          MaxConnects, \* bound: connections the client gets; the last one stays
          MaxCalls     \* bound: calls of the plugins

ASSUME BoundsAssumption == MaxConnects \in Nat /\ MaxCalls \in Nat

None == "none"    \* no entity; an empty retained message

ASSUME EntitiesAssumption == IsFiniteSet(Entities)
ASSUME NamesAssumption ==
  /\ None \notin Entities
  /\ (Data \cup States) \cap {None, "online", "offline", "unavailable"} = {}

VARIABLES
  registry,    \* registry[e]: data of the registered entity, or None
  pend,        \* pend[e]: the registry's event that is not published yet
  calls,       \* calls of the plugins so far
  feed,        \* events the bus holds for eventLoop
  subscribed,  \* eventLoop has subscribed
  known,       \* t.known
  work,        \* work[g]: the steps goroutine g has still to do
  tpc,         \* "new", "starting", "started", then Stop: "stopping", "disconnect",
               \* "stopped", or "failed"
  ctxDone,     \* the context of the transport is over
  loopDone,    \* t.done is closed
  link,        \* the connection: "off", "up", "down", "closed"
  connects,    \* connections so far
  store,       \* messages the client keeps to send again, pairs of topic and value;
               \* equal ones count once
  retained,    \* the broker's retained messages, by topic
  said,        \* history: what the plugins last said, by topic
  lost,        \* history: topics whose last publication will not reach the broker
  overtaken    \* history: topics of which OnConnect, or the client when it sent again
               \* what it had kept, published older data after newer

coreVars == <<registry, pend, calls, said>>
runVars  == <<tpc, ctxDone, loopDone, subscribed>>
sendVars == <<link, store>>
netVars  == <<sendVars, connects>>
pubVars  == <<retained, lost, overtaken>>
vars == <<coreVars, feed, known, work, runVars, netVars, pubVars>>

Routines == 0..MaxConnects
Kinds    == {"config", "avail", "state"}
Topics   == (Kinds \X Entities) \cup {<<"status", None>>}
status   == <<"status", None>>
Values   == Data \cup States \cup {None, "online", "offline", "unavailable"}
Messages == Topics \X Values
Events   == [type : {"changed", "removed", "avail", "state"}, id : Entities,
             val : Values]
Steps    == [do : Kinds \cup {"know", "forget"}, id : Entities, val : Values]
              \cup [do : {"list", "status"}, id : {None}, val : Values]

Step(do, e, v) == [do |-> do, id |-> e, val |-> v]

Init ==
  /\ registry = [e \in Entities |-> None]
  /\ pend = [e \in Entities |-> <<>>]
  /\ calls = 0 /\ feed = <<>> /\ subscribed = FALSE /\ known = {}
  /\ work = [g \in Routines |-> <<>>]
  /\ tpc = "new" /\ ctxDone = FALSE /\ loopDone = FALSE
  /\ link = "off" /\ connects = 0 /\ store = {}
  /\ retained = [t \in Topics |-> None]
  /\ said = [t \in Topics |-> None]
  /\ lost = {} /\ overtaken = {}
-----------------------------------------------------------------------------
(* The core: plugins are started after, and stopped before, the transport *)

Publish(events) == feed' = IF subscribed THEN feed \o events ELSE feed

\* A call of the host about entity e; calls on one entity do not overlap.
MayCall(e) == tpc = "started" /\ pend[e] = <<>> /\ calls < MaxCalls

\* Register or Update in the registry.  Both mark the entity online.
Change(e, d) ==
  /\ MayCall(e)
  /\ registry[e] # d
  /\ registry' = [registry EXCEPT ![e] = d]
  /\ pend' = [pend EXCEPT ![e] = <<[type |-> "changed", id |-> e, val |-> d]>>]
  /\ said' = [said EXCEPT ![<<"config", e>>] = d, ![<<"avail", e>>] = "online"]
  /\ calls' = calls + 1
  /\ UNCHANGED <<feed, known, work, runVars, netVars, pubVars>>

\* Remove, when the scope of the plugin is closed; it needs no further call.
Remove(e) ==
  /\ tpc = "started" /\ pend[e] = <<>>
  /\ registry[e] # None
  /\ registry' = [registry EXCEPT ![e] = None]
  /\ pend' = [pend EXCEPT ![e] =
                <<[type |-> "removed", id |-> e, val |-> registry[e]]>>]
  /\ said' = [said EXCEPT ![<<"config", e>>] = None]
  /\ UNCHANGED <<calls, feed, known, work, runVars, netVars, pubVars>>

\* ... and their event.
Announce(e) ==
  /\ pend[e] # <<>>
  /\ Publish(pend[e])
  /\ pend' = [pend EXCEPT ![e] = <<>>]
  /\ UNCHANGED <<registry, calls, said, known, work, runVars, netVars, pubVars>>

\* PublishState and SetAvailability of a scope that owns e.
Say(kind, e, v) ==
  /\ MayCall(e)
  /\ registry[e] # None
  /\ Publish(<<[type |-> kind, id |-> e, val |-> v]>>)
  /\ said' = [said EXCEPT ![<<kind, e>>] = v]
  /\ calls' = calls + 1
  /\ UNCHANGED <<registry, pend, known, work, runVars, netVars, pubVars>>
-----------------------------------------------------------------------------
(* Start and eventLoop *)

Start ==
  /\ tpc = "new"
  /\ tpc' = "starting"
  /\ UNCHANGED <<coreVars, feed, known, work, ctxDone, loopDone, subscribed, netVars, pubVars>>

\* eventLoop subscribes, closes ready, and goes on to the list of entities.
LoopSubscribe ==
  /\ tpc # "new" /\ ~subscribed
  /\ subscribed' = TRUE
  /\ work' = [work EXCEPT ![0] = <<Step("list", None, None)>>]
  /\ UNCHANGED <<coreVars, feed, known, tpc, ctxDone, loopDone, netVars, pubVars>>

\* Variant: Start does not wait for ready.
StartReturnEarly ==
  /\ tpc = "starting"
  /\ tpc' = "started"
  /\ UNCHANGED <<coreVars, feed, known, work, ctxDone, loopDone, subscribed, netVars, pubVars>>

\* Start waits for ready; of the first connection it waits for no more than a
\* timeout, so it may return before or after any of the steps of the client.
StartReturn ==
  /\ tpc = "starting" /\ subscribed
  /\ tpc' = "started"
  /\ UNCHANGED <<coreVars, feed, known, work, ctxDone, loopDone, subscribed, netVars, pubVars>>

\* handleEntityAdded: known, publishDiscovery, publishAvailability.
Added(e, d) == << Step("know", e, None), Step("config", e, d), Step("avail", e, "online") >>

\* handleEvent.
Handle(ev) ==
  CASE ev.type = "changed" -> Added(ev.id, ev.val)
    [] ev.type = "removed" -> << Step("forget", ev.id, None), Step("config", ev.id, None) >>
    [] OTHER -> << Step(ev.type, ev.id, ev.val) >>

LoopEvent ==
  /\ subscribed /\ ~loopDone
  /\ work[0] = <<>> /\ feed # <<>>
  /\ work' = [work EXCEPT ![0] = Handle(Head(feed))]
  /\ feed' = Tail(feed)
  /\ UNCHANGED <<coreVars, known, runVars, netVars, pubVars>>

\* The select takes either, even when events are waiting.
LoopExit ==
  /\ subscribed /\ ~loopDone /\ ctxDone
  /\ work[0] = <<>>
  /\ loopDone' = TRUE
  /\ UNCHANGED <<coreVars, feed, known, work, tpc, ctxDone, subscribed, netVars, pubVars>>
-----------------------------------------------------------------------------
(* One step of a goroutine *)

Rest(g) == work' = [work EXCEPT ![g] = Tail(@)]

Know(g) ==
  /\ work[g] # <<>> /\ Head(work[g]).do \in {"know", "forget"}
  /\ LET st == Head(work[g])
     IN  known' = IF st.do = "know" THEN known \cup {st.id} ELSE known \ {st.id}
  /\ Rest(g)
  /\ UNCHANGED <<coreVars, feed, runVars, netVars, pubVars>>

\* host.Entities() and the loop over its result, in the order of a map.
List(g) ==
  /\ work[g] # <<>> /\ Head(work[g]).do = "list"
  /\ LET on == {e \in Entities : registry[e] # None}
         n  == Cardinality(on)
     IN  \E order \in {s \in [1..n -> on] : \A e \in on : \E i \in 1..n : s[i] = e} :
           LET added(i) == Added(order[i], registry[order[i]])
           IN  work' = [work EXCEPT ![g] =
                          [i \in 1..(3 * n) |-> added((i + 2) \div 3)[1 + ((i + 2) % 3)]]]
  /\ UNCHANGED <<coreVars, feed, known, runVars, netVars, pubVars>>

\* A connection may break at any time (bound: but for the last one), and the broker
\* publishes its will.
MayBreak  == link = "up" /\ connects < MaxConnects
Will(set) == [set EXCEPT ![status] = "offline"]

Keep(t, v) == store' = store \cup {<<t, v>>} /\ lost' = lost \ {t}
Drop(t)    == lost' = lost \cup ({t} \ {status}) /\ UNCHANGED store

\* publishRaw and client.Publish, with AutoReconnect, ConnectRetry and QoS 1.
\* IsConnected is true also while the client reconnects: then, and when the connection
\* breaks before the acknowledgement, the token times out but the client has kept the
\* message (one that breaks before the broker has the message has broken before this
\* step).  What it keeps up to the beginning of the first connection it forgets
\* (CleanSession); before Connect and after Disconnect a message is skipped.
Send(t, v) ==
  \/ /\ link = "up"
     /\ retained' = [retained EXCEPT ![t] = v]
     /\ lost' = lost \ {t}
     /\ UNCHANGED sendVars
  \/ /\ MayBreak
     /\ link' = "down"
     /\ \/ /\ retained' = Will([retained EXCEPT ![t] = v])
           /\ Keep(t, v)
        \/ /\ connects = 1
           /\ retained' = Will(retained)
           /\ Drop(t)
  \/ /\ link = "down"
     /\ Keep(t, v)
     /\ UNCHANGED <<link, retained>>
  \/ /\ link \in {"off", "closed"}
     /\ Drop(t)
     /\ UNCHANGED <<link, retained>>

\* publishDiscovery, and, for entities that are known, publishAvailability and
\* publishState: between their look at t.known and the publication eventLoop could
\* only forget the entity, whose availability nobody reads then.
PublishEntity(g) ==
  /\ work[g] # <<>> /\ Head(work[g]).do \in Kinds
  /\ LET st == Head(work[g])
         t  == <<st.do, st.id>>
     IN  \/ /\ st.do = "config" \/ st.id \in known
            /\ Send(t, st.val)
            /\ overtaken' = IF g > 0 /\ st.val # said[t] THEN overtaken \cup {t}
                                                         ELSE overtaken \ {t}
         \/ /\ st.do # "config" /\ st.id \notin known
            /\ UNCHANGED <<sendVars, pubVars>>
  /\ Rest(g)
  /\ UNCHANGED <<coreVars, feed, known, runVars, connects>>

PublishStatus(g) ==
  /\ work[g] # <<>> /\ Head(work[g]).do = "status"
  /\ Send(status, "online")
  /\ Rest(g)
  /\ UNCHANGED <<coreVars, feed, known, runVars, connects, overtaken>>

RoutineStep(g) == Know(g) \/ List(g) \/ PublishEntity(g) \/ PublishStatus(g)
-----------------------------------------------------------------------------
(* The connection *)

\* Variant: only the first connection publishes the snapshot.
ConnectOnce ==
  /\ subscribed /\ link \in {"off", "down"} /\ connects < MaxConnects
  /\ link' = "up" /\ connects' = connects + 1
  /\ work' = [work EXCEPT ![connects + 1] =
       IF connects = 0 THEN <<Step("status", None, "online"), Step("list", None, None)>>
                       ELSE <<Step("status", None, "online")>>]
  /\ UNCHANGED <<coreVars, feed, known, runVars, store, pubVars>>

\* The client connects and runs OnConnect, which publishes the status, subscribes to
\* commands and publishes the snapshot.
Connect ==
  /\ subscribed /\ link \in {"off", "down"} /\ connects < MaxConnects
  /\ link' = "up" /\ connects' = connects + 1
  /\ work' = [work EXCEPT ![connects + 1] =
                <<Step("status", None, "online"), Step("list", None, None)>>]
  /\ UNCHANGED <<coreVars, feed, known, runVars, store, pubVars>>

\* Beside OnConnect the client sends again what it has kept, in the order of a map. What
\* is not acknowledged before the connection breaks is kept, as if not sent again yet.
Resend ==
  /\ link = "up"
  /\ \E m \in store :
       LET t == m[1]
           v == m[2]
       IN  /\ retained' = [retained EXCEPT ![t] = v]
           /\ store' = store \ {m}
           /\ \/ /\ t = status \/ v = said[t]
                 /\ overtaken' = overtaken \ {t}
                 /\ lost' = lost \ {t}
              \/ /\ t # status /\ v # said[t]
                 /\ overtaken' = overtaken \cup {t}
                 /\ UNCHANGED lost
  /\ UNCHANGED <<coreVars, feed, known, work, runVars, link, connects>>

\* The connection is lost, and the broker publishes the will.
Disconnected ==
  /\ MayBreak
  /\ link' = "down"
  /\ retained' = Will(retained)
  /\ UNCHANGED <<coreVars, feed, known, work, runVars, store, connects, lost, overtaken>>
-----------------------------------------------------------------------------
(* Stop *)

\* The context of the agent ends; only then Runtime stops plugins and transports.
Cancel ==
  /\ tpc \in {"starting", "started"} /\ ~ctxDone
  /\ ctxDone' = TRUE
  /\ UNCHANGED <<coreVars, feed, known, work, tpc, loopDone, subscribed, netVars, pubVars>>

\* The plugin manager has stopped every plugin before.
Stop ==
  /\ tpc = "started"
  /\ \A e \in Entities : registry[e] = None /\ pend[e] = <<>>
  /\ tpc' = "stopping" /\ ctxDone' = TRUE
  /\ UNCHANGED <<coreVars, feed, known, work, loopDone, subscribed, netVars, pubVars>>

\* Stop's context is over before the loops are done.
StopTimeout ==
  /\ tpc = "stopping"
  /\ tpc' = "failed"
  /\ UNCHANGED <<coreVars, feed, known, work, ctxDone, loopDone, subscribed, netVars, pubVars>>

StopOffline ==
  /\ tpc = "stopping" /\ loopDone
  /\ tpc' = "disconnect"
  /\ Send(status, "offline")
  /\ UNCHANGED <<coreVars, feed, known, work, ctxDone, loopDone, subscribed, connects, overtaken>>

\* Variant: the client is left alone while it has no connection.
StopIfUp ==
  /\ tpc = "disconnect"
  /\ tpc' = "stopped"
  /\ link' = IF link = "up" THEN "closed" ELSE link
  /\ UNCHANGED <<coreVars, feed, known, work, ctxDone, loopDone, subscribed, store, connects, pubVars>>

StopDisconnect ==
  /\ tpc = "disconnect"
  /\ tpc' = "stopped"
  /\ link' = "closed"
  /\ UNCHANGED <<coreVars, feed, known, work, ctxDone, loopDone, subscribed, store, connects, pubVars>>
-----------------------------------------------------------------------------
StopStep == Cancel \/ Stop \/ StopTimeout \/ StopOffline \/ StopDisconnect

Next ==
  \/ \E e \in Entities :
       \/ \E d \in Data : Change(e, d)
       \/ \E v \in States : Say("state", e, v)
       \/ \E a \in {"online", "unavailable"} : Say("avail", e, a)
       \/ Remove(e)
       \/ Announce(e)
  \/ Start \/ LoopSubscribe \/ StartReturn \/ LoopEvent \/ LoopExit
  \/ \E g \in Routines : RoutineStep(g)
  \/ Connect \/ Disconnected \/ Resend
  \/ StopStep

Spec == Init /\ [][Next]_vars
-----------------------------------------------------------------------------
(* Properties *)

\* Besides the types: a client that was stopped is gone for good, and the steps of
\* OnConnect belong to a connection that was made.
TypeOK ==
  /\ registry \in [Entities -> Data \cup {None}]
  /\ pend \in [Entities -> {<<>>} \cup {<<ev>> : ev \in Events}]
  /\ calls \in 0..MaxCalls /\ connects \in 0..MaxConnects
  /\ feed \in Seq(Events)
  /\ {subscribed, ctxDone, loopDone} \subseteq BOOLEAN
  /\ known \subseteq Entities
  /\ work \in [Routines -> Seq(Steps)]
  /\ tpc \in {"new", "starting", "started", "stopping", "disconnect", "stopped", "failed"}
  /\ link \in {"off", "up", "down", "closed"}
  /\ store \subseteq Messages
  /\ {retained, said} \subseteq [Topics -> Values]
  /\ lost \subseteq Topics /\ overtaken \subseteq Topics
  /\ tpc = "stopped" => link = "closed"
  /\ \A g \in Routines : g > connects => g = 0 \/ work[g] = <<>>

\* Nothing a plugin says about its entity is taken to be about an unknown one: when
\* eventLoop looks an entity up, it knows it.  It has subscribed before the plugins
\* register anything, and OnConnect only adds to what is known.
NoBlindSpot ==
  work[0] # <<>> /\ Head(work[0]).do \in {"avail", "state"} => Head(work[0]).id \in known

\* Everything has been handled, and the client is connected and has nothing left to
\* send again.
Settled == /\ tpc = "started" /\ ~ctxDone /\ link = "up" /\ feed = <<>> /\ store = {}
           /\ \A e \in Entities : pend[e] = <<>>
           /\ \A g \in Routines : work[g] = <<>>

\* When all is handled the broker has what the core has: the agent online, the config
\* of every registered entity, however often the connection was lost and whatever was
\* dropped meanwhile; no config of others, and the last state, unless that very
\* message was dropped.  Excepted are the topics on which older data came after newer
\* (overtaken): from OnConnect, whose list had become old, or from the client, which
\* sends what it kept from before the reconnect beside OnConnect and eventLoop, in any
\* order. There the code has no defence.
BrokerMirrors ==
  Settled => retained[status] = "online" /\ \A e \in Entities :
    /\ registry[e] # None => \A t \in {<<"config", e>>, <<"avail", e>>} \ overtaken :
                               retained[t] = said[t]
    /\ registry[e] = None => \A t \in {<<"config", e>>} \ (overtaken \cup lost) :
                               retained[t] = None
    /\ \A t \in {<<"state", e>>} \ (overtaken \cup lost) : retained[t] = said[t]

\* An entity its plugin has called unavailable is not shown as available: "The
\* entity is unavailable while the daemon is not running" (docs/plugins/
\* powerprofile-ppd.md).  Refuted: OnConnect publishes every entity as online.
UnavailableShown ==
  Settled => \A e \in Entities :
    registry[e] # None /\ said[<<"avail", e>>] = "unavailable"
      => retained[<<"avail", e>>] # "online"
=============================================================================
