------------------------ MODULE MqttPublisher_proofs ------------------------
(***************************************************************************)
(* Proofs about MqttPublisher: eventLoop knows every entity it hears about,*)
(* and once all is handled the broker has what the core has, for any       *)
(* entities, calls of the plugins and losses of the connection.            *)
(***************************************************************************)
EXTENDS MqttPublisher, FiniteSetTheorems, TLAPS

loop == work[0]

\* The steps of a goroutine that publish a kind of topic of an entity.
Has(g, k, e) == \E i \in DOMAIN work[g] : work[g][i].do = k /\ work[g][i].id = e

\* The events whose handler does so, and what it publishes.
Says(ev, k, e) ==
  /\ ev.id = e
  /\ \/ ev.type = k
     \/ ev.type = "changed" /\ k \in {"config", "avail"}
     \/ ev.type = "removed" /\ k = "config"

Meant(ev, k) == IF ev.type = "changed" /\ k = "avail" THEN "online"
                ELSE IF ev.type = "removed" THEN None ELSE ev.val

FeedSays(k, e) == \E i \in DOMAIN feed : Says(feed[i], k, e)
PendSays(k, e) == \E i \in DOMAIN pend[e] : Says(pend[e][i], k, e)

\* eventLoop will publish the topic.
Coming(k, e) == Has(0, k, e) \/ FeedSays(k, e) \/ PendSays(k, e)

\* A handler of OnConnect will.
Redo(k, e) == \E g \in Routines \ {0} : Has(g, "list", None) \/ Has(g, k, e)

-----------------------------------------------------------------------------
\* Before eventLoop has subscribed there is nothing to hear of, and plugins call only
\* then.
StartInv ==
  /\ tpc \in {"new", "starting"} =>
       /\ feed = <<>>
       /\ \A e \in Entities : registry[e] = None /\ pend[e] = <<>>
  /\ ~subscribed => tpc \in {"new", "starting"} /\ \A g \in Routines : work[g] = <<>>

\* The event under way is about what the registry has now.
PendOf(e) ==
  /\ said[<<"config", e>>] = registry[e]
  /\ \A ev \in Events : pend[e] = <<ev>> =>
       /\ ev.id = e
       /\ IF registry[e] = None THEN ev.type = "removed"
                                ELSE ev.type = "changed" /\ ev.val = registry[e]

PendInv == \A e \in Entities : PendOf(e)

\* What the handlers are made of.
ShapeOf(g) ==
  \A i \in DOMAIN work[g] :
    /\ work[g][i].do = "list" => i = Len(work[g]) /\ (g = 0 => i = 1)
    /\ work[g][i].do = "status" => g # 0 /\ i = 1
    /\ work[g][i].do \in {"forget", "state"} => g = 0

LoopShape ==
  \A i \in DOMAIN loop :
    /\ loop[i].do = "forget" => \A j \in DOMAIN loop \ {i} : loop[j].do = "config"
    /\ loop[i].do = "know" =>
         \E j \in (i + 1)..Len(loop) : loop[j].do = "avail" /\ loop[j].id = loop[i].id
    /\ loop[i].do \in {"avail", "state"} =>
         \/ loop[i].id \in known
         \/ \E j \in 1..(i - 1) : loop[j].do = "know" /\ loop[j].id = loop[i].id

WorkInv == (\A g \in Routines : ShapeOf(g)) /\ LoopShape

\* By the end of its present handler eventLoop knows e.
WillKnow(e) == Has(0, "know", e) \/ (e \in known /\ ~Has(0, "forget", e))

\* ... and when it has handled the events before i.
Backed(e, i) ==
  \/ \E j \in 1..(i - 1) :
       /\ feed[j].type = "changed" /\ feed[j].id = e
       /\ \A k \in (j + 1)..(i - 1) : ~(feed[k].type = "removed" /\ feed[k].id = e)
  \/ /\ WillKnow(e)
     /\ \A k \in 1..(i - 1) : ~(feed[k].type = "removed" /\ feed[k].id = e)

KnowInv ==
  /\ \A i \in DOMAIN feed : feed[i].type \in {"avail", "state"} => Backed(feed[i].id, i)
  /\ \A e \in Entities :
       registry[e] # None /\ pend[e] = <<>> => Backed(e, Len(feed) + 1)

\* The last of what eventLoop has still to publish on a topic is what the plugins said
\* last.
LoopLast(k, e) ==
  \A i \in DOMAIN loop : loop[i].do = k /\ loop[i].id = e =>
    \/ loop[i].val = said[<<k, e>>]
    \/ \E j \in (i + 1)..Len(loop) : loop[j].do = k /\ loop[j].id = e
    \/ FeedSays(k, e) \/ PendSays(k, e)

FeedLast(k, e) ==
  \A i \in DOMAIN feed : Says(feed[i], k, e) =>
    \/ Meant(feed[i], k) = said[<<k, e>>]
    \/ \E j \in (i + 1)..Len(feed) : Says(feed[j], k, e)
    \/ PendSays(k, e)

PendLast(k, e) ==
  \A ev \in Events : pend[e] = <<ev>> /\ Says(ev, k, e) => Meant(ev, k) = said[<<k, e>>]

LastInv ==
  \A k \in Kinds, e \in Entities : LoopLast(k, e) /\ FeedLast(k, e) /\ PendLast(k, e)

\* Before eventLoop lists the entities it has not heard of the state they are in.
ListInv ==
  Has(0, "list", None) =>
    \A e \in Entities :
      registry[e] # None => said[<<"avail", e>>] = "online" \/ FeedSays("avail", e)

\* The broker has it, or will get it.
Shown(k, e) ==
  registry[e] # None =>
    \/ retained[<<k, e>>] = said[<<k, e>>] \/ <<k, e>> \in overtaken
    \/ link # "up" \/ Coming(k, e) \/ Redo(k, e)

Gone(e) ==
  registry[e] = None =>
    \/ retained[<<"config", e>>] = None \/ <<"config", e>> \in overtaken \cup lost
    \/ <<<<"config", e>>, None>> \in store \/ Coming("config", e)

StateShown(e) ==
  \/ retained[<<"state", e>>] = said[<<"state", e>>] \/ <<"state", e>> \in overtaken \cup lost
  \/ <<<<"state", e>>, said[<<"state", e>>]>> \in store \/ Coming("state", e)

MirrorInv ==
  \A e \in Entities :
    (\A k \in {"config", "avail"} : Shown(k, e)) /\ Gone(e) /\ StateShown(e)

\* Until Stop says so the client has no message that the agent is offline.
StatusInv ==
  tpc \in {"new", "starting", "started"} =>
    /\ \A v : <<status, v>> \in store => v = "online"
    /\ link = "up" =>
         retained[status] = "online" \/ \E g \in Routines : Has(g, "status", None)

IInv == TypeOK /\ StartInv /\ PendInv /\ WorkInv /\ KnowInv /\ LastInv /\ ListInv
          /\ MirrorInv /\ StatusInv

-----------------------------------------------------------------------------
(* Facts about the steps *)

USE DEF loop

\* What is left of a handler after its first step.
LEMMA Tails ==
  ASSUME TypeOK, NEW g \in Routines, work[g] # <<>>, Rest(g)
  PROVE  /\ work' \in [Routines -> Seq(Steps)]
         /\ Head(work[g]) = work[g][1] /\ Head(work[g]) \in Steps
         /\ Len(work[g]) \in Nat \ {0} /\ Len(work'[g]) = Len(work[g]) - 1
         /\ \A i \in 1..(Len(work[g]) - 1) : work'[g][i] = work[g][i + 1]
         /\ \A h \in Routines \ {g} : work'[h] = work[h]
<1>1. work \in [Routines -> Seq(Steps)] /\ work' = [work EXCEPT ![g] = Tail(work[g])]
  BY DEF TypeOK, Rest
<1>2. work[g] \in Seq(Steps) /\ work'[g] = Tail(work[g])
  BY <1>1
<1>3. QED
  BY <1>1, <1>2

\* handleEvent, case by case.
LEMMA Handles ==
  ASSUME NEW ev \in Events
  PROVE  /\ ev.type = "changed" => Handle(ev) = Added(ev.id, ev.val)
         /\ ev.type = "removed" => Handle(ev) = << Step("forget", ev.id, None), Step("config", ev.id, None) >>
         /\ ev.type \in {"avail", "state"} => Handle(ev) = << Step(ev.type, ev.id, ev.val) >>
         /\ Handle(ev) \in Seq(Steps)
<1>1. ev.type \in {"changed", "removed", "avail", "state"} /\ ev.id \in Entities /\ ev.val \in Values
  BY DEF Events
<1>2. ev.type = "changed" => Handle(ev) = Added(ev.id, ev.val)
  BY Zenon DEF Handle
<1>3. ev.type = "removed" => Handle(ev) = << Step("forget", ev.id, None), Step("config", ev.id, None) >>
  BY DEF Handle
<1>4. ev.type \in {"avail", "state"} => Handle(ev) = << Step(ev.type, ev.id, ev.val) >>
  BY DEF Handle
<1>5. \A k \in Kinds \cup {"know", "forget"}, v \in Values : Step(k, ev.id, v) \in Steps
  BY <1>1 DEF Step, Steps
<1>6. "online" \in Values /\ None \in Values
  BY DEF Values
<1>7. Handle(ev) \in Seq(Steps)
  <2>1. ASSUME NEW a \in Steps, NEW b \in Steps, NEW c \in Steps
        PROVE  <<a>> \in Seq(Steps) /\ <<a, b>> \in Seq(Steps) /\ <<a, b, c>> \in Seq(Steps)
    OBVIOUS
  <2>2. /\ Step("know", ev.id, None) \in Steps /\ Step("forget", ev.id, None) \in Steps
        /\ Step("config", ev.id, ev.val) \in Steps /\ Step("config", ev.id, None) \in Steps
        /\ Step("avail", ev.id, "online") \in Steps
        /\ ev.type \in {"avail", "state"} => Step(ev.type, ev.id, ev.val) \in Steps
    BY <1>1, <1>5, <1>6 DEF Kinds
  <2>3. QED
    BY <1>1, <1>2, <1>3, <1>4, <2>1, <2>2 DEF Added
<1>8. QED
  BY <1>2, <1>3, <1>4, <1>7

\* What List puts in the place of a handler: for every registered entity to know it, to
\* publish its config, and then that it is online.
Snapshot(w) ==
  /\ w \in Seq(Steps)
  /\ \A i \in DOMAIN w :
       /\ w[i].do \in {"know", "config", "avail"}
       /\ w[i].id \in Entities /\ registry[w[i].id] # None
       /\ w[i].do = "config" => w[i].val = registry[w[i].id]
       /\ w[i].do = "avail" => w[i].val = "online"
       /\ w[i].do = "know" => \E j \in (i + 1)..Len(w) : w[j].do = "avail" /\ w[j].id = w[i].id
       /\ w[i].do = "avail" => \E j \in 1..(i - 1) : w[j].do = "know" /\ w[j].id = w[i].id
  /\ \A e \in Entities : registry[e] # None =>
       \A k \in {"config", "avail"} : \E i \in DOMAIN w : w[i].do = k /\ w[i].id = e

\* List puts a snapshot in its place.
LEMMA Lists ==
  ASSUME TypeOK, NEW g \in Routines, List(g)
  PROVE  \E w : Snapshot(w) /\ work' = [work EXCEPT ![g] = w]
<1> DEFINE on == {e \in Entities : registry[e] # None}
           n == Cardinality(on)
           Row(order, i) == Added(order[i], registry[order[i]])
<1>1. n \in Nat
  BY EntitiesAssumption, FS_Subset, FS_CardinalityType
<1>2. PICK order \in [1..n -> on] :
        /\ \A e \in on : \E i \in 1..n : order[i] = e
        /\ work' = [work EXCEPT ![g] =
                      [i \in 1..(3 * n) |-> Row(order, (i + 2) \div 3)[1 + ((i + 2) % 3)]]]
  BY DEF List
<1> DEFINE w == [i \in 1..(3 * n) |-> Row(order, (i + 2) \div 3)[1 + ((i + 2) % 3)]]
<1> HIDE DEF on, n
<1>3. ASSUME NEW j \in 1..n
      PROVE  /\ 3 * j - 2 \in 1..(3 * n) /\ 3 * j - 1 \in 1..(3 * n) /\ 3 * j \in 1..(3 * n)
             /\ w[3 * j - 2] = Step("know", order[j], None)
             /\ w[3 * j - 1] = Step("config", order[j], registry[order[j]])
             /\ w[3 * j] = Step("avail", order[j], "online")
  <2>1. /\ ((3 * j - 2) + 2) \div 3 = j /\ ((3 * j - 2) + 2) % 3 = 0
        /\ ((3 * j - 1) + 2) \div 3 = j /\ ((3 * j - 1) + 2) % 3 = 1
        /\ ((3 * j) + 2) \div 3 = j /\ ((3 * j) + 2) % 3 = 2
    BY <1>1
  <2>2. /\ 3 * j - 2 \in 1..(3 * n) /\ 3 * j - 1 \in 1..(3 * n) /\ 3 * j \in 1..(3 * n)
    BY <1>1
  <2>3. /\ Row(order, j)[1 + 0] = Step("know", order[j], None)
        /\ Row(order, j)[1 + 1] = Step("config", order[j], registry[order[j]])
        /\ Row(order, j)[1 + 2] = Step("avail", order[j], "online")
    BY DEF Added
  <2> HIDE DEF Row
  <2>4. QED
    BY <2>1, <2>2, <2>3
<1>4. ASSUME NEW i \in 1..(3 * n)
      PROVE  \E j \in 1..n : i \in {3 * j - 2, 3 * j - 1, 3 * j}
  <2>1. (i + 2) \div 3 \in 1..n
    BY <1>1
  <2>2. i \in {3 * ((i + 2) \div 3) - 2, 3 * ((i + 2) \div 3) - 1, 3 * ((i + 2) \div 3)}
    BY <1>1
  <2>3. QED
    BY <2>1, <2>2
<1>5. \A j \in 1..n : order[j] \in Entities /\ registry[order[j]] # None
                      /\ registry[order[j]] \in Data
  BY DEF on, TypeOK
<1>6. DOMAIN w = 1..(3 * n)
  OBVIOUS
<1> HIDE DEF w
<1>7. \A i \in 1..(3 * n) : w[i] \in Steps
  <2> SUFFICES ASSUME NEW i \in 1..(3 * n) PROVE w[i] \in Steps
    OBVIOUS
  <2>1. PICK j \in 1..n : i \in {3 * j - 2, 3 * j - 1, 3 * j}
    BY <1>4
  <2>2. \A k \in Kinds \cup {"know", "forget"}, v \in Values : Step(k, order[j], v) \in Steps
    BY <1>5 DEF Steps, Step
  <2>3. /\ None \in Values /\ "online" \in Values /\ registry[order[j]] \in Values
        /\ {"config", "avail"} \subseteq Kinds
    BY <1>5 DEF Values, Kinds
  <2>4. w[i] \in {Step("know", order[j], None), Step("config", order[j], registry[order[j]]),
                  Step("avail", order[j], "online")}
    BY <1>3, <2>1
  <2>5. QED
    BY <2>2, <2>3, <2>4
<1>8. w \in Seq(Steps)
  <2>1. w = [i \in 1..(3 * n) |-> w[i]]
    BY <1>6 DEF w
  <2>2. w \in [1..(3 * n) -> Steps]
    BY <1>7, <2>1
  <2>3. ASSUME NEW m \in Nat, NEW s \in [1..m -> Steps] PROVE s \in Seq(Steps)
    OBVIOUS
  <2>4. 3 * n \in Nat
    BY <1>1
  <2>5. QED
    BY <2>2, <2>3, <2>4
<1>9. Snapshot(w)
  <2>1. ASSUME NEW i \in DOMAIN w
        PROVE  /\ w[i].do \in {"know", "config", "avail"}
               /\ w[i].id \in Entities /\ registry[w[i].id] # None
               /\ w[i].do = "config" => w[i].val = registry[w[i].id]
               /\ w[i].do = "avail" => w[i].val = "online"
               /\ w[i].do = "know" =>
                    \E k \in (i + 1)..Len(w) : w[k].do = "avail" /\ w[k].id = w[i].id
               /\ w[i].do = "avail" =>
                    \E k \in 1..(i - 1) : w[k].do = "know" /\ w[k].id = w[i].id
    <3>1. PICK j \in 1..n : i \in {3 * j - 2, 3 * j - 1, 3 * j}
      BY <1>4, <1>6, <2>1
    <3>2. /\ order[j] \in Entities /\ registry[order[j]] # None
          /\ 3 * j - 2 \in 1..(3 * j - 1) /\ 3 * j \in DOMAIN w
          /\ w[3 * j - 2] = Step("know", order[j], None)
          /\ w[3 * j - 1] = Step("config", order[j], registry[order[j]])
          /\ w[3 * j] = Step("avail", order[j], "online")
      BY <1>1, <1>3, <1>5, <1>6
    <3>3. CASE i = 3 * j - 2
      <4>1. 3 * j \in (i + 1)..Len(w)
        BY <1>1, <1>6, <1>8, <3>2, <3>3
      <4>2. QED
        BY <3>2, <3>3, <4>1 DEF Step
    <3>4. CASE i = 3 * j - 1
      BY <3>2, <3>4 DEF Step
    <3>5. CASE i = 3 * j
      BY <3>2, <3>5 DEF Step
    <3>6. QED
      BY <3>1, <3>3, <3>4, <3>5
  <2>2. ASSUME NEW e \in Entities, registry[e] # None, NEW k \in {"config", "avail"}
        PROVE  \E i \in DOMAIN w : w[i].do = k /\ w[i].id = e
    <3>1. PICK j \in 1..n : order[j] = e
      BY <1>2, <2>2 DEF on
    <3>2. /\ 3 * j - 1 \in DOMAIN w /\ 3 * j \in DOMAIN w
          /\ w[3 * j - 1] = Step("config", e, registry[e])
          /\ w[3 * j] = Step("avail", e, "online")
      BY <1>3, <1>6, <3>1
    <3>3. QED
      BY <3>2 DEF Step
  <2>3. QED
    BY <1>8, <2>1, <2>2 DEF Snapshot
<1>10. work' = [work EXCEPT ![g] = w]
  BY <1>2 DEF w
<1>11. QED
  BY <1>9, <1>10

-----------------------------------------------------------------------------
(* Type correctness *)

\* An event after the others.
LEMMA Appended ==
  ASSUME NEW F \in Seq(Events), NEW ev \in Events
  PROVE  /\ F \o <<ev>> \in Seq(Events) /\ Len(F \o <<ev>>) = Len(F) + 1
         /\ (F \o <<ev>>)[Len(F) + 1] = ev
         /\ \A i \in 1..Len(F) : (F \o <<ev>>)[i] = F[i]
  OBVIOUS

\* A publication: what the broker, the client and the connection have of it.
LEMMA Sends ==
  ASSUME TypeOK, NEW t \in Topics, NEW v \in Values, Send(t, v)
  PROVE  /\ retained' \in [Topics -> Values] /\ lost' \subseteq Topics /\ store' \subseteq Messages
         /\ link' = link \/ (link = "up" /\ link' = "down")
         /\ store \subseteq store' /\ store' \subseteq store \cup {<<t, v>>}
         /\ lost \ {t} \subseteq lost'
         /\ \A u \in Topics \ {t, status} : retained'[u] = retained[u]
         /\ link' = "up" => retained' = [retained EXCEPT ![t] = v]
         /\ t # status => retained'[t] = v \/ t \in lost' \/ <<t, v>> \in store'
<1> USE DEF TypeOK, Will, Keep, Drop, MayBreak, sendVars, Messages
<1>1. status \in Topics /\ "offline" \in Values
  BY DEF Topics, status, Values
<1>2. CASE /\ link = "up"
           /\ retained' = [retained EXCEPT ![t] = v]
           /\ lost' = lost \ {t}
           /\ UNCHANGED sendVars
  BY <1>2
<1>3. CASE /\ MayBreak
           /\ link' = "down"
           /\ retained' = Will([retained EXCEPT ![t] = v])
           /\ Keep(t, v)
  <2>1. retained' \in [Topics -> Values] /\ \A u \in Topics \ {t, status} : retained'[u] = retained[u]
    BY <1>1, <1>3
  <2>2. QED
    BY <1>1, <1>3, <2>1
<1>4. CASE /\ MayBreak
           /\ link' = "down"
           /\ retained' = Will(retained)
           /\ Drop(t)
  BY <1>1, <1>4
<1>5. CASE /\ link = "down"
           /\ Keep(t, v)
           /\ UNCHANGED <<link, retained>>
  BY <1>5
<1>6. CASE /\ link \in {"off", "closed"}
           /\ Drop(t)
           /\ UNCHANGED <<link, retained>>
  BY <1>6
<1>7. QED
  BY <1>2, <1>3, <1>4, <1>5, <1>6 DEF Send

\* The client sends a message again that it has kept.
LEMMA Resends ==
  ASSUME TypeOK, Resend
  PROVE  \E t \in Topics, v \in Values :
           /\ link = "up" /\ <<t, v>> \in store /\ store' = store \ {<<t, v>>}
           /\ retained' = [retained EXCEPT ![t] = v]
           /\ \/ /\ t = status \/ v = said[t]
                 /\ overtaken' = overtaken \ {t} /\ lost' = lost \ {t}
              \/ /\ t # status /\ v # said[t]
                 /\ overtaken' = overtaken \cup {t} /\ UNCHANGED lost
<1>1. PICK m \in store :
        /\ retained' = [retained EXCEPT ![m[1]] = m[2]]
        /\ store' = store \ {m}
        /\ \/ /\ m[1] = status \/ m[2] = said[m[1]]
              /\ overtaken' = overtaken \ {m[1]} /\ lost' = lost \ {m[1]}
           \/ /\ m[1] # status /\ m[2] # said[m[1]]
              /\ overtaken' = overtaken \cup {m[1]} /\ UNCHANGED lost
  BY DEF Resend
<1>2. m[1] \in Topics /\ m[2] \in Values /\ m = <<m[1], m[2]>>
  BY DEF TypeOK, Messages
<1>3. link = "up"
  BY DEF Resend
<1>4. QED
  BY <1>1, <1>2, <1>3

\* The topics, values and steps the code names.
LEMMA Names ==
  /\ status \in Topics /\ Kinds \X Entities \subseteq Topics
  /\ {None, "online", "offline", "unavailable"} \subseteq Values
  /\ Data \subseteq Values /\ States \subseteq Values
  /\ \A s \in Steps : /\ s.val \in Values
                      /\ s.do \in Kinds \cup {"know", "forget"} => s.id \in Entities
  /\ \A v \in Values : <<Step("list", None, v)>> \in Seq(Steps)
  /\ \A v, u \in Values : <<Step("status", None, v), Step("list", None, u)>> \in Seq(Steps)
<1>1. /\ status \in Topics /\ Kinds \X Entities \subseteq Topics
      /\ {None, "online", "offline", "unavailable"} \subseteq Values
      /\ Data \subseteq Values /\ States \subseteq Values
  BY DEF Topics, status, Values
<1>2. \A s \in Steps : /\ s.val \in Values
                       /\ s.do \in Kinds \cup {"know", "forget"} => s.id \in Entities
  BY DEF Steps, Kinds
<1>3. \A v \in Values : Step("list", None, v) \in Steps /\ Step("status", None, v) \in Steps
  BY DEF Steps, Step
<1>4. \A a, b \in Steps : <<a>> \in Seq(Steps) /\ <<a, b>> \in Seq(Steps)
  OBVIOUS
<1>5. QED
  BY <1>1, <1>2, <1>3, <1>4

\* At first nothing is known, said or under way.
LEMMA InitIInv == Init => IInv
<1> SUFFICES ASSUME Init PROVE IInv
  OBVIOUS
<1> USE BoundsAssumption DEF Init
<1>1. /\ registry \in [Entities -> Data \cup {None}]
      /\ pend \in [Entities -> {<<>>} \cup {<<ev>> : ev \in Events}]
      /\ calls \in 0..MaxCalls /\ connects \in 0..MaxConnects
      /\ feed \in Seq(Events) /\ work \in [Routines -> Seq(Steps)]
      /\ {retained, said} \subseteq [Topics -> Values]
  BY DEF Values
<1>2. {subscribed, ctxDone, loopDone} \subseteq BOOLEAN
  BY Zenon
<1>3. TypeOK
  BY <1>1, <1>2 DEF TypeOK
<1>4. \A e \in Entities : /\ registry[e] = None /\ pend[e] = <<>>
                          /\ \A k \in Kinds : said[<<k, e>>] = None /\ retained[<<k, e>>] = None
  BY DEF Topics
<1>5. 0 \in Routines /\ \A g \in Routines : DOMAIN work[g] = {}
  BY DEF Routines
<1>6. DOMAIN feed = {}
  OBVIOUS
<1>7. StartInv
  BY <1>4 DEF StartInv
<1>8. PendInv
  <2>1. \A e \in Entities, ev \in Events : pend[e] # <<ev>>
    BY <1>4
  <2>2. QED
    BY <1>4, <2>1 DEF PendInv, PendOf, Kinds
<1>9. WorkInv /\ KnowInv
  BY <1>4, <1>5, <1>6 DEF WorkInv, ShapeOf, LoopShape, KnowInv
<1>10. LastInv
  <2>1. \A e \in Entities, ev \in Events : pend[e] # <<ev>>
    BY <1>4
  <2>2. QED
    BY <1>5, <1>6, <2>1 DEF LastInv, LoopLast, FeedLast, PendLast
<1>11. ListInv
  BY <1>5 DEF ListInv, Has
<1>12. MirrorInv
  BY <1>4 DEF MirrorInv, Shown, Gone, StateShown, Kinds
<1>13. StatusInv
  BY DEF StatusInv
<1>14. QED
  BY <1>3, <1>7, <1>8, <1>9, <1>10, <1>11, <1>12, <1>13 DEF IInv

\* Every action keeps the types.
LEMMA StepTypeOK == TypeOK /\ [Next]_vars => TypeOK'
<1> SUFFICES ASSUME TypeOK, [Next]_vars PROVE TypeOK'
  OBVIOUS
<1> USE BoundsAssumption DEF TypeOK, coreVars, runVars, sendVars, netVars, pubVars, Publish
<1>1. ASSUME NEW e \in Entities, NEW d \in Data, Change(e, d) PROVE TypeOK'
  <2> DEFINE ev == [type |-> "changed", id |-> e, val |-> d]
  <2>1. ev \in Events /\ <<"config", e>> \in Topics /\ <<"avail", e>> \in Topics
    BY <1>1, Names DEF Events, Kinds
  <2>2. said' \in [Topics -> Values]
    BY <1>1, <2>1, Names DEF Change
  <2>3. calls' \in 0..MaxCalls
    BY <1>1 DEF Change, MayCall
  <2>4. pend' \in [Entities -> {<<>>} \cup {<<x>> : x \in Events}]
    BY <1>1, <2>1, Appended DEF Change
  <2> HIDE DEF ev
  <2>5. QED
    BY <1>1, <2>1, <2>2, <2>3, <2>4 DEF Change
<1>2. ASSUME NEW e \in Entities, Remove(e) PROVE TypeOK'
  BY <1>2 DEF Remove, Events, Values, Topics, Kinds
<1>3. ASSUME NEW e \in Entities, Announce(e) PROVE TypeOK'
  <2>1. PICK ev \in Events : pend[e] = <<ev>>
    BY <1>3 DEF Announce
  <2>2. feed' \in Seq(Events)
    BY <1>3, <2>1, Appended DEF Announce
  <2>3. pend' \in [Entities -> {<<>>} \cup {<<x>> : x \in Events}]
    BY <1>3 DEF Announce
  <2>4. QED
    BY <1>3, <2>2, <2>3 DEF Announce
<1>4. ASSUME NEW e \in Entities, NEW k \in {"state", "avail"},
             NEW v \in States \cup {"online", "unavailable"}, Say(k, e, v) PROVE TypeOK'
  <2> DEFINE ev == [type |-> k, id |-> e, val |-> v]
  <2>1. ev \in Events /\ <<k, e>> \in Topics /\ v \in Values
    BY <1>4, Names DEF Events, Kinds
  <2>2. said' \in [Topics -> Values]
    BY <1>4, <2>1, Names DEF Say
  <2>3. calls' \in 0..MaxCalls
    BY <1>4 DEF Say, MayCall
  <2>4. feed' \in Seq(Events)
    BY <1>4, <2>1, Appended DEF Say
  <2> HIDE DEF ev
  <2>5. QED
    BY <1>4, <2>1, <2>2, <2>3, <2>4 DEF Say
<1>5. CASE LoopSubscribe
  <2>1. 0 \in Routines
    BY DEF Routines
  <2>2. work' \in [Routines -> Seq(Steps)]
        /\ \A h \in Routines \ {0} : work'[h] = work[h]
    BY <1>5, <2>1, Names DEF LoopSubscribe
  <2>3. {subscribed', ctxDone', loopDone'} \subseteq BOOLEAN
    BY <1>5, Zenon DEF LoopSubscribe
  <2>4. QED
    BY <1>5, <2>2, <2>3 DEF LoopSubscribe
<1>6. CASE LoopEvent
  <2>1. 0 \in Routines /\ Head(feed) \in Events /\ feed' \in Seq(Events)
    BY <1>6 DEF LoopEvent, Routines
  <2>2. Handle(Head(feed)) \in Seq(Steps)
    BY <2>1, Handles
  <2>3. work' \in [Routines -> Seq(Steps)]
        /\ \A h \in Routines \ {0} : work'[h] = work[h]
    BY <1>6, <2>1, <2>2 DEF LoopEvent
  <2>4. QED
    BY <1>6, <2>1, <2>3 DEF LoopEvent
<1>7. ASSUME NEW g \in Routines, Know(g) PROVE TypeOK'
  <2>1. Head(work[g]) \in Steps /\ work' \in [Routines -> Seq(Steps)]
        /\ \A h \in Routines : work[h] = <<>> => work'[h] = <<>>
    BY <1>7, Tails DEF Know, Rest
  <2>2. known' \subseteq Entities
    BY <1>7, <2>1, Names DEF Know
  <2>3. QED
    BY <1>7, <2>1, <2>2 DEF Know
<1>8. ASSUME NEW g \in Routines, List(g) PROVE TypeOK'
  <2>1. PICK w : Snapshot(w) /\ work' = [work EXCEPT ![g] = w]
    BY <1>8, Lists
  <2>2. w \in Seq(Steps) /\ work[g] # <<>>
    BY <1>8, <2>1 DEF Snapshot, List
  <2>3. work' \in [Routines -> Seq(Steps)]
        /\ \A h \in Routines : work[h] = <<>> => work'[h] = <<>>
    BY <2>1, <2>2
  <2>4. QED
    BY <1>8, <2>3 DEF List
<1>9. ASSUME NEW g \in Routines, PublishEntity(g) PROVE TypeOK'
  <2> DEFINE st == Head(work[g])
             t == <<st.do, st.id>>
  <2>1. st \in Steps /\ work' \in [Routines -> Seq(Steps)]
        /\ \A h \in Routines : work[h] = <<>> => work'[h] = <<>>
    BY <1>9, Tails DEF PublishEntity, Rest
  <2>2. t \in Topics /\ st.val \in Values
    BY <1>9, <2>1, Names DEF PublishEntity
  <2>3. /\ retained' \in [Topics -> Values] /\ lost' \subseteq Topics /\ store' \subseteq Messages
        /\ link' = link \/ (link = "up" /\ link' = "down")
    <3>1. CASE Send(t, st.val)
      BY <2>2, <3>1, Sends
    <3>2. CASE UNCHANGED <<sendVars, pubVars>>
      BY <3>2
    <3>3. QED
      BY <1>9, <3>1, <3>2 DEF PublishEntity
  <2>4. overtaken' \subseteq Topics
    BY <1>9, <2>2 DEF PublishEntity
  <2>5. QED
    BY <1>9, <2>1, <2>3, <2>4 DEF PublishEntity
<1>10. ASSUME NEW g \in Routines, PublishStatus(g) PROVE TypeOK'
  <2>1. work' \in [Routines -> Seq(Steps)]
        /\ \A h \in Routines : work[h] = <<>> => work'[h] = <<>>
    BY <1>10, Tails DEF PublishStatus, Rest
  <2>2. /\ retained' \in [Topics -> Values] /\ lost' \subseteq Topics /\ store' \subseteq Messages
        /\ link' = link \/ (link = "up" /\ link' = "down")
    BY <1>10, Names, Sends DEF PublishStatus
  <2>3. QED
    BY <1>10, <2>1, <2>2 DEF PublishStatus
<1>11. CASE Start
  BY <1>11 DEF Start
<1>12. CASE StartReturn
  BY <1>12 DEF StartReturn
<1>13. CASE LoopExit
  BY <1>13 DEF LoopExit
<1>14. CASE Connect
  <2>1. connects + 1 \in Routines /\ connects' \in 0..MaxConnects
    BY <1>14 DEF Connect, Routines
  <2>2. work' \in [Routines -> Seq(Steps)]
        /\ \A h \in Routines \ {connects + 1} : work'[h] = work[h]
    BY <1>14, <2>1, Names DEF Connect
  <2>3. \A g \in Routines : g > connects' => g = 0 \/ work'[g] = <<>>
    <3>1. ASSUME NEW g \in Routines, g > connects' PROVE work'[g] = <<>> \/ g = 0
      <4>1. connects' = connects + 1 /\ connects \in Nat /\ g \in Nat
        BY <1>14, <2>1 DEF Connect, Routines
      <4>2. g # connects + 1 /\ g > connects
        BY <3>1, <4>1
      <4>3. QED
        BY <2>2, <4>2
    <3>2. QED
      BY <3>1
  <2>4. link' \in {"off", "up", "down", "closed"} /\ (tpc' = "stopped" => link' = "closed")
    BY <1>14 DEF Connect
  <2>5. UNCHANGED <<registry, pend, calls, said, feed, known, tpc, ctxDone, loopDone, subscribed,
                    store, retained, lost, overtaken>>
    BY <1>14 DEF Connect
  <2>6. QED
    BY <2>1, <2>2, <2>3, <2>4, <2>5
<1>15. CASE Disconnected
  <2>1. retained' \in [Topics -> Values]
    BY <1>15, Names DEF Disconnected, Will
  <2>2. QED
    BY <1>15, <2>1 DEF Disconnected, MayBreak
<1>16. CASE Cancel
  BY <1>16 DEF Cancel
<1>17. CASE Stop
  BY <1>17 DEF Stop
<1>18. CASE StopTimeout
  BY <1>18 DEF StopTimeout
<1>19. CASE StopOffline
  <2>1. /\ retained' \in [Topics -> Values] /\ lost' \subseteq Topics /\ store' \subseteq Messages
        /\ link' = link \/ (link = "up" /\ link' = "down")
    BY <1>19, Names, Sends DEF StopOffline
  <2>2. QED
    BY <1>19, <2>1 DEF StopOffline
<1>20. CASE StopDisconnect
  BY <1>20 DEF StopDisconnect
<1>21. CASE Resend
  <2>1. retained' \in [Topics -> Values] /\ overtaken' \subseteq Topics /\ lost' \subseteq Topics
        /\ store' \subseteq Messages
    BY <1>21, Resends
  <2>2. QED
    BY <1>21, <2>1 DEF Resend
<1>22. CASE UNCHANGED vars
  BY <1>22 DEF vars
<1>23. QED
  BY <1>1, <1>2, <1>3, <1>4, <1>5, <1>6, <1>7, <1>8, <1>9, <1>10, <1>11, <1>12,
     <1>13, <1>14, <1>15, <1>16, <1>17, <1>18, <1>19, <1>20, <1>21, <1>22
     DEF Next, RoutineStep, StopStep
-----------------------------------------------------------------------------
(* What a step does to the work of the goroutines *)

\* A handler without its first step has the others.
LEMMA HasRest ==
  ASSUME TypeOK, NEW g \in Routines, work[g] # <<>>, Rest(g), NEW k, NEW e
  PROVE  /\ \A h \in Routines \ {g} : Has(h, k, e)' <=> Has(h, k, e)
         /\ Has(g, k, e)' => Has(g, k, e)
         /\ Has(g, k, e) => Has(g, k, e)' \/ (Head(work[g]).do = k /\ Head(work[g]).id = e)
<1>1. \A h \in Routines \ {g} : Has(h, k, e)' <=> Has(h, k, e)
  BY Tails DEF Has
<1>2. /\ work[g] \in Seq(Steps) /\ work'[g] \in Seq(Steps)
      /\ Len(work[g]) \in Nat \ {0} /\ Len(work'[g]) = Len(work[g]) - 1
      /\ \A i \in 1..(Len(work[g]) - 1) : work'[g][i] = work[g][i + 1]
      /\ Head(work[g]) = work[g][1]
  BY Tails DEF TypeOK
<1>3. ASSUME Has(g, k, e)' PROVE Has(g, k, e)
  <2>1. PICK i \in DOMAIN work'[g] : work'[g][i].do = k /\ work'[g][i].id = e
    BY <1>3 DEF Has
  <2>2. i + 1 \in DOMAIN work[g] /\ work'[g][i] = work[g][i + 1]
    BY <1>2, <2>1
  <2>3. QED
    BY <2>1, <2>2 DEF Has
<1>4. ASSUME Has(g, k, e) PROVE Has(g, k, e)' \/ (Head(work[g]).do = k /\ Head(work[g]).id = e)
  <2>1. PICK i \in DOMAIN work[g] : work[g][i].do = k /\ work[g][i].id = e
    BY <1>4 DEF Has
  <2>2. CASE i = 1
    BY <1>2, <2>1, <2>2
  <2>3. CASE i # 1
    <3>1. i - 1 \in DOMAIN work'[g] /\ work'[g][i - 1] = work[g][i]
      BY <1>2, <2>1, <2>3
    <3>2. QED
      BY <2>1, <3>1 DEF Has
  <2>4. QED
    BY <2>2, <2>3
<1>5. QED
  BY <1>1, <1>3, <1>4

\* The event eventLoop takes, and the others.
LEMMA FeedTail ==
  ASSUME TypeOK, feed # <<>>, feed' = Tail(feed)
  PROVE  /\ feed' \in Seq(Events) /\ Len(feed) \in Nat \ {0} /\ Len(feed') = Len(feed) - 1
         /\ \A i \in 1..(Len(feed) - 1) : feed'[i] = feed[i + 1]
         /\ Head(feed) = feed[1] /\ feed[1] \in Events
  BY DEF TypeOK

\* handleEvent publishes what the event says, and leaves lists and the status alone.
LEMMA Handled ==
  ASSUME NEW ev \in Events
  PROVE  /\ \A i \in DOMAIN Handle(ev) :
              /\ Handle(ev)[i].do \in Kinds \cup {"know", "forget"}
              /\ Handle(ev)[i].id = ev.id
              /\ Handle(ev)[i].do \in Kinds => /\ Says(ev, Handle(ev)[i].do, ev.id)
                                               /\ Handle(ev)[i].val = Meant(ev, Handle(ev)[i].do)
              /\ Handle(ev)[i].do = "know" => ev.type = "changed"
              /\ Handle(ev)[i].do = "forget" =>
                   /\ ev.type = "removed"
                   /\ \A j \in DOMAIN Handle(ev) \ {i} : Handle(ev)[j].do = "config"
              /\ Handle(ev)[i].do = "know" =>
                   \E j \in (i + 1)..Len(Handle(ev)) : Handle(ev)[j].do = "avail"
              /\ Handle(ev)[i].do \in {"avail", "state"} =>
                   \/ ev.type = Handle(ev)[i].do
                   \/ \E j \in 1..(i - 1) : Handle(ev)[j].do = "know"
         /\ \A k \in Kinds : Says(ev, k, ev.id) =>
              \E i \in DOMAIN Handle(ev) : Handle(ev)[i].do = k /\ Handle(ev)[i].id = ev.id
         /\ ev.type = "changed" =>
              \E i \in DOMAIN Handle(ev) : Handle(ev)[i].do = "know" /\ Handle(ev)[i].id = ev.id
<1>1. ev.type \in {"changed", "removed", "avail", "state"}
  BY DEF Events
<1>2. CASE ev.type = "changed"
  <2>1. Handle(ev) = << Step("know", ev.id, None), Step("config", ev.id, ev.val),
                        Step("avail", ev.id, "online") >>
    BY <1>2, Handles DEF Added
  <2>2. Says(ev, "config", ev.id) /\ Says(ev, "avail", ev.id) /\ ~Says(ev, "state", ev.id)
        /\ Meant(ev, "config") = ev.val /\ Meant(ev, "avail") = "online"
    BY <1>2 DEF Says, Meant
  <2>3. QED
    BY <1>2, <2>1, <2>2 DEF Step, Kinds
<1>3. CASE ev.type = "removed"
  <2>1. Handle(ev) = << Step("forget", ev.id, None), Step("config", ev.id, None) >>
    BY <1>3, Handles
  <2>2. Says(ev, "config", ev.id) /\ ~Says(ev, "avail", ev.id) /\ ~Says(ev, "state", ev.id)
        /\ Meant(ev, "config") = None
    BY <1>3 DEF Says, Meant
  <2>3. QED
    BY <1>3, <2>1, <2>2 DEF Step, Kinds
<1>4. CASE ev.type \in {"avail", "state"}
  <2>1. Handle(ev) = << Step(ev.type, ev.id, ev.val) >>
    BY <1>4, Handles
  <2>2. \A k \in Kinds : Says(ev, k, ev.id) <=> ev.type = k
    BY <1>4 DEF Says, Kinds
  <2>3. Meant(ev, ev.type) = ev.val
    BY <1>4 DEF Meant
  <2>4. QED
    BY <1>4, <2>1, <2>2, <2>3 DEF Step, Kinds
<1>5. QED
  BY <1>1, <1>2, <1>3, <1>4

\* A step of another goroutine, of the client or of Stop.
Side == /\ UNCHANGED <<registry, pend, said, feed>>
        /\ work'[0] = work[0] /\ known \subseteq known'

\* Every other step is one of eventLoop, or of the core.
LEMMA Sides ==
  ASSUME TypeOK, WorkInv, [Next]_vars
  PROVE  \/ Side \/ LoopSubscribe \/ LoopEvent \/ Know(0) \/ List(0) \/ PublishEntity(0)
         \/ \E e \in Entities : \/ Remove(e) \/ Announce(e)
                                \/ \E d \in Data : Change(e, d)
                                \/ \E k \in {"state", "avail"}, v \in Values : Say(k, e, v)
<1>0. 0 \in Routines
  BY BoundsAssumption DEF Routines
<1> USE DEF coreVars, runVars, sendVars, netVars, pubVars
<1>1. ASSUME NEW g \in Routines, g # 0, Know(g) PROVE Side
  <2>1. work[g] # <<>> /\ Head(work[g]).do \in {"know", "forget"} /\ Rest(g)
    BY <1>1 DEF Know
  <2>2. work'[0] = work[0] /\ 1 \in DOMAIN work[g] /\ Head(work[g]) = work[g][1]
    BY <1>0, <1>1, <2>1, Tails DEF TypeOK
  <2>3. Head(work[g]).do = "know"
    BY <1>1, <2>1, <2>2 DEF WorkInv, ShapeOf
  <2>4. QED
    BY <1>1, <2>2, <2>3 DEF Know, Side
<1>2. ASSUME NEW g \in Routines, g # 0, List(g) PROVE Side
  <2>1. PICK w : work' = [work EXCEPT ![g] = w]
    BY <1>2, Lists
  <2>2. work'[0] = work[0]
    BY <1>0, <1>2, <2>1 DEF TypeOK
  <2>3. QED
    BY <1>2, <2>2 DEF List, Side
<1>3. ASSUME NEW g \in Routines, g # 0, PublishEntity(g) PROVE Side
  <2>1. work[g] # <<>> /\ Rest(g)
    BY <1>3 DEF PublishEntity
  <2>2. work'[0] = work[0]
    BY <1>0, <1>3, <2>1, Tails
  <2>3. QED
    BY <1>3, <2>2 DEF PublishEntity, Side
<1>4. ASSUME NEW g \in Routines, PublishStatus(g) PROVE Side
  <2>1. work[g] # <<>> /\ Rest(g) /\ Head(work[g]).do = "status"
    BY <1>4 DEF PublishStatus
  <2>2. 1 \in DOMAIN work[g] /\ Head(work[g]) = work[g][1]
    BY <2>1, Tails DEF TypeOK
  <2>3. g # 0
    BY <2>1, <2>2 DEF WorkInv, ShapeOf
  <2>4. work'[0] = work[0]
    BY <1>0, <2>1, <2>3, Tails
  <2>5. QED
    BY <1>4, <2>4 DEF PublishStatus, Side
<1>5. CASE Connect
  <2>1. work'[0] = work[0]
    BY <1>0, <1>5 DEF Connect, TypeOK
  <2>2. QED
    BY <1>5, <2>1 DEF Connect, Side
<1>6. CASE Start \/ StartReturn \/ LoopExit \/ Disconnected \/ Resend \/ StopStep \/ UNCHANGED vars
  BY <1>6 DEF Start, StartReturn, LoopExit, Disconnected, Resend, StopStep, Cancel, Stop, StopTimeout,
              StopOffline, StopDisconnect, vars, Side
<1>7. \A v \in States \cup {"online", "unavailable"} : v \in Values
  BY DEF Values
<1>8. QED
  BY <1>1, <1>2, <1>3, <1>4, <1>5, <1>6, <1>7 DEF Next, RoutineStep

-----------------------------------------------------------------------------
(* The invariants of the start, of the registry, and of the handlers *)

\* Nothing happens in the core before eventLoop has subscribed.
LEMMA StepStart == TypeOK /\ StartInv /\ [Next]_vars => StartInv'
<1> SUFFICES ASSUME TypeOK, StartInv, [Next]_vars PROVE StartInv'
  OBVIOUS
<1> USE DEF StartInv, coreVars, runVars, sendVars, netVars, pubVars
<1>1. ASSUME NEW e \in Entities, NEW d \in Data, Change(e, d) PROVE StartInv'
  BY <1>1 DEF Change, MayCall
<1>2. ASSUME NEW e \in Entities, Remove(e) PROVE StartInv'
  BY <1>2 DEF Remove
<1>3. ASSUME NEW e \in Entities, Announce(e) PROVE StartInv'
  BY <1>3 DEF Announce, Publish
<1>4. ASSUME NEW e \in Entities, NEW k \in {"state", "avail"},
             NEW v \in States \cup {"online", "unavailable"}, Say(k, e, v) PROVE StartInv'
  BY <1>4 DEF Say, MayCall
<1>5. CASE LoopSubscribe
  BY <1>5 DEF LoopSubscribe
<1>6. CASE LoopEvent
  BY <1>6 DEF LoopEvent
<1>7. ASSUME NEW g \in Routines, Know(g) PROVE StartInv'
  BY <1>7 DEF Know
<1>8. ASSUME NEW g \in Routines, List(g) PROVE StartInv'
  BY <1>8 DEF List
<1>9. ASSUME NEW g \in Routines, PublishEntity(g) PROVE StartInv'
  BY <1>9 DEF PublishEntity
<1>10. ASSUME NEW g \in Routines, PublishStatus(g) PROVE StartInv'
  BY <1>10 DEF PublishStatus
<1>11. CASE Start
  BY <1>11 DEF Start
<1>12. CASE StartReturn
  BY <1>12 DEF StartReturn
<1>13. CASE LoopExit
  BY <1>13 DEF LoopExit
<1>14. CASE Connect
  BY <1>14 DEF Connect
<1>15. CASE Disconnected
  BY <1>15 DEF Disconnected
<1>16. CASE Cancel
  BY <1>16 DEF Cancel
<1>17. CASE Stop
  BY <1>17 DEF Stop
<1>18. CASE StopTimeout
  BY <1>18 DEF StopTimeout
<1>19. CASE StopOffline
  BY <1>19 DEF StopOffline
<1>20. CASE StopDisconnect
  BY <1>20 DEF StopDisconnect
<1>21. CASE Resend
  BY <1>21 DEF Resend
<1>22. CASE UNCHANGED vars
  BY <1>22 DEF vars
<1>23. QED
  BY <1>1, <1>2, <1>3, <1>4, <1>5, <1>6, <1>7, <1>8, <1>9, <1>10, <1>11, <1>12,
     <1>13, <1>14, <1>15, <1>16, <1>17, <1>18, <1>19, <1>20, <1>21, <1>22
     DEF Next, RoutineStep, StopStep


\* A call changes the registry, what was said and the event under way together.
LEMMA StepPend == TypeOK /\ WorkInv /\ PendInv /\ [Next]_vars => PendInv'
<1> SUFFICES ASSUME TypeOK, WorkInv, PendInv, [Next]_vars PROVE PendInv'
  OBVIOUS
<1> USE DEF coreVars
<1>1. ASSUME NEW f \in Entities,
             registry'[f] = registry[f], pend'[f] = pend[f],
             said'[<<"config", f>>] = said[<<"config", f>>]
      PROVE  PendOf(f)'
  <2>1. PendOf(f)
    BY DEF PendInv
  <2>2. QED
    BY <1>1, <2>1 DEF PendOf
<1>2. /\ registry \in [Entities -> Data \cup {None}] /\ said \in [Topics -> Values]
      /\ pend \in [Entities -> {<<>>} \cup {<<ev>> : ev \in Events}]
  BY DEF TypeOK
<1>3. \A f, e \in Entities, k \in Kinds :
        <<"config", f>> \in Topics /\ <<k, e>> \in Topics
        /\ (<<"config", f>> = <<k, e>> => k = "config" /\ e = f)
  BY Names DEF Kinds
<1>4. CASE UNCHANGED <<registry, pend, said>>
  BY <1>1, <1>4 DEF PendInv
<1>5. ASSUME NEW e \in Entities, NEW d \in Data, Change(e, d) PROVE PendInv'
  <2>1. d # None
    BY NamesAssumption
  <2>2. said'[<<"config", e>>] = d /\ registry'[e] = d
        /\ pend'[e] = <<[type |-> "changed", id |-> e, val |-> d]>>
    BY <1>2, <1>3, <1>5 DEF Change, Kinds
  <2>3. PendOf(e)'
    BY <2>1, <2>2 DEF PendOf
  <2>4. \A f \in Entities \ {e} : /\ said'[<<"config", f>>] = said[<<"config", f>>]
                                 /\ registry'[f] = registry[f] /\ pend'[f] = pend[f]
    BY <1>2, <1>3, <1>5 DEF Change, Kinds
  <2>5. QED
    BY <1>1, <2>3, <2>4 DEF PendInv
<1>6. ASSUME NEW e \in Entities, Remove(e) PROVE PendInv'
  <2>1. said'[<<"config", e>>] = None /\ registry'[e] = None
        /\ pend'[e] = <<[type |-> "removed", id |-> e, val |-> registry[e]]>>
    BY <1>2, <1>3, <1>6 DEF Remove, Kinds
  <2>2. PendOf(e)'
    BY <2>1 DEF PendOf
  <2>3. \A f \in Entities \ {e} : /\ said'[<<"config", f>>] = said[<<"config", f>>]
                                 /\ registry'[f] = registry[f] /\ pend'[f] = pend[f]
    BY <1>2, <1>3, <1>6 DEF Remove, Kinds
  <2>4. QED
    BY <1>1, <2>2, <2>3 DEF PendInv
<1>7. ASSUME NEW e \in Entities, Announce(e) PROVE PendInv'
  <2>1. pend'[e] = <<>> /\ \A f \in Entities \ {e} : pend'[f] = pend[f]
    BY <1>2, <1>7 DEF Announce
  <2>2. UNCHANGED <<registry, said>>
    BY <1>7 DEF Announce
  <2>3. PendOf(e)
    BY DEF PendInv
  <2>4. PendOf(e)'
    BY <2>1, <2>2, <2>3 DEF PendOf
  <2>5. QED
    BY <1>1, <2>1, <2>2, <2>4 DEF PendInv
<1>8. ASSUME NEW e \in Entities, NEW k \in {"state", "avail"}, NEW v \in Values, Say(k, e, v)
      PROVE  PendInv'
  <2>1. UNCHANGED <<registry, pend>> /\ said' = [said EXCEPT ![<<k, e>>] = v]
    BY <1>8 DEF Say
  <2>2. \A f \in Entities : <<"config", f>> \in Topics /\ <<"config", f>> # <<k, e>>
    BY <1>3 DEF Kinds
  <2>3. \A f \in Entities : said'[<<"config", f>>] = said[<<"config", f>>]
    BY <1>2, <2>1, <2>2
  <2>4. QED
    BY <1>1, <2>1, <2>3 DEF PendInv
<1>9. CASE Side \/ LoopSubscribe \/ LoopEvent \/ Know(0) \/ List(0) \/ PublishEntity(0)
  BY <1>4, <1>9 DEF Side, LoopSubscribe, LoopEvent, Know, List, PublishEntity
<1>10. QED
  BY <1>5, <1>6, <1>7, <1>8, <1>9, Sides


\* Taking the first step of a handler, known and to be known stays so.
LEMMA TailShape ==
  ASSUME TypeOK, LoopShape, work[0] # <<>>, Rest(0),
         known' = IF loop[1].do = "know" THEN known \cup {loop[1].id} ELSE known
  PROVE  LoopShape'
<1>1. /\ 0 \in Routines
      /\ loop \in Seq(Steps) /\ work'[0] \in Seq(Steps) /\ Len(loop) \in Nat \ {0}
      /\ Len(work'[0]) = Len(loop) - 1
      /\ \A i \in 1..(Len(loop) - 1) : work'[0][i] = loop[i + 1]
  BY BoundsAssumption, Tails DEF Routines, TypeOK
<1> SUFFICES ASSUME NEW i \in DOMAIN work'[0]
             PROVE  /\ work'[0][i].do = "forget" =>
                         \A j \in DOMAIN work'[0] \ {i} : work'[0][j].do = "config"
                    /\ work'[0][i].do = "know" =>
                         \E j \in (i + 1)..Len(work'[0]) :
                           work'[0][j].do = "avail" /\ work'[0][j].id = work'[0][i].id
                    /\ work'[0][i].do \in {"avail", "state"} =>
                         \/ work'[0][i].id \in known'
                         \/ \E j \in 1..(i - 1) :
                              work'[0][j].do = "know" /\ work'[0][j].id = work'[0][i].id
  BY DEF LoopShape
<1>2. i \in 1..(Len(loop) - 1) /\ i + 1 \in DOMAIN loop /\ work'[0][i] = loop[i + 1]
  BY <1>1, SMTT(30)
<1>3. ASSUME work'[0][i].do = "forget", NEW j \in DOMAIN work'[0] \ {i}
      PROVE  work'[0][j].do = "config"
  <2>1. j \in 1..(Len(loop) - 1) /\ i \in Nat /\ j # i
    BY <1>1, <1>2
  <2>2. j + 1 \in DOMAIN loop /\ j + 1 # i + 1 /\ work'[0][j] = loop[j + 1]
    BY <1>1, <2>1
  <2>3. QED
    BY <1>2, <1>3, <2>2 DEF LoopShape
<1>4. ASSUME work'[0][i].do = "know"
      PROVE  \E j \in (i + 1)..Len(work'[0]) :
               work'[0][j].do = "avail" /\ work'[0][j].id = work'[0][i].id
  <2>1. PICK j \in (i + 1 + 1)..Len(loop) : loop[j].do = "avail" /\ loop[j].id = loop[i + 1].id
    BY <1>2, <1>4 DEF LoopShape
  <2>2. j - 1 \in (i + 1)..Len(work'[0]) /\ work'[0][j - 1] = loop[j]
    BY <1>1, <1>2, <2>1, SMTT(30)
  <2>3. QED
    BY <1>2, <2>1, <2>2
<1>5. ASSUME work'[0][i].do \in {"avail", "state"}
      PROVE  \/ work'[0][i].id \in known'
             \/ \E j \in 1..(i - 1) : work'[0][j].do = "know" /\ work'[0][j].id = work'[0][i].id
  <2>1. CASE loop[i + 1].id \in known
    BY <1>2, <2>1
  <2>2. CASE \E j \in 1..i : loop[j].do = "know" /\ loop[j].id = loop[i + 1].id
    <3>1. PICK j \in 1..i : loop[j].do = "know" /\ loop[j].id = loop[i + 1].id
      BY <2>2
    <3>2. CASE j = 1
      BY <1>2, <3>1, <3>2
    <3>3. CASE j # 1
      <4>1. j - 1 \in 1..(i - 1) /\ work'[0][j - 1] = loop[j]
        BY <1>1, <1>2, <3>1, <3>3
      <4>2. QED
        BY <1>2, <3>1, <4>1
    <3>4. QED
      BY <3>2, <3>3
  <2>3. QED
    BY <1>1, <1>2, <1>5, <2>1, <2>2 DEF LoopShape
<1>6. QED
  BY <1>3, <1>4, <1>5

\* Handlers are taken from the front, and put in place whole.
LEMMA StepWork == TypeOK /\ WorkInv /\ KnowInv /\ [Next]_vars => WorkInv'
<1> SUFFICES ASSUME TypeOK, WorkInv, KnowInv, [Next]_vars PROVE WorkInv'
  OBVIOUS
<1> USE DEF coreVars, runVars, sendVars, netVars, pubVars
<1>1. 0 \in Routines /\ (\A g \in Routines : work[g] \in Seq(Steps) /\ ShapeOf(g)) /\ LoopShape
      /\ \A g \in Routines : work'[g] \in Seq(Steps)
  <2>1. 0 \in Routines
    BY BoundsAssumption DEF Routines
  <2>2. work \in [Routines -> Seq(Steps)] /\ work' \in [Routines -> Seq(Steps)]
    BY StepTypeOK DEF TypeOK
  <2>3. QED
    BY <2>1, <2>2 DEF WorkInv
<1>2. ASSUME NEW g \in Routines, work'[g] = work[g] PROVE ShapeOf(g)'
  BY <1>1, <1>2 DEF ShapeOf
<1>3. ASSUME work'[0] = work[0], known \subseteq known' PROVE LoopShape'
  BY <1>1, <1>3 DEF LoopShape
<1>4. ASSUME NEW g \in Routines, work[g] # <<>>, Rest(g) PROVE \A h \in Routines : ShapeOf(h)'
  <2>1. ASSUME NEW i \in DOMAIN work'[g]
        PROVE  /\ i + 1 \in DOMAIN work[g] /\ work'[g][i] = work[g][i + 1] /\ i \in Nat \ {0}
               /\ (i + 1 = Len(work[g]) => i = Len(work'[g])) /\ i + 1 # 1
    BY <1>1, <1>4, Tails
  <2>2. ShapeOf(g)'
    <3>1. ASSUME NEW i \in DOMAIN work'[g]
          PROVE  /\ work'[g][i].do = "list" => i = Len(work'[g]) /\ (g = 0 => i = 1)
                 /\ work'[g][i].do = "status" => g # 0 /\ i = 1
                 /\ work'[g][i].do \in {"forget", "state"} => g = 0
      BY <1>1, <2>1 DEF ShapeOf
    <3>2. QED
      BY <3>1 DEF ShapeOf
  <2>3. QED
    BY <1>2, <1>4, <2>2, Tails
<1>5. CASE LoopSubscribe
  <2>1. work'[0] = <<Step("list", None, None)>> /\ \A g \in Routines \ {0} : work'[g] = work[g]
    BY <1>1, <1>5 DEF LoopSubscribe, TypeOK
  <2>2. ShapeOf(0)' /\ LoopShape'
    BY <2>1 DEF ShapeOf, LoopShape, Step
  <2>3. QED
    BY <1>2, <2>1, <2>2 DEF WorkInv
<1>6. CASE LoopEvent
  <2> DEFINE h == Handle(Head(feed))
  <2>1. feed # <<>> /\ feed' = Tail(feed) /\ work[0] = <<>> /\ known' = known
        /\ work'[0] = h /\ \A g \in Routines \ {0} : work'[g] = work[g]
    BY <1>1, <1>6 DEF LoopEvent, TypeOK
  <2>2. Head(feed) = feed[1] /\ Head(feed) \in Events /\ h \in Seq(Steps)
        /\ Len(feed) \in Nat \ {0}
    BY <2>1, FeedTail, Handles
  <2>3. feed[1].type \in {"avail", "state"} => feed[1].id \in known
    <3>1. feed[1].type \in {"avail", "state"} => Backed(feed[1].id, 1)
      BY <2>2 DEF KnowInv, TypeOK
    <3>2. ~Has(0, "know", feed[1].id)
      BY <2>1 DEF Has
    <3>3. QED
      BY <3>1, <3>2 DEF Backed, WillKnow
  <2>4. ShapeOf(0)'
    BY <2>1, <2>2, Handled DEF ShapeOf, Kinds
  <2>5. LoopShape'
    <3>1. feed[1].type \in {"avail", "state"} => feed[1].id \in known' /\ feed[1] \in Events
      BY <2>1, <2>2, <2>3
    <3>2. \A i \in DOMAIN h : h[i].id = feed[1].id
      BY <2>2, Handled
    <3> HIDE DEF h
    <3>3. ASSUME NEW i \in DOMAIN h
          PROVE  /\ h[i].do = "forget" => \A j \in DOMAIN h \ {i} : h[j].do = "config"
                 /\ h[i].do = "know" => \E j \in (i + 1)..Len(h) : h[j].do = "avail" /\ h[j].id = h[i].id
                 /\ h[i].do \in {"avail", "state"} =>
                      \/ h[i].id \in known'
                      \/ \E j \in 1..(i - 1) : h[j].do = "know" /\ h[j].id = h[i].id
      <4>1. i \in 1..Len(h) /\ Len(h) \in Nat /\ DOMAIN h = 1..Len(h)
        BY <2>2, <3>3
      <4>2. /\ h[i].do = "forget" => \A j \in DOMAIN h \ {i} : h[j].do = "config"
            /\ h[i].do = "know" => \E j \in (i + 1)..Len(h) : h[j].do = "avail"
            /\ h[i].do \in {"avail", "state"} =>
                 feed[1].type = h[i].do \/ \E j \in 1..(i - 1) : h[j].do = "know"
        BY <2>2, <3>3, Handled DEF h
      <4>3. \A j \in (i + 1)..Len(h) : j \in DOMAIN h
        BY <4>1
      <4>4. \A j \in 1..(i - 1) : j \in DOMAIN h
        BY <4>1
      <4>5. QED
        BY <3>1, <3>2, <3>3, <4>2, <4>3, <4>4
    <3>4. QED
      BY <2>1, <3>3 DEF LoopShape
  <2>6. QED
    BY <1>2, <2>1, <2>4, <2>5 DEF WorkInv
<1>7. ASSUME NEW g \in Routines, Know(g) PROVE WorkInv'
  <2>1. work[g] # <<>> /\ Rest(g) /\ Head(work[g]) = work[g][1] /\ 1 \in DOMAIN work[g]
        /\ Head(work[g]).do \in {"know", "forget"}
    BY <1>1, <1>7, Tails DEF Know
  <2>2. CASE g # 0
    <3>1. Head(work[g]).do # "forget"
      BY <1>1, <2>1, <2>2 DEF ShapeOf
    <3>2. known \subseteq known' /\ work'[0] = work[0]
      BY <1>1, <1>7, <2>1, <2>2, <3>1, Tails DEF Know
    <3>3. QED
      BY <1>3, <1>4, <2>1, <3>2 DEF WorkInv
  <2>3. CASE g = 0
    <3>1. /\ loop \in Seq(Steps) /\ work'[0] \in Seq(Steps) /\ Len(loop) \in Nat \ {0}
          /\ \A i \in DOMAIN work'[0] : i + 1 \in DOMAIN loop /\ work'[0][i] = loop[i + 1]
          /\ Len(work'[0]) = Len(loop) - 1
      BY <1>1, <2>1, <2>3, Tails
    <3>2. CASE loop[1].do = "forget"
      <4>1. \A i \in DOMAIN work'[0] : work'[0][i].do = "config"
        BY <1>1, <2>1, <2>3, <3>1, <3>2 DEF LoopShape
      <4>2. LoopShape'
        BY <4>1 DEF LoopShape
      <4>3. QED
        BY <1>4, <2>1, <4>2 DEF WorkInv
    <3>3. CASE loop[1].do = "know"
      <4>1. known' = known \cup {loop[1].id}
        BY <1>7, <2>1, <2>3, <3>3 DEF Know
      <4>2. LoopShape'
        BY <1>1, <2>1, <2>3, <3>3, <4>1, TailShape
      <4>3. QED
        BY <1>4, <2>1, <4>2 DEF WorkInv
    <3>4. QED
      BY <2>1, <2>3, <3>2, <3>3
  <2>4. QED
    BY <2>2, <2>3
<1>8. ASSUME NEW g \in Routines, List(g) PROVE WorkInv'
  <2>1. PICK w : Snapshot(w) /\ work' = [work EXCEPT ![g] = w]
    BY <1>8, Lists
  <2>2. work'[g] = w /\ (\A h \in Routines \ {g} : work'[h] = work[h]) /\ known' = known
    BY <1>1, <1>8, <2>1 DEF TypeOK, List
  <2>3. ShapeOf(g)'
    BY <2>1, <2>2 DEF ShapeOf, Snapshot
  <2>4. LoopShape'
    <3>1. CASE g = 0
      BY <2>1, <2>2, <3>1, SMTT(30) DEF LoopShape, Snapshot
    <3>2. CASE g # 0
      BY <1>1, <1>3, <2>2, <3>2
    <3>3. QED
      BY <3>1, <3>2
  <2>5. QED
    BY <1>2, <2>2, <2>3, <2>4 DEF WorkInv
<1>9. ASSUME NEW g \in Routines, PublishEntity(g) PROVE WorkInv'
  <2>1. work[g] # <<>> /\ Rest(g) /\ Head(work[g]).do \in Kinds /\ known' = known
    BY <1>9 DEF PublishEntity
  <2>2. LoopShape'
    BY <1>1, <1>3, <2>1, Tails, TailShape DEF Kinds
  <2>3. QED
    BY <1>4, <2>1, <2>2 DEF WorkInv
<1>10. ASSUME NEW g \in Routines, PublishStatus(g) PROVE WorkInv'
  <2>1. work[g] # <<>> /\ Rest(g) /\ Head(work[g]).do = "status" /\ known' = known
    BY <1>10 DEF PublishStatus
  <2>2. LoopShape'
    BY <1>1, <1>3, <2>1, Tails, TailShape
  <2>3. QED
    BY <1>4, <2>1, <2>2 DEF WorkInv
<1>11. CASE Connect
  <2>1. connects + 1 \in Routines /\ connects + 1 # 0 /\ known' = known
    BY <1>11, BoundsAssumption DEF Connect, Routines, TypeOK
  <2>2. work'[connects + 1] = <<Step("status", None, "online"), Step("list", None, None)>>
        /\ \A h \in Routines \ {connects + 1} : work'[h] = work[h]
    BY <1>11, <2>1 DEF Connect, TypeOK
  <2>3. \A h \in Routines : ShapeOf(h)'
    <3>1. ASSUME NEW h \in Routines, h # 0,
                 work'[h] = <<Step("status", None, "online"), Step("list", None, None)>>
          PROVE  ShapeOf(h)'
      BY <3>1 DEF ShapeOf, Step
    <3>2. \A h \in Routines \ {connects + 1} : ShapeOf(h)'
      BY <1>2, <2>2
    <3>3. QED
      BY <2>1, <2>2, <3>1, <3>2
  <2>4. LoopShape'
    BY <1>1, <1>3, <2>1, <2>2
  <2>5. QED
    BY <2>3, <2>4 DEF WorkInv
<1>12. ASSUME UNCHANGED <<work, known>> PROVE WorkInv'
  BY <1>2, <1>3, <1>12 DEF WorkInv
<1>13. QED
  BY <1>5, <1>6, <1>7, <1>8, <1>9, <1>10, <1>11, <1>12
     DEF Next, RoutineStep, StopStep, Change, Remove, Announce, Say, Start, StartReturn, LoopExit,
         Disconnected, Resend, Cancel, Stop, StopTimeout, StopOffline, StopDisconnect, vars

\* While no event is handled, eventLoop will know what it would have known.
LEMMA WillKnowKept ==
  ASSUME TypeOK, WorkInv, Side \/ Know(0) \/ List(0) \/ PublishEntity(0),
         NEW e \in Entities, WillKnow(e)
  PROVE  WillKnow(e)'
<1>1. 0 \in Routines
  BY BoundsAssumption DEF Routines
<1>2. CASE Side
  BY <1>2 DEF Side, WillKnow, Has
<1>3. CASE Know(0)
  <2>1. loop # <<>> /\ Rest(0) /\ Head(loop) = loop[1] /\ 1 \in DOMAIN loop
        /\ Head(loop).do \in {"know", "forget"}
    BY <1>1, <1>3, Tails DEF Know, TypeOK
  <2>2. CASE Has(0, "know", e)
    <3>1. PICK i \in DOMAIN loop : loop[i].do = "know" /\ loop[i].id = e
      BY <2>2 DEF Has
    <3>2. ~\E j \in DOMAIN loop : loop[j].do = "forget"
      BY <3>1 DEF WorkInv, LoopShape
    <3>3. ~Has(0, "forget", e)' /\ Head(loop).do = "know"
      <4>1. ~Has(0, "forget", e) /\ Head(loop).do = "know"
        BY <2>1, <3>2 DEF Has
      <4>2. QED
        BY <1>1, <2>1, <4>1, HasRest
    <3>4. CASE Head(loop).id = e
      BY <1>3, <3>3, <3>4 DEF Know, WillKnow
    <3>5. CASE Head(loop).id # e
      BY <1>1, <2>1, <2>2, <3>5, HasRest DEF WillKnow
    <3>6. QED
      BY <3>4, <3>5
  <2>3. CASE e \in known /\ ~Has(0, "forget", e)
    <3>1. ~Has(0, "forget", e)'
      BY <1>1, <2>1, <2>3, HasRest
    <3>2. Head(loop).do = "forget" => Head(loop).id # e
      BY <2>1, <2>3 DEF Has
    <3>3. e \in known'
      BY <1>3, <2>1, <2>3, <3>2 DEF Know
    <3>4. QED
      BY <3>1, <3>3 DEF WillKnow
  <2>4. QED
    BY <2>2, <2>3 DEF WillKnow
<1>4. CASE List(0)
  <2>1. PICK w : Snapshot(w) /\ work' = [work EXCEPT ![0] = w]
    BY <1>1, <1>4, Lists
  <2>2. work'[0] = w /\ loop # <<>> /\ Head(loop).do = "list" /\ loop \in Seq(Steps)
        /\ known' = known
    BY <1>1, <1>4, <2>1 DEF TypeOK, List
  <2>3. \A i \in DOMAIN loop : i = 1
    BY <1>1, <2>2 DEF WorkInv, ShapeOf
  <2>4. ~Has(0, "know", e)
    BY <2>2, <2>3 DEF Has
  <2>5. ~Has(0, "forget", e)'
    BY <2>1, <2>2 DEF Has, Snapshot
  <2>6. QED
    BY <2>2, <2>4, <2>5 DEF WillKnow
<1>5. CASE PublishEntity(0)
  <2>1. loop # <<>> /\ Rest(0) /\ Head(loop).do \in Kinds /\ known' = known
    BY <1>5 DEF PublishEntity
  <2>2. /\ Has(0, "know", e) => Has(0, "know", e)'
        /\ Has(0, "forget", e)' => Has(0, "forget", e)
    BY <1>1, <2>1, HasRest DEF Kinds
  <2>3. QED
    BY <2>1, <2>2 DEF WillKnow
<1>6. QED
  BY <1>2, <1>3, <1>4, <1>5

\* What an event is appended by, and leaves.
LEMMA Grown ==
  ASSUME TypeOK, StartInv,
         NEW e \in Entities,
         Announce(e) \/ \E k \in {"state", "avail"}, v \in Values : Say(k, e, v)
  PROVE  \E ev \in Events :
           /\ feed' = feed \o <<ev>>
           /\ Len(feed') = Len(feed) + 1 /\ feed'[Len(feed) + 1] = ev
           /\ \A i \in 1..Len(feed) : feed'[i] = feed[i]
           /\ feed' \in Seq(Events)
           /\ UNCHANGED <<registry, work, known>>
           /\ Announce(e) => /\ pend[e] = <<ev>> /\ pend'[e] = <<>> /\ said' = said
                             /\ \A f \in Entities \ {e} : pend'[f] = pend[f]
           /\ ~Announce(e) => /\ ev.type \in {"state", "avail"} /\ ev.id = e /\ pend' = pend
                              /\ registry[e] # None /\ pend[e] = <<>>
                              /\ said' = [said EXCEPT ![<<ev.type, e>>] = ev.val]
<1> USE DEF coreVars
<1>1. CASE Announce(e)
  <2>1. pend[e] # <<>> /\ pend[e] \in {<<>>} \cup {<<ev>> : ev \in Events}
        /\ pend' = [pend EXCEPT ![e] = <<>>] /\ pend \in [Entities -> {<<>>} \cup {<<ev>> : ev \in Events}]
    BY <1>1 DEF Announce, TypeOK
  <2>2. PICK ev \in Events : pend[e] = <<ev>>
    BY <2>1
  <2>3. subscribed
    BY <2>1 DEF StartInv
  <2>4. feed' = feed \o <<ev>> /\ UNCHANGED <<registry, work, known, said>>
    BY <1>1, <2>2, <2>3 DEF Announce, Publish
  <2>5. feed \in Seq(Events)
    BY DEF TypeOK
  <2>6. QED
    BY <1>1, <2>1, <2>2, <2>4, <2>5, Appended
<1>2. ASSUME NEW k \in {"state", "avail"}, NEW v \in Values, Say(k, e, v), ~Announce(e)
      PROVE  \E ev \in Events :
               /\ feed' = feed \o <<ev>>
               /\ Len(feed') = Len(feed) + 1 /\ feed'[Len(feed) + 1] = ev
               /\ \A i \in 1..Len(feed) : feed'[i] = feed[i]
               /\ feed' \in Seq(Events)
               /\ UNCHANGED <<registry, work, known, pend>>
               /\ ev.type \in {"state", "avail"} /\ ev.id = e
               /\ registry[e] # None /\ pend[e] = <<>>
               /\ said' = [said EXCEPT ![<<ev.type, e>>] = ev.val]
  <2> DEFINE ev == [type |-> k, id |-> e, val |-> v]
  <2>1. ev \in Events
    BY DEF Events
  <2>2. subscribed
    BY <1>2 DEF Say, MayCall, StartInv
  <2>3. feed' = feed \o <<ev>> /\ UNCHANGED <<registry, work, known, pend>>
        /\ registry[e] # None /\ pend[e] = <<>> /\ said' = [said EXCEPT ![<<k, e>>] = v]
    BY <1>2, <2>2 DEF Say, MayCall, Publish
  <2>4. feed \in Seq(Events) /\ ev.type = k /\ ev.id = e /\ ev.val = v
    BY DEF TypeOK
  <2> HIDE DEF ev
  <2>5. QED
    BY <2>1, <2>3, <2>4, Appended
<1>3. QED
  BY <1>1, <1>2

\* eventLoop hears of an entity before it hears what the entity does.
LEMMA StepKnow ==
  TypeOK /\ StartInv /\ PendInv /\ WorkInv /\ KnowInv /\ [Next]_vars => KnowInv'
<1> SUFFICES ASSUME TypeOK, StartInv, PendInv, WorkInv, KnowInv, [Next]_vars PROVE KnowInv'
  OBVIOUS
<1> USE DEF coreVars
<1>1. 0 \in Routines /\ feed \in Seq(Events) /\ feed' \in Seq(Events)
  BY BoundsAssumption, StepTypeOK DEF Routines, TypeOK
<1>2. \A i \in DOMAIN feed : feed[i] \in Events /\ feed[i].id \in Entities
  <2>1. \A ev \in Events : ev.id \in Entities
    BY DEF Events
  <2>2. QED
    BY <1>1, <2>1
<1>3. CASE Side \/ Know(0) \/ List(0) \/ PublishEntity(0)
  <2>1. UNCHANGED <<registry, pend, feed>>
    BY <1>3 DEF Side, Know, List, PublishEntity
  <2>2. \A e \in Entities : WillKnow(e) => WillKnow(e)'
    BY <1>3, WillKnowKept
  <2>3. \A e \in Entities, i \in Nat : Backed(e, i) => Backed(e, i)'
    BY <2>1, <2>2 DEF Backed
  <2>4. QED
    BY <1>1, <1>2, <2>1, <2>3 DEF KnowInv
<1>4. CASE LoopSubscribe
  <2>1. feed = <<>> /\ feed' = feed /\ registry' = registry /\ \A e \in Entities : registry[e] = None
    BY <1>4 DEF LoopSubscribe, StartInv
  <2>2. QED
    BY <2>1 DEF KnowInv
<1>5. ASSUME NEW e \in Entities, NEW p, p # <<>>, pend' = [pend EXCEPT ![e] = p],
             UNCHANGED <<feed, known, work>>, \A f \in Entities \ {e} : registry'[f] = registry[f]
      PROVE  KnowInv'
  <2>1. pend'[e] # <<>> /\ \A f \in Entities \ {e} : pend'[f] = pend[f]
    BY <1>5 DEF TypeOK
  <2>2. \A f \in Entities, i \in Nat : Backed(f, i) => Backed(f, i)'
    BY <1>5 DEF Backed, WillKnow, Has
  <2>3. QED
    BY <1>1, <1>2, <1>5, <2>1, <2>2 DEF KnowInv
<1>6. ASSUME NEW e \in Entities, NEW d \in Data, Change(e, d) PROVE KnowInv'
  BY <1>5, <1>6 DEF Change, TypeOK
<1>7. ASSUME NEW e \in Entities, Remove(e) PROVE KnowInv'
  BY <1>5, <1>7 DEF Remove, TypeOK
<1>8. ASSUME NEW e \in Entities,
             Announce(e) \/ \E k \in {"state", "avail"}, v \in Values : Say(k, e, v)
      PROVE  KnowInv'
  <2>1. PICK ev \in Events :
           /\ feed' = feed \o <<ev>>
           /\ Len(feed') = Len(feed) + 1 /\ feed'[Len(feed) + 1] = ev
           /\ \A i \in 1..Len(feed) : feed'[i] = feed[i]
           /\ feed' \in Seq(Events)
           /\ UNCHANGED <<registry, work, known>>
           /\ Announce(e) => /\ pend[e] = <<ev>> /\ pend'[e] = <<>> /\ said' = said
                             /\ \A f \in Entities \ {e} : pend'[f] = pend[f]
           /\ ~Announce(e) => /\ ev.type \in {"state", "avail"} /\ ev.id = e /\ pend' = pend
                              /\ registry[e] # None /\ pend[e] = <<>>
                              /\ said' = [said EXCEPT ![<<ev.type, e>>] = ev.val]
    BY <1>8, Grown, ZenonT(60)
  <2> DEFINE n == Len(feed)
  <2>2. n \in Nat /\ DOMAIN feed = 1..n /\ DOMAIN feed' = 1..(n + 1)
    BY <1>1, <2>1
  <2>3. \A f \in Entities : WillKnow(f) => WillKnow(f)'
    BY <2>1 DEF WillKnow, Has
  <2>4. ASSUME NEW f \in Entities, NEW i \in 1..(n + 1), Backed(f, i) PROVE Backed(f, i)'
    <3>1. \A j \in 1..(i - 1) : feed'[j] = feed[j]
      BY <2>1, <2>2
    <3>2. \A j \in 1..(i - 1) : \A m \in (j + 1)..(i - 1) : m \in 1..(i - 1)
      BY <2>2
    <3>3. CASE WillKnow(f) /\ \A m \in 1..(i - 1) : ~(feed[m].type = "removed" /\ feed[m].id = f)
      BY <2>3, <3>1, <3>3 DEF Backed
    <3>4. CASE \E j \in 1..(i - 1) :
                 /\ feed[j].type = "changed" /\ feed[j].id = f
                 /\ \A m \in (j + 1)..(i - 1) : ~(feed[m].type = "removed" /\ feed[m].id = f)
      BY <3>1, <3>2, <3>4 DEF Backed
    <3>5. QED
      BY <2>4, <3>3, <3>4 DEF Backed
  <2>5. ev.id = e
    <3>1. pend[e] = <<ev>> => ev.id = e
      BY DEF PendInv, PendOf
    <3>2. QED
      BY <2>1, <3>1
  <2>6. ASSUME NEW f \in Entities, NEW m \in Nat, m = n + 1, Backed(f, m),
               ~(ev.type = "removed" /\ ev.id = f)
        PROVE  Backed(f, m + 1)'
    <3>1. \A k \in 1..m : ~(feed'[k].type = "removed" /\ feed'[k].id = f)
            \/ (k \in 1..n /\ feed'[k] = feed[k])
      BY <2>1, <2>2, <2>6
    <3>2. CASE WillKnow(f) /\ \A k \in 1..n : ~(feed[k].type = "removed" /\ feed[k].id = f)
      BY <2>2, <2>3, <2>6, <3>1, <3>2 DEF Backed
    <3>3. ASSUME NEW j \in 1..n, feed[j].type = "changed", feed[j].id = f,
                 \A k \in (j + 1)..n : ~(feed[k].type = "removed" /\ feed[k].id = f)
          PROVE  Backed(f, m + 1)'
      <4>1. j \in 1..(m + 1 - 1) /\ feed'[j] = feed[j]
        BY <2>1, <2>2, <2>6
      <4>2. \A k \in (j + 1)..(m + 1 - 1) : k \in 1..m /\ (k \in 1..n => k \in (j + 1)..n)
        BY <2>2, <2>6
      <4>3. \A k \in (j + 1)..(m + 1 - 1) : ~(feed'[k].type = "removed" /\ feed'[k].id = f)
        BY <3>1, <3>3, <4>2
      <4>4. QED
        BY <3>3, <4>1, <4>3 DEF Backed
    <3>4. m - 1 = n
      BY <2>2, <2>6
    <3>5. QED
      BY <2>6, <3>2, <3>3, <3>4 DEF Backed
  <2>7. ASSUME NEW m \in Nat, m = n + 1, ev.type = "changed" PROVE Backed(e, m + 1)'
    BY <2>1, <2>2, <2>5, <2>7 DEF Backed
  <2>8. ASSUME NEW i \in DOMAIN feed', feed'[i].type \in {"avail", "state"},
               NEW f \in Entities, feed'[i].id = f
        PROVE  Backed(f, i)'
    <3>1. CASE i \in 1..n
      BY <1>1, <1>2, <2>1, <2>2, <2>4, <2>8, <3>1 DEF KnowInv
    <3>2. CASE i = n + 1
      <4>1. ev.type \in {"avail", "state"} /\ f = e
        BY <2>1, <2>5, <2>8, <3>2
      <4>2. pend[e] = <<ev>> => ev.type \in {"changed", "removed"}
        BY DEF PendInv, PendOf
      <4>3. ~Announce(e)
        BY <2>1, <4>1, <4>2
      <4>4. Backed(f, i)
        BY <2>1, <3>2, <4>1, <4>3 DEF KnowInv
      <4>5. QED
        BY <2>2, <2>4, <3>2, <4>4
    <3>3. QED
      BY <2>2, <3>1, <3>2
  <2>9. ASSUME NEW f \in Entities, registry'[f] # None, pend'[f] = <<>>, NEW m \in Nat, m = n + 1
        PROVE  Backed(f, m + 1)'
    <3>1. CASE pend[f] = <<>>
      <4>1. ~(ev.type = "removed" /\ ev.id = f)
        <5>1. CASE Announce(e)
          BY <2>5, <3>1, <5>1 DEF Announce
        <5>2. CASE ~Announce(e)
          BY <2>1, <5>2
        <5>3. QED
          BY <5>1, <5>2
      <4>2. Backed(f, m)
        BY <2>1, <2>9, <3>1 DEF KnowInv
      <4>3. QED
        BY <2>6, <2>9, <4>1, <4>2
    <3>2. CASE pend[f] # <<>>
      <4>1. f = e /\ pend[e] = <<ev>> /\ registry[e] # None
        BY <2>1, <2>9, <3>2
      <4>2. ev.type = "changed"
        BY <4>1 DEF PendInv, PendOf
      <4>3. QED
        BY <2>7, <2>9, <4>1, <4>2
    <3>3. QED
      BY <3>1, <3>2
  <2>10. \A f \in Entities : registry'[f] # None /\ pend'[f] = <<>> => Backed(f, Len(feed) + 1)'
    <3>1. PICK m \in Nat : m = n + 1
      BY <2>2
    <3>2. m + 1 = Len(feed') + 1
      BY <2>1, <3>1
    <3>3. \A f \in Entities : Backed(f, m + 1)' => Backed(f, Len(feed) + 1)'
      BY <3>2 DEF Backed
    <3>4. QED
      BY <2>9, <3>1, <3>3
  <2>11. \A i \in DOMAIN feed' : feed'[i].type \in {"avail", "state"} => Backed(feed[i].id, i)'
    <3>1. \A i \in DOMAIN feed' : feed'[i].id \in Entities
      BY <1>2, <2>1, <2>2, <2>5
    <3>2. QED
      BY <2>8, <3>1 DEF Backed, WillKnow, Has
  <2>12. QED
    BY <2>10, <2>11 DEF KnowInv
<1>9. CASE LoopEvent
  <2> DEFINE ev == Head(feed)
             n == Len(feed)
  <2>1. feed # <<>> /\ feed' = Tail(feed) /\ loop = <<>> /\ work'[0] = Handle(ev)
        /\ UNCHANGED <<registry, pend, known>>
    BY <1>1, <1>9 DEF LoopEvent, TypeOK
  <2>2. /\ n \in Nat \ {0} /\ Len(feed') = n - 1
        /\ \A i \in 1..(n - 1) : feed'[i] = feed[i + 1]
        /\ ev = feed[1] /\ ev \in Events
    BY <2>1, FeedTail
  <2>3. ASSUME NEW f \in Entities, ev.type = "changed", ev.id = f PROVE WillKnow(f)'
    BY <2>1, <2>2, <2>3, Handled DEF WillKnow, Has
  <2>4. ASSUME NEW f \in Entities, WillKnow(f), ~(ev.type = "removed" /\ ev.id = f)
        PROVE  WillKnow(f)'
    <3>1. f \in known
      BY <2>1, <2>4 DEF WillKnow, Has
    <3>2. ~Has(0, "forget", f)'
      BY <2>1, <2>2, <2>4, Handled DEF Has
    <3>3. QED
      BY <2>1, <3>1, <3>2 DEF WillKnow
  <2>5. ASSUME NEW f \in Entities, NEW i \in 1..n, Backed(f, i + 1) PROVE Backed(f, i)'
    <3>1. CASE WillKnow(f) /\ \A k \in 1..i : ~(feed[k].type = "removed" /\ feed[k].id = f)
      <4>1. WillKnow(f)'
        BY <2>2, <2>4, <3>1
      <4>2. \A k \in 1..(i - 1) : k + 1 \in 1..i /\ feed'[k] = feed[k + 1]
        BY <2>2
      <4>3. QED
        BY <3>1, <4>1, <4>2 DEF Backed
    <3>2. ASSUME NEW j \in 1..i, feed[j].type = "changed", feed[j].id = f,
                 \A k \in (j + 1)..i : ~(feed[k].type = "removed" /\ feed[k].id = f)
          PROVE  Backed(f, i)'
      <4>1. CASE j = 1
        <5>1. WillKnow(f)'
          BY <2>2, <2>3, <3>2, <4>1
        <5>2. \A k \in 1..(i - 1) : k + 1 \in (j + 1)..i /\ feed'[k] = feed[k + 1]
          BY <2>2, <4>1
        <5>3. QED
          BY <3>2, <5>1, <5>2 DEF Backed
      <4>2. CASE j # 1
        <5>1. j - 1 \in 1..(i - 1) /\ feed'[j - 1] = feed[j]
          BY <2>2, <4>2
        <5>2. \A k \in (j - 1 + 1)..(i - 1) : k + 1 \in (j + 1)..i /\ feed'[k] = feed[k + 1]
          BY <2>2, <4>2
        <5>3. QED
          BY <3>2, <5>1, <5>2 DEF Backed
      <4>3. QED
        BY <4>1, <4>2
    <3>3. i + 1 - 1 = i
      BY <2>2
    <3>4. QED
      BY <2>5, <3>1, <3>2, <3>3 DEF Backed
  <2>6. \A i \in DOMAIN feed' : feed'[i].type \in {"avail", "state"} => Backed(feed[i].id, i)'
    <3>1. ASSUME NEW i \in DOMAIN feed', feed'[i].type \in {"avail", "state"},
                 NEW f \in Entities, feed'[i].id = f
          PROVE  Backed(f, i)'
      <4>1. i \in 1..n /\ i + 1 \in DOMAIN feed /\ feed[i + 1] = feed'[i]
        BY <1>1, <2>2, <3>1
      <4>2. Backed(f, i + 1)
        BY <3>1, <4>1 DEF KnowInv
      <4>3. QED
        BY <2>5, <4>1, <4>2
    <3>2. \A i \in DOMAIN feed' : feed'[i].id \in Entities
      BY <1>1, <1>2, <2>2
    <3>3. QED
      BY <3>1, <3>2 DEF Backed, WillKnow, Has
  <2>7. \A f \in Entities : registry'[f] # None /\ pend'[f] = <<>> => Backed(f, Len(feed) + 1)'
    <3>1. PICK m \in 1..n : m = n
      BY <2>2
    <3>2. m = Len(feed') + 1
      BY <2>2, <3>1
    <3>3. \A f \in Entities : Backed(f, m)' => Backed(f, Len(feed) + 1)'
      BY <3>2 DEF Backed
    <3>4. \A f \in Entities : registry'[f] # None /\ pend'[f] = <<>> => Backed(f, m + 1)
      BY <2>1, <3>1 DEF KnowInv
    <3>5. QED
      BY <2>5, <3>3, <3>4
  <2>8. QED
    BY <2>6, <2>7 DEF KnowInv
<1>10. QED
  BY <1>3, <1>4, <1>6, <1>7, <1>8, <1>9, Sides

\* What a call says of an entity, and its event.
LEMMA Calls ==
  ASSUME TypeOK, NEW e \in Entities, Remove(e) \/ \E d \in Data : Change(e, d)
  PROVE  \E ev \in Events :
           /\ pend[e] = <<>> /\ pend'[e] = <<ev>> /\ ev.id = e
           /\ \A f \in Entities \ {e} : pend'[f] = pend[f] /\ registry'[f] = registry[f]
           /\ IF registry'[e] = None THEN ev.type = "removed" ELSE ev.type = "changed"
           /\ \A k \in Kinds, f \in Entities :
                said'[<<k, f>>] = IF Says(ev, k, f) THEN Meant(ev, k) ELSE said[<<k, f>>]
           /\ UNCHANGED <<feed, known, work, link, store, retained, lost, overtaken>>
<1> USE DEF sendVars, netVars, pubVars
<1>1. /\ registry \in [Entities -> Data \cup {None}] /\ said \in [Topics -> Values]
      /\ pend \in [Entities -> {<<>>} \cup {<<ev>> : ev \in Events}]
  BY DEF TypeOK
<1>2. \A f \in Entities, k \in Kinds : <<k, f>> \in Topics
  BY Names DEF Kinds
<1>3. Data \subseteq Values /\ None \in Values /\ {"config", "avail"} \subseteq Kinds
  BY Names DEF Kinds
<1>4. CASE Remove(e)
  <2> DEFINE ev == [type |-> "removed", id |-> e, val |-> registry[e]]
  <2>1. ev \in Events
    BY <1>1, <1>3 DEF Events
  <2>2. pend[e] = <<>> /\ pend' = [pend EXCEPT ![e] = <<ev>>] /\ registry' = [registry EXCEPT ![e] = None]
        /\ said' = [said EXCEPT ![<<"config", e>>] = None]
        /\ UNCHANGED <<feed, known, work, link, store, retained, lost, overtaken>>
    BY <1>4 DEF Remove
  <2>3. ev.type = "removed" /\ ev.id = e
    OBVIOUS
  <2> HIDE DEF ev
  <2>4. ASSUME NEW k \in Kinds, NEW f \in Entities
        PROVE  said'[<<k, f>>] = IF Says(ev, k, f) THEN Meant(ev, k) ELSE said[<<k, f>>]
    <3>1. CASE k = "config" /\ f = e
      <4>1. Says(ev, k, f) /\ Meant(ev, k) = None
        BY <2>3, <3>1 DEF Says, Meant
      <4>2. QED
        BY <1>1, <1>2, <2>2, <3>1, <4>1
    <3>2. CASE ~(k = "config" /\ f = e)
      <4>1. ~Says(ev, k, f) /\ <<k, f>> # <<"config", e>>
        BY <2>3, <3>2 DEF Says, Kinds
      <4>2. QED
        BY <1>1, <1>2, <2>2, <4>1
    <3>3. QED
      BY <3>1, <3>2
  <2>5. QED
    BY <1>1, <2>1, <2>2, <2>3, <2>4
<1>5. ASSUME NEW d \in Data, Change(e, d)
      PROVE  \E ev \in Events :
           /\ pend[e] = <<>> /\ pend'[e] = <<ev>> /\ ev.id = e
           /\ \A f \in Entities \ {e} : pend'[f] = pend[f] /\ registry'[f] = registry[f]
           /\ IF registry'[e] = None THEN ev.type = "removed" ELSE ev.type = "changed"
           /\ \A k \in Kinds, f \in Entities :
                said'[<<k, f>>] = IF Says(ev, k, f) THEN Meant(ev, k) ELSE said[<<k, f>>]
           /\ UNCHANGED <<feed, known, work, link, store, retained, lost, overtaken>>
  <2> DEFINE ev == [type |-> "changed", id |-> e, val |-> d]
  <2>1. ev \in Events /\ d # None
    BY <1>3, NamesAssumption DEF Events
  <2>2. pend[e] = <<>> /\ pend' = [pend EXCEPT ![e] = <<ev>>] /\ registry' = [registry EXCEPT ![e] = d]
        /\ said' = [said EXCEPT ![<<"config", e>>] = d, ![<<"avail", e>>] = "online"]
        /\ UNCHANGED <<feed, known, work, link, store, retained, lost, overtaken>>
    BY <1>5 DEF Change, MayCall
  <2>3. ev.type = "changed" /\ ev.id = e /\ ev.val = d
    OBVIOUS
  <2> HIDE DEF ev
  <2>4. ASSUME NEW k \in Kinds, NEW f \in Entities
        PROVE  said'[<<k, f>>] = IF Says(ev, k, f) THEN Meant(ev, k) ELSE said[<<k, f>>]
    <3>1. CASE k = "config" /\ f = e
      <4>1. Says(ev, k, f) /\ Meant(ev, k) = d /\ <<"config", e>> # <<"avail", e>>
        BY <2>3, <3>1 DEF Says, Meant
      <4>2. QED
        BY <1>1, <1>2, <2>2, <3>1, <4>1
    <3>2. CASE k = "avail" /\ f = e
      <4>1. Says(ev, k, f) /\ Meant(ev, k) = "online"
        BY <2>3, <3>2 DEF Says, Meant
      <4>2. <<"config", e>> \in Topics /\ <<"avail", e>> \in Topics
        BY <1>2, <1>3
      <4>3. QED
        BY <1>1, <2>2, <3>2, <4>1, <4>2
    <3>3. CASE ~(k \in {"config", "avail"} /\ f = e)
      <4>1. ~Says(ev, k, f) /\ <<k, f>> # <<"config", e>> /\ <<k, f>> # <<"avail", e>>
        BY <2>3, <3>3 DEF Says, Kinds
      <4>2. QED
        BY <1>1, <1>2, <2>2, <4>1
    <3>4. QED
      BY <3>1, <3>2, <3>3
  <2>5. QED
    BY <1>1, <2>1, <2>2, <2>3, <2>4
<1>6. QED
  BY <1>4, <1>5

\* What PublishState and SetAvailability say.
LEMMA Sayings ==
  ASSUME TypeOK, NEW e \in Entities, NEW ev \in Events,
         ev.type \in {"state", "avail"}, ev.id = e,
         said' = [said EXCEPT ![<<ev.type, e>>] = ev.val]
  PROVE  \A k \in Kinds, f \in Entities :
           said'[<<k, f>>] = IF Says(ev, k, f) THEN Meant(ev, k) ELSE said[<<k, f>>]
<1>1. said \in [Topics -> Values]
  BY DEF TypeOK
<1>2. SUFFICES ASSUME NEW k \in Kinds, NEW f \in Entities
               PROVE  said'[<<k, f>>] = IF Says(ev, k, f) THEN Meant(ev, k) ELSE said[<<k, f>>]
  OBVIOUS
<1>3. <<k, f>> \in Topics
  BY Names
<1>4. CASE k = ev.type /\ f = e
  <2>1. Says(ev, k, f) /\ Meant(ev, k) = ev.val
    BY <1>4 DEF Says, Meant
  <2>2. QED
    BY <1>1, <1>3, <1>4, <2>1
<1>5. CASE ~(k = ev.type /\ f = e)
  <2>1. ~Says(ev, k, f) /\ <<k, f>> # <<ev.type, e>>
    BY <1>5 DEF Says
  <2>2. QED
    BY <1>1, <1>3, <2>1
<1>6. QED
  BY <1>4, <1>5

\* What eventLoop has still to publish on a topic ends with what was said last.
LEMMA StepLast ==
  TypeOK /\ StartInv /\ PendInv /\ WorkInv /\ ListInv /\ LastInv /\ [Next]_vars => LastInv'
<1> SUFFICES ASSUME TypeOK, StartInv, PendInv, WorkInv, ListInv, LastInv, [Next]_vars
             PROVE  LastInv'
  OBVIOUS
<1> USE DEF coreVars
<1>1. 0 \in Routines /\ feed \in Seq(Events) /\ feed' \in Seq(Events) /\ loop \in Seq(Steps)
      /\ work'[0] \in Seq(Steps)
  <2>1. 0 \in Routines
    BY BoundsAssumption DEF Routines
  <2>2. QED
    BY <2>1, StepTypeOK DEF TypeOK
<1>2. ASSUME NEW k \in Kinds, NEW e \in Entities
      PROVE  LoopLast(k, e) /\ FeedLast(k, e) /\ PendLast(k, e)
  BY DEF LastInv
<1>3. CASE UNCHANGED <<pend, said, feed>> /\ work'[0] = work[0]
  <2>1. SUFFICES ASSUME NEW k \in Kinds, NEW e \in Entities
                 PROVE  LoopLast(k, e)' /\ FeedLast(k, e)' /\ PendLast(k, e)'
    BY DEF LastInv
  <2>2. (FeedSays(k, e) => FeedSays(k, e)') /\ (PendSays(k, e) => PendSays(k, e)')
    BY <1>3 DEF FeedSays, PendSays
  <2>3. LoopLast(k, e)'
    BY <1>2, <1>3, <2>2 DEF LoopLast
  <2>4. FeedLast(k, e)' /\ PendLast(k, e)'
    BY <1>2, <1>3, <2>2 DEF FeedLast, PendLast
  <2>5. QED
    BY <2>3, <2>4
<1>4. CASE Side
  BY <1>3, <1>4 DEF Side
<1>5. ASSUME NEW e \in Entities, Remove(e) \/ \E d \in Data : Change(e, d) PROVE LastInv'
  <2>1. PICK ev \in Events :
           /\ pend[e] = <<>> /\ pend'[e] = <<ev>> /\ ev.id = e
           /\ \A f \in Entities \ {e} : pend'[f] = pend[f]
           /\ \A k \in Kinds, f \in Entities :
                said'[<<k, f>>] = IF Says(ev, k, f) THEN Meant(ev, k) ELSE said[<<k, f>>]
           /\ UNCHANGED <<feed, work>>
    BY <1>5, Calls
  <2>2. ASSUME NEW k \in Kinds, NEW f \in Entities, Says(ev, k, f)
        PROVE  LoopLast(k, f)' /\ FeedLast(k, f)' /\ PendLast(k, f)'
    <3>1. f = e /\ said'[<<k, f>>] = Meant(ev, k)
      BY <2>1, <2>2 DEF Says
    <3>2. PendSays(k, f)'
      BY <2>1, <2>2, <3>1 DEF PendSays
    <3>3. PendLast(k, f)'
      BY <2>1, <3>1 DEF PendLast
    <3>4. QED
      BY <3>2, <3>3 DEF LoopLast, FeedLast
  <2>3. ASSUME NEW k \in Kinds, NEW f \in Entities, ~Says(ev, k, f)
        PROVE  LoopLast(k, f)' /\ FeedLast(k, f)' /\ PendLast(k, f)'
    <3>1. said'[<<k, f>>] = said[<<k, f>>]
      BY <2>1, <2>3
    <3>2. PendSays(k, f) => PendSays(k, f)'
      BY <2>1 DEF PendSays
    <3>3. FeedSays(k, f) => FeedSays(k, f)'
      BY <2>1 DEF FeedSays
    <3>4. PendLast(k, f)'
      BY <1>2, <2>1, <2>3, <3>1 DEF PendLast
    <3>5. QED
      BY <1>2, <2>1, <3>1, <3>2, <3>3, <3>4 DEF LoopLast, FeedLast
  <2>4. QED
    BY <2>2, <2>3 DEF LastInv
<1>6. ASSUME NEW e \in Entities,
             Announce(e) \/ \E k \in {"state", "avail"}, v \in Values : Say(k, e, v)
      PROVE  LastInv'
  <2>1. PICK ev \in Events :
           /\ Len(feed') = Len(feed) + 1 /\ feed'[Len(feed) + 1] = ev
           /\ \A i \in 1..Len(feed) : feed'[i] = feed[i]
           /\ UNCHANGED work
           /\ Announce(e) => /\ pend[e] = <<ev>> /\ pend'[e] = <<>> /\ said' = said
                             /\ \A f \in Entities \ {e} : pend'[f] = pend[f]
           /\ ~Announce(e) => /\ ev.type \in {"state", "avail"} /\ ev.id = e /\ pend' = pend
                              /\ pend[e] = <<>>
                              /\ said' = [said EXCEPT ![<<ev.type, e>>] = ev.val]
    BY <1>6, Grown, ZenonT(40)
  <2> DEFINE n == Len(feed)
  <2>2. n \in Nat /\ DOMAIN feed = 1..n /\ DOMAIN feed' = 1..(n + 1)
    BY <1>1, <2>1
  <2>3. ASSUME NEW k \in Kinds, NEW f \in Entities
        PROVE  /\ FeedSays(k, f) => FeedSays(k, f)'
               /\ Says(ev, k, f) => FeedSays(k, f)'
    BY <2>1, <2>2 DEF FeedSays
  <2>4. CASE Announce(e)
    <3>1. ev.id = e
      BY <2>1, <2>4 DEF PendInv, PendOf
    <3>2. SUFFICES ASSUME NEW k \in Kinds, NEW f \in Entities
                   PROVE  LoopLast(k, f)' /\ FeedLast(k, f)' /\ PendLast(k, f)'
      BY DEF LastInv
    <3>3. PendSays(k, f) => PendSays(k, f)' \/ Says(ev, k, f)
      <4>1. CASE f = e
        BY <2>1, <2>4, <4>1 DEF PendSays
      <4>2. CASE f # e
        BY <2>1, <2>4, <4>2 DEF PendSays
      <4>3. QED
        BY <4>1, <4>2
    <3>4. LoopLast(k, f)'
      BY <1>2, <2>1, <2>3, <2>4, <3>3 DEF LoopLast
    <3>5. PendLast(k, f)'
      <4>1. CASE f = e
        BY <2>1, <2>4, <4>1 DEF PendLast
      <4>2. CASE f # e
        BY <1>2, <2>1, <2>4, <4>2 DEF PendLast
      <4>3. QED
        BY <4>1, <4>2
    <3>6. ASSUME Says(ev, k, f) PROVE FeedLast(k, f)'
      <4>1. Meant(ev, k) = said'[<<k, f>>]
        <5>1. f = e
          BY <3>1, <3>6 DEF Says
        <5>2. QED
          BY <1>2, <2>1, <2>4, <3>6, <5>1 DEF PendLast
      <4>2. \A i \in 1..n : n + 1 \in (i + 1)..Len(feed')
        BY <2>1, <2>2
      <4>3. QED
        BY <2>1, <2>2, <3>6, <4>1, <4>2 DEF FeedLast
    <3>7. ASSUME ~Says(ev, k, f) PROVE FeedLast(k, f)'
      BY <1>2, <2>1, <2>2, <2>4, <3>3, <3>7 DEF FeedLast
    <3>8. QED
      BY <3>4, <3>5, <3>6, <3>7
  <2>5. CASE ~Announce(e)
    <3>1. SUFFICES ASSUME NEW k \in Kinds, NEW f \in Entities
                   PROVE  LoopLast(k, f)' /\ FeedLast(k, f)' /\ PendLast(k, f)'
      BY DEF LastInv
    <3>2. said'[<<k, f>>] = IF Says(ev, k, f) THEN Meant(ev, k) ELSE said[<<k, f>>]
      BY <2>1, <2>5, Sayings
    <3>3. PendSays(k, f)' <=> PendSays(k, f)
      BY <2>1, <2>5 DEF PendSays
    <3>4. CASE Says(ev, k, f)
      <4>1. f = e
        BY <2>1, <2>5, <3>4 DEF Says
      <4>2. PendLast(k, f)'
        BY <2>1, <2>5, <4>1 DEF PendLast
      <4>3. \A i \in 1..n : n + 1 \in (i + 1)..Len(feed')
        BY <2>1, <2>2
      <4>4. FeedLast(k, f)'
        BY <2>1, <2>2, <3>2, <3>4, <4>3 DEF FeedLast
      <4>5. QED
        BY <2>3, <3>4, <4>2, <4>4 DEF LoopLast
    <3>5. CASE ~Says(ev, k, f)
      <4>1. said'[<<k, f>>] = said[<<k, f>>]
        BY <3>2, <3>5
      <4>2. PendLast(k, f)'
        BY <1>2, <2>1, <2>5, <4>1 DEF PendLast
      <4>3. LoopLast(k, f)'
        BY <1>2, <2>1, <2>3, <3>3, <4>1 DEF LoopLast
      <4>4. FeedLast(k, f)'
        BY <1>2, <2>1, <2>2, <3>3, <3>5, <4>1 DEF FeedLast
      <4>5. QED
        BY <4>2, <4>3, <4>4
    <3>6. QED
      BY <3>4, <3>5
  <2>6. QED
    BY <2>4, <2>5
<1>7. CASE LoopSubscribe
  <2>1. work'[0] = <<Step("list", None, None)>> /\ UNCHANGED <<pend, said, feed>>
    BY <1>1, <1>7 DEF LoopSubscribe, TypeOK
  <2>2. \A i \in DOMAIN work'[0] : work'[0][i].do \notin Kinds
    BY <2>1 DEF Step, Kinds
  <2>3. QED
    BY <1>2, <2>1, <2>2 DEF LastInv, LoopLast, FeedLast, PendLast, FeedSays, PendSays
<1>8. CASE LoopEvent
  <2> DEFINE ev == Head(feed)
             n == Len(feed)
  <2>1. feed # <<>> /\ feed' = Tail(feed) /\ loop = <<>> /\ work'[0] = Handle(ev)
        /\ UNCHANGED <<said, pend>>
    BY <1>1, <1>8 DEF LoopEvent, TypeOK
  <2>2. /\ n \in Nat \ {0} /\ Len(feed') = n - 1
        /\ \A i \in 1..(n - 1) : feed'[i] = feed[i + 1]
        /\ ev = feed[1] /\ ev \in Events /\ DOMAIN feed' = 1..(n - 1) /\ DOMAIN feed = 1..n
    BY <1>1, <2>1, FeedTail
  <2>3. SUFFICES ASSUME NEW k \in Kinds, NEW e \in Entities
                 PROVE  LoopLast(k, e)' /\ FeedLast(k, e)' /\ PendLast(k, e)'
    BY DEF LastInv
  <2>4. PendLast(k, e)' /\ (PendSays(k, e) => PendSays(k, e)')
    BY <1>2, <2>1 DEF PendLast, PendSays
  <2>5. \A j \in 2..n : Says(feed[j], k, e) => FeedSays(k, e)'
    <3>1. \A j \in 2..n : j - 1 \in DOMAIN feed' /\ feed'[j - 1] = feed[j]
      BY <2>2
    <3>2. QED
      BY <3>1 DEF FeedSays
  <2>6. LoopLast(k, e)'
    <3>1. ASSUME NEW i \in DOMAIN work'[0], work'[0][i].do = k, work'[0][i].id = e
          PROVE  work'[0][i].val = said'[<<k, e>>] \/ FeedSays(k, e)' \/ PendSays(k, e)'
      <4>1. Says(ev, k, e) /\ work'[0][i].val = Meant(ev, k)
        BY <2>1, <2>2, <3>1, Handled
      <4>2. \/ Meant(ev, k) = said[<<k, e>>] \/ PendSays(k, e)
            \/ \E j \in (1 + 1)..n : Says(feed[j], k, e)
        BY <1>2, <2>2, <4>1 DEF FeedLast
      <4>3. QED
        BY <2>1, <2>4, <2>5, <4>1, <4>2
    <3>2. QED
      BY <3>1 DEF LoopLast
  <2>7. FeedLast(k, e)'
    <3>1. ASSUME NEW i \in DOMAIN feed', Says(feed'[i], k, e)
          PROVE  \/ Meant(feed'[i], k) = said'[<<k, e>>]
                 \/ \E j \in (i + 1)..Len(feed') : Says(feed'[j], k, e)
                 \/ PendSays(k, e)'
      <4>1. i + 1 \in DOMAIN feed /\ feed'[i] = feed[i + 1]
        BY <2>2, <3>1
      <4>2. ASSUME NEW j \in (i + 1 + 1)..n
            PROVE  j - 1 \in (i + 1)..Len(feed') /\ feed'[j - 1] = feed[j]
        BY <2>2, <3>1
      <4>3. \/ Meant(feed[i + 1], k) = said[<<k, e>>]
            \/ \E j \in (i + 1 + 1)..n : Says(feed[j], k, e)
            \/ PendSays(k, e)
        BY <1>2, <3>1, <4>1 DEF FeedLast
      <4>4. QED
        BY <2>1, <2>4, <4>1, <4>2, <4>3
    <3>2. QED
      BY <3>1 DEF FeedLast
  <2>8. QED
    BY <2>4, <2>6, <2>7
<1>9. CASE Know(0) \/ PublishEntity(0)
  <2>1. loop # <<>> /\ Rest(0) /\ UNCHANGED <<pend, said, feed>>
    BY <1>9 DEF Know, PublishEntity
  <2>2. /\ Len(loop) \in Nat \ {0} /\ Len(work'[0]) = Len(loop) - 1
        /\ \A i \in 1..(Len(loop) - 1) : work'[0][i] = loop[i + 1]
    BY <1>1, <2>1, Tails
  <2>3. SUFFICES ASSUME NEW k \in Kinds, NEW e \in Entities
                 PROVE  LoopLast(k, e)' /\ FeedLast(k, e)' /\ PendLast(k, e)'
    BY DEF LastInv
  <2>4. FeedLast(k, e)' /\ PendLast(k, e)'
    BY <1>2, <2>1 DEF FeedLast, PendLast, PendSays
  <2>5. LoopLast(k, e)'
    <3>1. ASSUME NEW i \in DOMAIN work'[0], work'[0][i].do = k, work'[0][i].id = e
          PROVE  \/ work'[0][i].val = said'[<<k, e>>]
                 \/ \E j \in (i + 1)..Len(work'[0]) : work'[0][j].do = k /\ work'[0][j].id = e
                 \/ FeedSays(k, e)' \/ PendSays(k, e)'
      <4>1. i + 1 \in DOMAIN loop /\ work'[0][i] = loop[i + 1]
        BY <1>1, <2>2, <3>1
      <4>2. ASSUME NEW j \in (i + 1 + 1)..Len(loop)
            PROVE  j - 1 \in (i + 1)..Len(work'[0]) /\ work'[0][j - 1] = loop[j]
        BY <1>1, <2>2, <3>1
      <4>3. \/ loop[i + 1].val = said[<<k, e>>]
            \/ \E j \in (i + 1 + 1)..Len(loop) : loop[j].do = k /\ loop[j].id = e
            \/ FeedSays(k, e) \/ PendSays(k, e)
        BY <1>2, <3>1, <4>1 DEF LoopLast
      <4>4. (FeedSays(k, e) <=> FeedSays(k, e)') /\ (PendSays(k, e) <=> PendSays(k, e)')
        BY <2>1 DEF FeedSays, PendSays
      <4>5. QED
        BY <2>1, <4>1, <4>2, <4>3, <4>4
    <3>2. QED
      BY <3>1 DEF LoopLast
  <2>6. QED
    BY <2>4, <2>5
<1>10. CASE List(0)
  <2>1. PICK w : Snapshot(w) /\ work' = [work EXCEPT ![0] = w]
    BY <1>1, <1>10, Lists
  <2>2. work'[0] = w /\ UNCHANGED <<pend, said, feed>> /\ loop # <<>> /\ Head(loop).do = "list"
    BY <1>1, <1>10, <2>1 DEF TypeOK, List
  <2>3. SUFFICES ASSUME NEW k \in Kinds, NEW e \in Entities
                 PROVE  LoopLast(k, e)' /\ FeedLast(k, e)' /\ PendLast(k, e)'
    BY DEF LastInv
  <2>4. FeedLast(k, e)' /\ PendLast(k, e)'
    BY <1>2, <2>2 DEF FeedLast, PendLast, PendSays
  <2>5. LoopLast(k, e)'
    <3>1. Has(0, "list", None)
      <4>1. Head(loop) = loop[1] /\ 1 \in DOMAIN loop /\ loop[1] \in Steps
        BY <1>1, <2>2
      <4>2. loop[1].id = None
        BY <2>2, <4>1 DEF Steps, Kinds
      <4>3. QED
        BY <2>2, <4>1, <4>2 DEF Has
    <3>2. ASSUME NEW i \in DOMAIN w, w[i].do = k, w[i].id = e
          PROVE  w[i].val = said[<<k, e>>] \/ FeedSays(k, e)
      <4>1. registry[e] # None /\ k \in {"config", "avail"}
        BY <2>1, <3>2 DEF Snapshot, Kinds
      <4>2. CASE k = "config"
        BY <2>1, <3>2, <4>2 DEF Snapshot, PendInv, PendOf
      <4>3. CASE k = "avail"
        BY <2>1, <3>1, <3>2, <4>1, <4>3 DEF Snapshot, ListInv
      <4>4. QED
        BY <4>1, <4>2, <4>3
    <3>3. FeedSays(k, e) => FeedSays(k, e)'
      BY <2>2 DEF FeedSays
    <3>4. QED
      BY <2>2, <3>2, <3>3 DEF LoopLast
  <2>6. QED
    BY <2>4, <2>5
<1>11. QED
  BY <1>4, <1>5, <1>6, <1>7, <1>8, <1>9, <1>10, Sides

\* Whoever has called an entity unavailable before the list was made has put an event
\* behind it.
LEMMA StepList ==
  TypeOK /\ StartInv /\ PendInv /\ WorkInv /\ ListInv /\ [Next]_vars => ListInv'
<1> SUFFICES ASSUME TypeOK, StartInv, PendInv, WorkInv, ListInv, [Next]_vars, Has(0, "list", None)'
             PROVE  \A e \in Entities : registry'[e] # None =>
                      said'[<<"avail", e>>] = "online" \/ FeedSays("avail", e)'
  BY DEF ListInv
<1> USE DEF coreVars
<1>1. 0 \in Routines /\ feed \in Seq(Events)
  BY BoundsAssumption DEF Routines, TypeOK
<1>2. "avail" \in Kinds
  BY DEF Kinds
<1>3. ASSUME Has(0, "list", None), NEW e \in Entities, registry[e] # None
      PROVE  said[<<"avail", e>>] = "online" \/ FeedSays("avail", e)
  BY <1>3 DEF ListInv
<1>4. CASE Side
  BY <1>3, <1>4 DEF Side, Has, FeedSays
<1>5. ASSUME NEW e \in Entities, Remove(e) \/ \E d \in Data : Change(e, d),
             NEW f \in Entities, registry'[f] # None
      PROVE  said'[<<"avail", f>>] = "online" \/ FeedSays("avail", f)'
  <2>1. PICK ev \in Events :
           /\ ev.id = e
           /\ \A h \in Entities \ {e} : registry'[h] = registry[h]
           /\ IF registry'[e] = None THEN ev.type = "removed" ELSE ev.type = "changed"
           /\ \A k \in Kinds, h \in Entities :
                said'[<<k, h>>] = IF Says(ev, k, h) THEN Meant(ev, k) ELSE said[<<k, h>>]
           /\ UNCHANGED <<feed, work>>
    BY <1>5, Calls
  <2>2. CASE f = e
    <3>1. Says(ev, "avail", f) /\ Meant(ev, "avail") = "online"
      BY <1>5, <2>1, <2>2 DEF Says, Meant
    <3>2. QED
      BY <1>2, <2>1, <3>1
  <2>3. CASE f # e
    <3>1. ~Says(ev, "avail", f) /\ registry[f] # None /\ Has(0, "list", None)
      BY <1>5, <2>1, <2>3 DEF Says, Has
    <3>2. said'[<<"avail", f>>] = said[<<"avail", f>>]
      BY <1>2, <2>1, <3>1
    <3>3. FeedSays("avail", f) => FeedSays("avail", f)'
      BY <2>1 DEF FeedSays
    <3>4. QED
      BY <1>3, <3>1, <3>2, <3>3
  <2>4. QED
    BY <2>2, <2>3
<1>6. ASSUME NEW e \in Entities,
             Announce(e) \/ \E k \in {"state", "avail"}, v \in Values : Say(k, e, v),
             NEW f \in Entities, registry'[f] # None
      PROVE  said'[<<"avail", f>>] = "online" \/ FeedSays("avail", f)'
  <2>1. PICK ev \in Events :
           /\ Len(feed') = Len(feed) + 1 /\ feed'[Len(feed) + 1] = ev
           /\ \A i \in 1..Len(feed) : feed'[i] = feed[i]
           /\ feed' \in Seq(Events)
           /\ UNCHANGED <<registry, work>>
           /\ Announce(e) => said' = said
           /\ ~Announce(e) => /\ ev.type \in {"state", "avail"} /\ ev.id = e
                              /\ said' = [said EXCEPT ![<<ev.type, e>>] = ev.val]
    BY <1>6, Grown
  <2>2. Len(feed) \in Nat /\ DOMAIN feed = 1..Len(feed) /\ DOMAIN feed' = 1..(Len(feed) + 1)
    BY <1>1, <2>1
  <2>3. /\ FeedSays("avail", f) => FeedSays("avail", f)'
        /\ Says(ev, "avail", f) => FeedSays("avail", f)'
    BY <2>1, <2>2 DEF FeedSays
  <2>4. Says(ev, "avail", f) \/ said'[<<"avail", f>>] = said[<<"avail", f>>]
    <3>1. CASE Announce(e)
      BY <2>1, <3>1
    <3>2. CASE ~Announce(e)
      BY <1>2, <2>1, <3>2, Sayings
    <3>3. QED
      BY <3>1, <3>2
  <2>5. Has(0, "list", None) /\ registry[f] # None
    BY <1>6, <2>1 DEF Has
  <2>6. QED
    BY <1>3, <2>3, <2>4, <2>5
<1>7. CASE LoopSubscribe
  BY <1>7 DEF LoopSubscribe, StartInv
<1>8. CASE LoopEvent
  <2>1. feed # <<>> /\ feed' = Tail(feed) /\ work'[0] = Handle(Head(feed))
    BY <1>1, <1>8 DEF LoopEvent, TypeOK
  <2>2. Head(feed) \in Events
    BY <2>1, FeedTail
  <2>3. ~Has(0, "list", None)'
    BY <2>1, <2>2, Handled DEF Has, Kinds
  <2>4. QED
    BY <2>3
<1>9. CASE Know(0) \/ PublishEntity(0)
  <2>1. loop # <<>> /\ Rest(0) /\ Head(loop).do # "list"
    BY <1>9 DEF Know, PublishEntity, Kinds
  <2>2. PICK i \in DOMAIN loop : loop[i].do = "list"
    <3>1. Has(0, "list", None)
      BY <1>1, <2>1, HasRest
    <3>2. QED
      BY <3>1 DEF Has
  <2>3. Head(loop) = loop[1]
    BY <1>1, <2>1, Tails
  <2>4. i = 1
    BY <1>1, <2>2 DEF WorkInv, ShapeOf
  <2>5. QED
    BY <2>1, <2>2, <2>3, <2>4
<1>10. CASE List(0)
  <2>1. PICK w : Snapshot(w) /\ work' = [work EXCEPT ![0] = w]
    BY <1>1, <1>10, Lists
  <2>2. work'[0] = w
    BY <1>1, <2>1 DEF TypeOK
  <2>3. ~Has(0, "list", None)'
    BY <2>1, <2>2 DEF Has, Snapshot
  <2>4. QED
    BY <2>3
<1>11. QED
  BY <1>4, <1>5, <1>6, <1>7, <1>8, <1>9, <1>10, Sides

-----------------------------------------------------------------------------
(* The broker follows *)

\* The next step of a goroutine publishes the topic.
Publishes(g, k, e) ==
  PublishEntity(g) /\ Head(work[g]).do = k /\ Head(work[g]).id = e

\* What a step makes of the work of a goroutine.
LEMMA WorkOf ==
  ASSUME TypeOK, [Next]_vars, NEW g \in Routines
  PROVE  \/ work'[g] = work[g]
         \/ work[g] # <<>> /\ Rest(g) /\ (Know(g) \/ PublishEntity(g) \/ PublishStatus(g))
         \/ List(g)
         \/ g = 0 /\ (LoopSubscribe \/ LoopEvent)
         \/ g # 0 /\ work[g] = <<>> /\ Connect
              /\ work'[g] = <<Step("status", None, "online"), Step("list", None, None)>>
<1> USE DEF coreVars, runVars, sendVars, netVars, pubVars
<1>1. 0 \in Routines /\ work \in [Routines -> Seq(Steps)]
  BY BoundsAssumption DEF Routines, TypeOK
<1>2. ASSUME NEW h \in Routines, RoutineStep(h), g # h PROVE work'[g] = work[g]
  <2>1. CASE List(h)
    <3>1. PICK w : work' = [work EXCEPT ![h] = w]
      BY <2>1, Lists
    <3>2. QED
      BY <1>1, <1>2, <3>1
  <2>2. CASE Know(h) \/ PublishEntity(h) \/ PublishStatus(h)
    BY <1>1, <1>2, <2>2 DEF Know, PublishEntity, PublishStatus, Rest
  <2>3. QED
    BY <1>2, <2>1, <2>2 DEF RoutineStep
<1>3. CASE RoutineStep(g)
  BY <1>3 DEF RoutineStep, Know, PublishEntity, PublishStatus
<1>4. CASE LoopSubscribe \/ LoopEvent
  BY <1>1, <1>4 DEF LoopSubscribe, LoopEvent
<1>5. CASE Connect
  <2>1. connects + 1 \in Routines /\ connects + 1 # 0 /\ connects + 1 > connects
    BY <1>5, BoundsAssumption DEF Connect, Routines, TypeOK
  <2>2. work[connects + 1] = <<>>
    BY <2>1 DEF TypeOK
  <2>3. QED
    BY <1>1, <1>5, <2>1, <2>2 DEF Connect
<1>6. CASE UNCHANGED work
  BY <1>6
<1>7. QED
  BY <1>2, <1>3, <1>4, <1>5, <1>6
     DEF Next, StopStep, Change, Remove, Announce, Say, Start, StartReturn, LoopExit,
         Disconnected, Resend, Cancel, Stop, StopTimeout, StopOffline, StopDisconnect, vars

\* What is coming stays so until it is published.
LEMMA ComingKept ==
  ASSUME TypeOK, StartInv, WorkInv, [Next]_vars, NEW k \in Kinds, NEW e \in Entities,
         ~Publishes(0, k, e), Coming(k, e)
  PROVE  Coming(k, e)'
<1>1. 0 \in Routines /\ feed \in Seq(Events)
  BY BoundsAssumption DEF Routines, TypeOK
<1>2. CASE Has(0, k, e)
  <2>1. work[0] # <<>> /\ loop \in Seq(Steps)
    BY <1>1, <1>2 DEF Has, TypeOK
  <2>2. CASE work'[0] = work[0]
    BY <1>2, <2>2 DEF Coming, Has
  <2>3. CASE Rest(0) /\ (Know(0) \/ PublishEntity(0) \/ PublishStatus(0))
    <3>1. ~(Head(loop).do = k /\ Head(loop).id = e)
      BY <2>3 DEF Know, PublishEntity, PublishStatus, Publishes, Kinds
    <3>2. Has(0, k, e)'
      BY <1>1, <1>2, <2>1, <2>3, <3>1, HasRest
    <3>3. QED
      BY <3>2 DEF Coming
  <2>4. CASE List(0)
    <3>1. Head(loop) = loop[1] /\ 1 \in DOMAIN loop /\ Head(loop).do = "list"
      BY <1>1, <2>1, <2>4 DEF List
    <3>2. \A i \in DOMAIN loop : i = 1
      BY <1>1, <2>1, <3>1 DEF WorkInv, ShapeOf
    <3>3. QED
      BY <1>2, <3>1, <3>2 DEF Has, Kinds
  <2>5. CASE LoopSubscribe \/ LoopEvent
    BY <1>1, <2>1, <2>5 DEF LoopSubscribe, LoopEvent, StartInv
  <2>6. QED
    BY <1>1, <2>1, <2>2, <2>3, <2>4, <2>5, WorkOf
<1>3. CASE FeedSays(k, e)
  <2>1. PICK i \in DOMAIN feed : Says(feed[i], k, e)
    BY <1>3 DEF FeedSays
  <2>2. CASE feed' = feed
    BY <2>1, <2>2 DEF Coming, FeedSays
  <2>3. ASSUME NEW f \in Entities,
               Announce(f) \/ \E l \in {"state", "avail"}, v \in Values : Say(l, f, v)
        PROVE  Coming(k, e)'
    <3>1. /\ Len(feed') = Len(feed) + 1 /\ feed' \in Seq(Events)
          /\ \A j \in 1..Len(feed) : feed'[j] = feed[j]
      BY <2>3, Grown
    <3>2. i \in DOMAIN feed' /\ feed'[i] = feed[i]
      BY <1>1, <2>1, <3>1
    <3>3. QED
      BY <2>1, <3>2 DEF Coming, FeedSays
  <2>4. CASE LoopEvent
    <3>1. feed # <<>> /\ feed' = Tail(feed) /\ work'[0] = Handle(Head(feed))
      BY <1>1, <2>4 DEF LoopEvent, TypeOK
    <3>2. /\ Len(feed) \in Nat \ {0} /\ Len(feed') = Len(feed) - 1 /\ feed' \in Seq(Events)
          /\ \A j \in 1..(Len(feed) - 1) : feed'[j] = feed[j + 1]
          /\ Head(feed) = feed[1] /\ feed[1] \in Events
      BY <3>1, FeedTail
    <3>3. CASE i = 1
      <4>1. Says(feed[1], k, feed[1].id) /\ e = feed[1].id
        BY <2>1, <3>3 DEF Says
      <4>2. Has(0, k, e)'
        BY <3>1, <3>2, <4>1, Handled DEF Has
      <4>3. QED
        BY <4>2 DEF Coming
    <3>4. CASE i # 1
      <4>1. i - 1 \in DOMAIN feed' /\ feed'[i - 1] = feed[i]
        BY <1>1, <2>1, <3>2, <3>4
      <4>2. QED
        BY <2>1, <4>1 DEF Coming, FeedSays
    <3>5. QED
      BY <3>3, <3>4
  <2>5. QED
    BY <2>2, <2>3, <2>4, Sides, Calls
       DEF Side, LoopSubscribe, Know, List, PublishEntity
<1>4. CASE PendSays(k, e)
  <2>1. pend[e] # <<>>
    BY <1>4 DEF PendSays
  <2>2. CASE pend'[e] = pend[e]
    BY <1>4, <2>2 DEF Coming, PendSays
  <2>3. CASE Announce(e)
    <3>1. PICK ev \in Events :
            /\ Len(feed') = Len(feed) + 1 /\ feed'[Len(feed) + 1] = ev /\ feed' \in Seq(Events)
            /\ pend[e] = <<ev>>
      BY <2>3, Grown
    <3>2. Len(feed) + 1 \in DOMAIN feed' /\ Says(feed'[Len(feed) + 1], k, e)
      BY <1>1, <1>4, <3>1 DEF PendSays
    <3>3. QED
      BY <3>2 DEF Coming, FeedSays
  <2>4. ASSUME NEW f \in Entities, f # e, Announce(f) PROVE pend'[e] = pend[e]
    BY <2>4 DEF Announce, TypeOK
  <2>5. ASSUME NEW f \in Entities, Remove(f) \/ \E d \in Data : Change(f, d)
        PROVE  pend'[e] = pend[e]
    <3>1. pend[f] = <<>> /\ \A h \in Entities \ {f} : pend'[h] = pend[h]
      BY <2>5, Calls
    <3>2. QED
      BY <2>1, <3>1
  <2>6. QED
    BY <2>2, <2>3, <2>4, <2>5, Sides
       DEF Side, LoopSubscribe, LoopEvent, Know, List, PublishEntity, Say, coreVars
<1>5. QED
  BY <1>2, <1>3, <1>4 DEF Coming

\* What a handler of OnConnect will do again it does before it ends.
LEMMA RedoKept ==
  ASSUME TypeOK, WorkInv, [Next]_vars, NEW k \in {"config", "avail"}, NEW e \in Entities,
         registry[e] # None, \A g \in Routines : ~Publishes(g, k, e), Redo(k, e)
  PROVE  Redo(k, e)'
<1>1. PICK g \in Routines \ {0} : Has(g, "list", None) \/ Has(g, k, e)
  BY DEF Redo
<1>2. work[g] # <<>> /\ work[g] \in Seq(Steps) /\ work' \in [Routines -> Seq(Steps)]
  BY <1>1, StepTypeOK DEF Has, TypeOK
<1>3. CASE work'[g] = work[g]
  BY <1>1, <1>3 DEF Redo, Has
<1>4. CASE Rest(g) /\ (Know(g) \/ PublishEntity(g) \/ PublishStatus(g))
  <2>1. ~(Head(work[g]).do = k /\ Head(work[g]).id = e) /\ Head(work[g]).do # "list"
    BY <1>4 DEF Know, PublishEntity, PublishStatus, Publishes, Kinds
  <2>2. Has(g, "list", None)' \/ Has(g, k, e)'
    BY <1>1, <1>2, <1>4, <2>1, HasRest
  <2>3. QED
    BY <2>2 DEF Redo
<1>5. CASE List(g)
  <2>1. PICK w : Snapshot(w) /\ work' = [work EXCEPT ![g] = w]
    BY <1>5, Lists
  <2>2. work'[g] = w
    BY <2>1 DEF TypeOK
  <2>3. Has(g, k, e)'
    BY <2>1, <2>2 DEF Has, Snapshot
  <2>4. QED
    BY <2>3 DEF Redo
<1>6. QED
  BY <1>1, <1>2, <1>3, <1>4, <1>5, WorkOf

\* What the broker and the client have of a topic stays as it is.
Kept(t) ==
  /\ retained'[t] = retained[t]
  /\ t \in lost => t \in lost'
  /\ t \in overtaken => t \in overtaken'
  /\ \A v : <<t, v>> \in store => <<t, v>> \in store'

\* Only its publication changes that, or the client that sends it again.
LEMMA TopicKept ==
  ASSUME TypeOK, [Next]_vars, NEW k \in Kinds, NEW e \in Entities,
         \A g \in Routines : ~Publishes(g, k, e)
  PROVE  \/ Kept(<<k, e>>)
         \/ UNCHANGED <<registry, said>> /\ retained'[<<k, e>>] = said[<<k, e>>]
         \/ <<k, e>> \in overtaken'
<1> DEFINE topic == <<k, e>>
<1> USE DEF sendVars, netVars, pubVars
<1>1. retained \in [Topics -> Values] /\ topic \in Topics /\ topic # status /\ status \in Topics
  BY NamesAssumption, Names DEF TypeOK, status
<1>2. ASSUME NEW t \in Topics, NEW v \in Values, t # topic, Send(t, v),
             topic \in overtaken => topic \in overtaken'
      PROVE  Kept(topic)
  BY <1>1, <1>2, Sends DEF Kept
<1>3. ASSUME NEW g \in Routines, PublishEntity(g) PROVE Kept(topic)
  <2> DEFINE t == <<Head(work[g]).do, Head(work[g]).id>>
  <2>1. t # topic
    BY <1>3 DEF Publishes
  <2>2. CASE UNCHANGED <<sendVars, pubVars>>
    BY <2>2 DEF Kept
  <2>3. CASE Send(t, Head(work[g]).val)
             /\ overtaken' = IF g > 0 /\ Head(work[g]).val # said[t] THEN overtaken \cup {t}
                                                                     ELSE overtaken \ {t}
    <3>1. topic \in overtaken => topic \in overtaken'
      BY <2>1, <2>3
    <3>2. Head(work[g]) \in Steps /\ Head(work[g]).do \in Kinds
      BY <1>3, Tails DEF PublishEntity
    <3>3. t \in Topics /\ Head(work[g]).val \in Values
      BY <3>2, Names
    <3>4. QED
      BY <1>2, <2>1, <2>3, <3>1, <3>3
  <2>4. QED
    BY <1>3, <2>2, <2>3 DEF PublishEntity
<1>4. ASSUME NEW g \in Routines, PublishStatus(g) PROVE Kept(topic)
  <2>1. Send(status, "online") /\ UNCHANGED overtaken
    BY <1>4 DEF PublishStatus
  <2>2. QED
    BY <1>1, <1>2, <2>1, Names
<1>5. CASE StopOffline
  <2>1. Send(status, "offline") /\ UNCHANGED overtaken
    BY <1>5 DEF StopOffline
  <2>2. QED
    BY <1>1, <1>2, <2>1, Names
<1>6. CASE Disconnected
  BY <1>1, <1>6 DEF Disconnected, Will, Kept
<1>7. CASE Resend
  <2>1. UNCHANGED <<registry, said>>
    BY <1>7 DEF Resend, coreVars
  <2>2. PICK t \in Topics, v \in Values :
          /\ store' = store \ {<<t, v>>} /\ retained' = [retained EXCEPT ![t] = v]
          /\ \/ /\ t = status \/ v = said[t]
                /\ overtaken' = overtaken \ {t} /\ lost' = lost \ {t}
             \/ /\ t # status /\ v # said[t]
                /\ overtaken' = overtaken \cup {t} /\ UNCHANGED lost
    BY <1>7, Resends
  <2>3. CASE t = topic
    BY <1>1, <2>1, <2>2, <2>3
  <2>4. CASE t # topic
    <3>1. \A u : <<topic, u>> # <<t, v>>
      BY <2>4
    <3> HIDE DEF topic
    <3>2. Kept(topic)
      BY <1>1, <2>2, <2>4, <3>1 DEF Kept
    <3>3. QED
      BY <3>2 DEF topic
  <2>5. QED
    BY <2>3, <2>4
<1>8. CASE UNCHANGED <<store, pubVars>>
  BY <1>8 DEF Kept
<1>9. QED
  BY <1>3, <1>4, <1>5, <1>6, <1>7, <1>8
     DEF Next, RoutineStep, StopStep, Change, Remove, Announce, Say, Start, LoopSubscribe,
         StartReturn, LoopEvent, LoopExit, Know, List, Connect, Cancel, Stop, StopTimeout,
         StopDisconnect, vars

\* What is said anew is coming.
LEMMA SaidKept ==
  ASSUME TypeOK, StartInv, WorkInv, [Next]_vars, NEW k \in Kinds, NEW e \in Entities
  PROVE  said'[<<k, e>>] = said[<<k, e>>] \/ Coming(k, e)'
<1>1. ASSUME NEW f \in Entities, Remove(f) \/ \E d \in Data : Change(f, d)
      PROVE  said'[<<k, e>>] = said[<<k, e>>] \/ Coming(k, e)'
  <2>1. PICK ev \in Events :
           /\ pend'[f] = <<ev>> /\ ev.id = f
           /\ \A l \in Kinds, h \in Entities :
                said'[<<l, h>>] = IF Says(ev, l, h) THEN Meant(ev, l) ELSE said[<<l, h>>]
    BY <1>1, Calls
  <2>2. CASE Says(ev, k, e)
    BY <2>1, <2>2 DEF Says, Coming, PendSays
  <2>3. CASE ~Says(ev, k, e)
    BY <2>1, <2>3
  <2>4. QED
    BY <2>2, <2>3
<1>2. ASSUME NEW f \in Entities,
             Announce(f) \/ \E l \in {"state", "avail"}, v \in Values : Say(l, f, v)
      PROVE  said'[<<k, e>>] = said[<<k, e>>] \/ Coming(k, e)'
  <2>1. PICK ev \in Events :
           /\ Len(feed') = Len(feed) + 1 /\ feed'[Len(feed) + 1] = ev /\ feed' \in Seq(Events)
           /\ Announce(f) => said' = said
           /\ ~Announce(f) => /\ ev.type \in {"state", "avail"} /\ ev.id = f
                              /\ said' = [said EXCEPT ![<<ev.type, f>>] = ev.val]
    BY <1>2, Grown, ZenonT(40)
  <2>2. CASE Announce(f)
    BY <2>1, <2>2
  <2>3. CASE ~Announce(f)
    <3>1. said'[<<k, e>>] = IF Says(ev, k, e) THEN Meant(ev, k) ELSE said[<<k, e>>]
      BY <2>1, <2>3, Sayings
    <3>2. Len(feed) + 1 \in DOMAIN feed'
      BY <2>1 DEF TypeOK
    <3>3. Says(ev, k, e) => Coming(k, e)'
      BY <2>1, <3>2 DEF Coming, FeedSays
    <3>4. QED
      BY <3>1, <3>3
  <2>4. QED
    BY <2>2, <2>3
<1>3. CASE Side \/ LoopSubscribe \/ LoopEvent \/ Know(0) \/ List(0) \/ PublishEntity(0)
  BY <1>3 DEF Side, LoopSubscribe, LoopEvent, Know, List, PublishEntity, coreVars
<1>4. QED
  BY <1>1, <1>2, <1>3, Sides

\* So is what is registered, or removed.
LEMMA RegistryKept ==
  ASSUME TypeOK, StartInv, WorkInv, [Next]_vars, NEW e \in Entities
  PROVE  \/ registry'[e] = registry[e]
         \/ Coming("config", e)' /\ (registry'[e] # None => Coming("avail", e)')
<1>1. ASSUME NEW f \in Entities, Remove(f) \/ \E d \in Data : Change(f, d)
      PROVE  \/ registry'[e] = registry[e]
             \/ Coming("config", e)' /\ (registry'[e] # None => Coming("avail", e)')
  <2>1. PICK ev \in Events :
           /\ pend'[f] = <<ev>> /\ ev.id = f
           /\ \A h \in Entities \ {f} : registry'[h] = registry[h]
           /\ IF registry'[f] = None THEN ev.type = "removed" ELSE ev.type = "changed"
    BY <1>1, Calls
  <2>2. CASE e = f
    <3>1. Says(ev, "config", e) /\ (registry'[e] # None => Says(ev, "avail", e))
      BY <2>1, <2>2 DEF Says
    <3>2. QED
      BY <2>1, <2>2, <3>1 DEF Coming, PendSays
  <2>3. CASE e # f
    BY <2>1, <2>3
  <2>4. QED
    BY <2>2, <2>3
<1>2. ASSUME NEW f \in Entities,
             Announce(f) \/ \E l \in {"state", "avail"}, v \in Values : Say(l, f, v)
      PROVE  registry'[e] = registry[e]
  BY <1>2, Grown
<1>3. CASE Side \/ LoopSubscribe \/ LoopEvent \/ Know(0) \/ List(0) \/ PublishEntity(0)
  BY <1>3 DEF Side, LoopSubscribe, LoopEvent, Know, List, PublishEntity, coreVars
<1>4. QED
  BY <1>1, <1>2, <1>3, Sides

\* A new connection will have everything published again.
LEMMA LinkKept ==
  ASSUME TypeOK, [Next]_vars, link' = "up", link # "up"
  PROVE  \A k, e : Redo(k, e)'
<1>1. \A t \in Topics, v \in Values : ~Send(t, v)
  BY Sends
<1>2. ASSUME NEW g \in Routines, PublishEntity(g) PROVE FALSE
  <2>1. Head(work[g]) \in Steps /\ Head(work[g]).do \in Kinds
    BY <1>2, Tails DEF PublishEntity
  <2>2. <<Head(work[g]).do, Head(work[g]).id>> \in Topics /\ Head(work[g]).val \in Values
    BY <2>1, Names
  <2>3. QED
    BY <1>1, <1>2, <2>2 DEF PublishEntity, sendVars
<1>3. ~StopOffline /\ \A g \in Routines : ~PublishStatus(g)
  BY <1>1, Names DEF StopOffline, PublishStatus
<1>4. Connect
  BY <1>2, <1>3 DEF Next, RoutineStep, StopStep, Change, Remove, Announce, Say, Start, LoopSubscribe,
         StartReturn, LoopEvent, LoopExit, Know, List, PublishEntity, PublishStatus,
         Disconnected, Resend, Cancel, Stop, StopTimeout, StopOffline, StopDisconnect, vars,
         netVars, sendVars
<1>5. connects + 1 \in Routines \ {0}
  BY <1>4, BoundsAssumption DEF Connect, Routines, TypeOK
<1>6. work'[connects + 1] = <<Step("status", None, "online"), Step("list", None, None)>>
  BY <1>4, <1>5 DEF Connect, TypeOK
<1>7. PICK g \in Routines \ {0} :
        work'[g] = <<Step("status", None, "online"), Step("list", None, None)>>
  BY <1>5, <1>6
<1>8. Has(g, "list", None)'
  BY <1>7 DEF Has, Step
<1>9. QED
  BY <1>8 DEF Redo

\* The publication of a topic.
LEMMA Published ==
  ASSUME IInv, NEW g \in Routines, NEW k \in Kinds, NEW e \in Entities, Publishes(g, k, e),
         [Next]_vars
  PROVE  /\ k \in {"config", "avail"} => Shown(k, e)'
         /\ k = "config" => Gone(e)'
         /\ k = "state" => StateShown(e)'
<1> DEFINE st == Head(work[g])
           t == <<k, e>>
<1>1. /\ work[g] # <<>> /\ st.do = k /\ st.id = e /\ Rest(g)
      /\ UNCHANGED <<registry, pend, said, feed, known>>
  BY DEF Publishes, PublishEntity, coreVars
<1>2. /\ 0 \in Routines /\ t \in Topics /\ st.val \in Values /\ t # status
      /\ retained \in [Topics -> Values] /\ st = work[g][1] /\ 1 \in DOMAIN work[g]
      /\ TypeOK /\ WorkInv
  <2>1. TypeOK /\ WorkInv /\ 0 \in Routines
    BY BoundsAssumption DEF IInv, Routines
  <2>2. st = work[g][1] /\ 1 \in DOMAIN work[g] /\ st \in Steps
    BY <1>1, <2>1, Tails DEF TypeOK
  <2>3. t \in Topics /\ st.val \in Values /\ t # status
    BY <2>2, Names, NamesAssumption DEF status
  <2>4. QED
    BY <2>1, <2>2, <2>3 DEF TypeOK
<1>3. CASE st.do # "config" /\ st.id \notin known
  <2>1. k = "avail"
    <3>1. k # "state"
      BY <1>1, <1>2, <1>3 DEF WorkInv, ShapeOf, LoopShape
    <3>2. QED
      BY <1>1, <1>3, <3>1 DEF Kinds
  <2>2. g # 0
    BY <1>1, <1>2, <1>3, <2>1 DEF WorkInv, LoopShape
  <2>3. ASSUME registry[e] # None PROVE Coming("avail", e)
    <3>1. CASE pend[e] # <<>>
      <4>1. PICK ev \in Events : pend[e] = <<ev>>
        BY <1>2, <3>1 DEF TypeOK
      <4>2. ev.id = e /\ ev.type = "changed"
        BY <2>3, <4>1 DEF IInv, PendInv, PendOf
      <4>3. QED
        BY <4>1, <4>2 DEF Coming, PendSays, Says
    <3>2. CASE pend[e] = <<>>
      <4>1. feed \in Seq(Events) /\ Backed(e, Len(feed) + 1)
        BY <1>2, <2>3, <3>2 DEF IInv, KnowInv, TypeOK
      <4>2. WillKnow(e) => Has(0, "know", e)
        BY <1>1, <1>3 DEF WillKnow
      <4>3. Has(0, "know", e) => Has(0, "avail", e)
        BY <1>2 DEF Has, WorkInv, LoopShape, TypeOK
      <4>4. (\E j \in 1..Len(feed) : feed[j].type = "changed" /\ feed[j].id = e)
              => FeedSays("avail", e)
        BY <4>1 DEF FeedSays, Says
      <4>5. Len(feed) + 1 - 1 = Len(feed)
        BY <4>1
      <4>6. QED
        BY <4>1, <4>2, <4>3, <4>4, <4>5 DEF Backed, Coming
    <3>3. QED
      BY <3>1, <3>2
  <2>4. Coming("avail", e) => Coming("avail", e)'
    <3>1. ~Publishes(0, "avail", e)
      <4>1. ASSUME Publishes(0, "avail", e) PROVE FALSE
        <5>1. work'[g] = work[g] /\ Len(work'[g]) = Len(work[g]) - 1 /\ Len(work[g]) \in Nat
          BY <1>1, <1>2, <2>2, <4>1, Tails DEF Publishes, PublishEntity
        <5>2. QED
          BY <5>1
      <4>2. QED
        BY <4>1
    <3>2. QED
      BY <1>2, <2>1, <3>1, ComingKept DEF IInv
  <2>5. Shown("avail", e)'
    BY <1>1, <2>3, <2>4 DEF Shown
  <2>6. QED
    BY <2>1, <2>5
<1>4. CASE /\ st.do = "config" \/ st.id \in known
           /\ Send(t, st.val)
           /\ overtaken' = IF g > 0 /\ st.val # said[t] THEN overtaken \cup {t} ELSE overtaken \ {t}
  <2>1. /\ retained'[t] = st.val \/ t \in lost' \/ <<t, st.val>> \in store'
        /\ link' = "up" => retained'[t] = st.val
    BY <1>2, <1>4, Sends
  <2>2. registry[e] = None /\ k = "config" => said[t] = None
    BY DEF IInv, PendInv, PendOf
  <2>3. CASE st.val = said[t]
    <3>1. Shown(k, e)'
      BY <1>1, <2>1, <2>3 DEF Shown
    <3>2. k = "config" => Gone(e)'
      BY <1>1, <2>1, <2>2, <2>3 DEF Gone
    <3>3. k = "state" => StateShown(e)'
      BY <1>1, <2>1, <2>3 DEF StateShown
    <3>4. QED
      BY <3>1, <3>2, <3>3
  <2>4. CASE st.val # said[t] /\ g # 0
    <3>1. g > 0
      BY <2>4, BoundsAssumption DEF Routines
    <3>2. t \in overtaken' /\ k # "state"
      BY <1>1, <1>2, <1>4, <2>4, <3>1 DEF WorkInv, ShapeOf
    <3>3. QED
      BY <3>2 DEF Shown, Gone
  <2>5. CASE st.val # said[t] /\ g = 0
    <3>1. \/ \E j \in (1 + 1)..Len(loop) : loop[j].do = k /\ loop[j].id = e
          \/ FeedSays(k, e) \/ PendSays(k, e)
      BY <1>1, <1>2, <2>5 DEF IInv, LastInv, LoopLast
    <3>2. FeedSays(k, e) \/ PendSays(k, e) => Coming(k, e)'
      BY <1>1 DEF Coming, FeedSays, PendSays
    <3>3. ASSUME NEW j \in (1 + 1)..Len(loop), loop[j].do = k, loop[j].id = e
          PROVE  Coming(k, e)'
      <4>1. work'[0] \in Seq(Steps) /\ Len(work'[0]) = Len(loop) - 1 /\ Len(loop) \in Nat
            /\ \A i \in 1..(Len(loop) - 1) : work'[0][i] = loop[i + 1]
        BY <1>1, <1>2, <2>5, Tails
      <4>2. j - 1 \in DOMAIN work'[0] /\ work'[0][j - 1] = loop[j]
        BY <3>3, <4>1
      <4>3. QED
        BY <3>3, <4>2 DEF Coming, Has
    <3>4. Coming(k, e)'
      BY <3>1, <3>2, <3>3
    <3>5. QED
      BY <3>4 DEF Shown, Gone, StateShown
  <2>6. QED
    BY <2>3, <2>4, <2>5
<1>5. QED
  BY <1>1, <1>3, <1>4 DEF Publishes, PublishEntity, pubVars

\* What the broker lacks is coming, lost, kept by the client, or will be published by the
\* next connection.
LEMMA StepMirror == IInv /\ [Next]_vars => MirrorInv'
<1> SUFFICES ASSUME IInv, [Next]_vars, NEW e \in Entities
             PROVE  (\A k \in {"config", "avail"} : Shown(k, e)') /\ Gone(e)' /\ StateShown(e)'
  BY DEF MirrorInv
<1>1. TypeOK /\ StartInv /\ WorkInv
      /\ (\A k \in {"config", "avail"} : Shown(k, e)) /\ Gone(e) /\ StateShown(e)
  BY DEF IInv, MirrorInv
<1>2. ASSUME NEW k \in Kinds, \A g \in Routines : ~Publishes(g, k, e)
      PROVE  /\ \/ Kept(<<k, e>>)
                \/ UNCHANGED <<registry, said>> /\ retained'[<<k, e>>] = said[<<k, e>>]
                \/ <<k, e>> \in overtaken'
             /\ Coming(k, e) => Coming(k, e)'
             /\ said'[<<k, e>>] = said[<<k, e>>] \/ Coming(k, e)'
  <2>1. 0 \in Routines
    BY BoundsAssumption DEF Routines
  <2>2. Coming(k, e) => Coming(k, e)'
    BY <1>1, <1>2, <2>1, ComingKept
  <2>3. said'[<<k, e>>] = said[<<k, e>>] \/ Coming(k, e)'
    BY <1>1, <1>2, SaidKept
  <2>4. QED
    BY <1>1, <1>2, <2>2, <2>3, TopicKept
<1>3. \/ registry'[e] = registry[e]
      \/ Coming("config", e)' /\ (registry'[e] # None => Coming("avail", e)')
  BY <1>1, RegistryKept
<1>4. ASSUME NEW k \in {"config", "avail"} PROVE Shown(k, e)'
  <2>1. k \in Kinds
    BY <1>4 DEF Kinds
  <2>2. CASE \E g \in Routines : Publishes(g, k, e)
    BY <2>1, <2>2, Published
  <2>3. CASE \A g \in Routines : ~Publishes(g, k, e)
    <3>1. SUFFICES ASSUME registry'[e] # None, registry[e] = registry'[e], ~Coming(k, e)',
                          link' = "up", ~Redo(k, e)'
                   PROVE  retained'[<<k, e>>] = said'[<<k, e>>] \/ <<k, e>> \in overtaken'
      BY <1>3 DEF Shown
    <3>2. link = "up"
      BY <1>1, <3>1, LinkKept
    <3>3. ~Coming(k, e) /\ ~Redo(k, e)
      BY <1>1, <1>2, <2>1, <2>3, <3>1, RedoKept
    <3>4. retained[<<k, e>>] = said[<<k, e>>] \/ <<k, e>> \in overtaken
      BY <1>1, <3>1, <3>2, <3>3 DEF Shown
    <3>5. QED
      BY <1>2, <2>1, <2>3, <3>1, <3>4 DEF Kept
  <2>4. QED
    BY <2>2, <2>3
<1>5. Gone(e)'
  <2>1. "config" \in Kinds
    BY DEF Kinds
  <2>2. CASE \E g \in Routines : Publishes(g, "config", e)
    BY <2>1, <2>2, Published
  <2>3. CASE \A g \in Routines : ~Publishes(g, "config", e)
    <3>1. registry'[e] = registry[e] \/ Coming("config", e)'
      BY <1>3
    <3>2. CASE Kept(<<"config", e>>)
      BY <1>1, <1>2, <2>1, <2>3, <3>1, <3>2 DEF Gone, Kept
    <3>3. CASE UNCHANGED <<registry, said>> /\ retained'[<<"config", e>>] = said[<<"config", e>>]
      BY <3>3 DEF Gone, IInv, PendInv, PendOf
    <3>4. QED
      BY <1>2, <2>1, <2>3, <3>2, <3>3 DEF Gone
  <2>4. QED
    BY <2>2, <2>3
<1>6. StateShown(e)'
  <2>1. "state" \in Kinds
    BY DEF Kinds
  <2>2. CASE \E g \in Routines : Publishes(g, "state", e)
    BY <2>1, <2>2, Published
  <2>3. CASE \A g \in Routines : ~Publishes(g, "state", e)
    BY <1>1, <1>2, <2>1, <2>3 DEF StateShown, Kept
  <2>4. QED
    BY <2>2, <2>3
<1>7. QED
  BY <1>4, <1>5, <1>6

\* A handler of OnConnect that has not said so yet says that the agent is online, and
\* the client has no other message about the agent.
LEMMA StepStatus == TypeOK /\ StartInv /\ WorkInv /\ StatusInv /\ [Next]_vars => StatusInv'
<1> SUFFICES ASSUME TypeOK, StartInv, WorkInv, StatusInv, [Next]_vars,
                    tpc' \in {"new", "starting", "started"}
             PROVE  /\ \A v : <<status, v>> \in store' => v = "online"
                    /\ link' = "up" => \/ retained'[status] = "online"
                                      \/ \E g \in Routines : Has(g, "status", None)'
  BY DEF StatusInv
<1> USE DEF coreVars, runVars, sendVars, netVars, pubVars
<1>1. /\ retained \in [Topics -> Values] /\ status \in Topics
      /\ \A k, e : <<k, e>> = status => e = None
      /\ "online" \in Values
  BY Names DEF TypeOK, status
<1>2. CASE Connect
  <2>1. connects + 1 \in Routines
    BY <1>2, BoundsAssumption DEF Connect, Routines, TypeOK
  <2>2. work'[connects + 1] = <<Step("status", None, "online"), Step("list", None, None)>>
    BY <1>2, <2>1 DEF Connect, TypeOK
  <2>3. \E g \in Routines : work'[g] = <<Step("status", None, "online"), Step("list", None, None)>>
    BY <2>1, <2>2
  <2>4. \A g \in Routines :
          work'[g] = <<Step("status", None, "online"), Step("list", None, None)>>
            => Has(g, "status", None)'
    BY DEF Has, Step
  <2>5. UNCHANGED <<store, tpc>>
    BY <1>2 DEF Connect
  <2>6. QED
    BY <2>3, <2>4, <2>5 DEF StatusInv
<1>3. ASSUME NEW g \in Routines, PublishStatus(g)
      PROVE  /\ \A v : <<status, v>> \in store' => v = "online"
             /\ link' = "up" => retained'[status] = "online"
  <2>1. Send(status, "online") /\ UNCHANGED tpc
    BY <1>3 DEF PublishStatus
  <2>2. /\ store' \subseteq store \cup {<<status, "online">>}
        /\ link' = "up" => retained' = [retained EXCEPT ![status] = "online"]
    BY <1>1, <2>1, Sends
  <2>3. QED
    BY <1>1, <2>1, <2>2 DEF StatusInv
<1>4. CASE Resend
  <2>1. UNCHANGED <<tpc, link, work>>
    BY <1>4 DEF Resend
  <2>2. QED
    BY <1>1, <1>4, <2>1, Resends DEF StatusInv, Has
<1>5. ASSUME ~Connect, ~Resend, \A g \in Routines : ~PublishStatus(g)
      PROVE  /\ \A v : <<status, v>> \in store' => v = "online"
             /\ link' = "up" => \/ retained'[status] = "online"
                               \/ \E g \in Routines : Has(g, "status", None)'
  <2>1. /\ tpc \in {"new", "starting", "started"}
        /\ \A v : <<status, v>> \in store' => <<status, v>> \in store
        /\ link' = "up" => link = "up" /\ retained'[status] = retained[status]
    <3>1. ASSUME NEW g \in Routines, PublishEntity(g)
          PROVE  /\ tpc' = tpc
                 /\ \A v : <<status, v>> \in store' => <<status, v>> \in store
                 /\ link' = "up" => link = "up" /\ retained'[status] = retained[status]
      <4> DEFINE t == <<Head(work[g]).do, Head(work[g]).id>>
      <4>1. Head(work[g]) \in Steps /\ Head(work[g]).do \in Kinds
        BY <3>1, Tails DEF PublishEntity
      <4>2. t # status /\ t \in Topics /\ Head(work[g]).val \in Values
        BY <4>1, Names, NamesAssumption DEF status
      <4>3. CASE Send(t, Head(work[g]).val)
        <5>1. /\ store' \subseteq store \cup {<<t, Head(work[g]).val>>}
              /\ link' = link \/ (link = "up" /\ link' = "down")
              /\ link' = "up" => retained' = [retained EXCEPT ![t] = Head(work[g]).val]
          BY <4>2, <4>3, Sends
        <5>2. UNCHANGED tpc
          BY <3>1 DEF PublishEntity
        <5>3. QED
          BY <1>1, <4>2, <5>1, <5>2
      <4>4. CASE UNCHANGED <<sendVars, pubVars>>
        BY <3>1, <4>4 DEF PublishEntity
      <4>5. QED
        BY <3>1, <4>3, <4>4 DEF PublishEntity
    <3>2. ASSUME ~\E g \in Routines : PublishEntity(g)
          PROVE  /\ tpc \in {"new", "starting", "started"} /\ UNCHANGED store
                 /\ link' = "up" => link = "up" /\ UNCHANGED retained
      BY <1>5, <3>2
         DEF Next, RoutineStep, StopStep, Change, Remove, Announce, Say, Start, LoopSubscribe,
             StartReturn, LoopEvent, LoopExit, Know, List, Disconnected, Cancel, Stop,
             StopTimeout, StopOffline, StopDisconnect, vars
    <3>3. QED
      BY <3>1, <3>2
  <2>2. SUFFICES ASSUME NEW g \in Routines, Has(g, "status", None)
                 PROVE  \E h \in Routines : Has(h, "status", None)'
    BY <2>1 DEF StatusInv
  <2>3. PICK i \in DOMAIN work[g] : work[g][i].do = "status"
    BY <2>2 DEF Has
  <2>4. g # 0 /\ i = 1 /\ work[g] \in Seq(Steps) /\ work[g] # <<>>
    BY <2>3 DEF WorkInv, ShapeOf, TypeOK
  <2>5. Head(work[g]).do = "status"
    BY <2>3, <2>4
  <2>6. ~Know(g) /\ ~PublishEntity(g) /\ ~List(g)
    BY <2>5 DEF Know, PublishEntity, List, Kinds
  <2>7. work'[g] = work[g]
    BY <1>5, <2>4, <2>6, WorkOf
  <2>8. QED
    BY <2>2, <2>7 DEF Has
<1>6. QED
  BY <1>2, <1>3, <1>4, <1>5

\* Every step keeps the invariant, ...
LEMMA StepIInv == IInv /\ [Next]_vars => IInv'
BY StepTypeOK, StepStart, StepPend, StepWork, StepKnow, StepLast, StepList, StepMirror, StepStatus
   DEF IInv

\* ... which therefore always holds.
LEMMA Invariance == Spec => []IInv
BY InitIInv, StepIInv, PTL DEF Spec

-----------------------------------------------------------------------------
\* TypeOK, for any entities, calls and connections: a client that was stopped is gone for
\* good, and OnConnect runs for connections that were made.
THEOREM TypeCorrect == Spec => []TypeOK
<1>1. IInv => TypeOK
  BY DEF IInv
<1>2. QED
  BY Invariance, <1>1, PTL

\* eventLoop knows every entity whose state or availability it is asked to publish: Start
\* returns after it has subscribed, plugins register before they publish, the events of
\* an entity come in order, and handlers of OnConnect only add to what is known.
THEOREM NothingUnknown == Spec => []NoBlindSpot
<1>1. IInv => NoBlindSpot
  <2>1. SUFFICES ASSUME IInv, work[0] # <<>>, Head(work[0]).do \in {"avail", "state"}
                 PROVE  Head(work[0]).id \in known
    BY DEF NoBlindSpot
  <2>2. loop \in Seq(Steps)
    <3>1. 0 \in Routines
      BY BoundsAssumption DEF Routines
    <3>2. QED
      BY <2>1, <3>1 DEF IInv, TypeOK
  <2>3. 1 \in DOMAIN loop /\ Head(loop) = loop[1]
    BY <2>1, <2>2
  <2>4. QED
    BY <2>1, <2>3 DEF IInv, WorkInv, LoopShape
<1>2. QED
  BY Invariance, <1>1, PTL

\* When all is handled and the client, connected, has nothing left to send again, the
\* broker has what the core has, whatever connections were lost and whatever was dropped
\* on the way: what was dropped is published again by the next connection, what was said
\* meanwhile is still to come, the last of it is what was said last, and only a message
\* sent again, or an old list of OnConnect, can put older data over it.
THEOREM BrokerFollows == Spec => []BrokerMirrors
<1>1. IInv => BrokerMirrors
  <2>1. SUFFICES ASSUME IInv, Settled
                 PROVE  retained[status] = "online" /\ \A e \in Entities :
                    /\ registry[e] # None => \A t \in {<<"config", e>>, <<"avail", e>>} \ overtaken :
                                               retained[t] = said[t]
                    /\ registry[e] = None => \A t \in {<<"config", e>>} \ (overtaken \cup lost) :
                                               retained[t] = None
                    /\ \A t \in {<<"state", e>>} \ (overtaken \cup lost) : retained[t] = said[t]
    BY DEF BrokerMirrors
  <2>2. \A g \in Routines : \A k, e : ~Has(g, k, e)
    BY <2>1 DEF Has, Settled
  <2>3. 0 \in Routines
    BY BoundsAssumption DEF Routines
  <2>4. \A k \in Kinds, e \in Entities : ~Coming(k, e) /\ ~Redo(k, e)
    BY <2>1, <2>2, <2>3 DEF Coming, FeedSays, PendSays, Redo, Settled
  <2>5. retained[status] = "online"
    BY <2>1, <2>2 DEF IInv, StatusInv, Settled
  <2>6. ASSUME NEW e \in Entities
        PROVE  (\A k \in {"config", "avail"} : Shown(k, e)) /\ Gone(e) /\ StateShown(e)
    BY <2>1 DEF IInv, MirrorInv
  <2>7. link = "up" /\ store = {} /\ {"config", "avail", "state"} \subseteq Kinds
    BY <2>1 DEF Settled, Kinds
  <2>8. QED
    BY <2>4, <2>5, <2>6, <2>7 DEF Shown, Gone, StateShown
<1>2. QED
  BY Invariance, <1>1, PTL
=============================================================================
