------------------------- MODULE PluginScope_proofs -------------------------
(***************************************************************************)
(* Theorems about PluginScope for any scopes, entities, tasks and callers. *)
(***************************************************************************)
EXTENDS PluginScope, TLAPS

(* The sets of entities: what With and Without leave in them.              *)

LEMMA IdsWithout ==
  ASSUME NEW S, NEW e
  PROVE  /\ Ids(Without(S, e)) = Ids(S) \ {e}
         /\ Without(S, e) \subseteq S
  BY DEF Ids, Without

LEMMA IdsWith ==
  ASSUME NEW S, NEW e, NEW d
  PROVE  Ids(With(S, e, d)) = Ids(S) \cup {e}
<1> DEFINE new == [id |-> e, data |-> d]
<1>1. Ids(Without(S, e) \cup {new}) = Ids(Without(S, e)) \cup {new.id}
  BY DEF Ids
<1>2. new.id = e
  OBVIOUS
<1>3. Ids(Without(S, e)) = Ids(S) \ {e}
  BY IdsWithout
<1>4. With(S, e, d) = Without(S, e) \cup {new}
  BY DEF With
<1> HIDE DEF new
<1>5. QED
  BY <1>1, <1>2, <1>3, <1>4

LEMMA WithType ==
  ASSUME NEW S, S \subseteq Entity, OnePerId(S), NEW e \in Entities, NEW d \in Data
  PROVE  /\ With(S, e, d) \subseteq Entity /\ OnePerId(With(S, e, d))
         /\ Without(S, e) \subseteq Entity /\ OnePerId(Without(S, e))
  BY DEF With, Without, OnePerId, Entity

LEMMA WithoutType ==
  ASSUME NEW S, OnePerId(S), NEW e
  PROVE  Without(S, e) \subseteq S /\ OnePerId(Without(S, e))
  BY DEF Without, OnePerId
-----------------------------------------------------------------------------
\* The steps of a command, which change nothing but found and inflight.
RouteStep(c) == (\E e \in Entities : RouteLookup(c, e)) \/ RouteCall(c) \/ HandlerReturn(c)

LEMMA TypeInit == Init => TypeOK
  BY DEF Init, TypeOK, OnePerId

\* What a publication does to the types.
LEMMA PublishType ==
  ASSUME TypeOK, NEW ev \in Event, PublishRegistry(ev)
  PROVE  /\ view' \subseteq Entity /\ OnePerId(view')
         /\ misordered' \subseteq {"added", "updated", "removed", "state", "availability"} \X Entities
<1>1. /\ With(view, ev.id, ev.data) \subseteq Entity /\ OnePerId(With(view, ev.id, ev.data))
      /\ Without(view, ev.id) \subseteq Entity /\ OnePerId(Without(view, ev.id))
  BY WithType DEF TypeOK, Event
<1>2. view' = IF ev.type = "removed" THEN Without(view, ev.id) ELSE With(view, ev.id, ev.data)
  BY DEF PublishRegistry, Publish
<1>3. misordered' \subseteq misordered \cup {<<ev.type, ev.id>>}
  BY DEF PublishRegistry, Publish
<1>4. <<ev.type, ev.id>> \in {"added", "updated", "removed", "state", "availability"} \X Entities
  BY DEF Event
<1>5. QED
  BY <1>1, <1>2, <1>3, <1>4 DEF TypeOK

\* The two calls that leave an event to publish.
LEMMA CallEvent ==
  ASSUME NEW s \in Scopes, NEW e \in Entities, NEW d \in Data,
         RegisterEntity(s, e, d) \/ UpdateEntity(s, e, d)
  PROVE  \E ev \in Event :
           /\ ev.id = e /\ ev.data = d /\ ev.type # "removed"
           /\ ev.type = "added" => e \notin Ids(registry) /\ e \in Declares[s]
           /\ ev.type = "updated" => e \in Ids(registry) /\ e \in entityIDs[s]
           /\ pending' = [pending EXCEPT ![s] = {ev}]
<1> DEFINE event(type) == [type |-> type, id |-> e, data |-> d]
<1>1. CASE RegisterEntity(s, e, d)
  <2>1. event("added") \in Event
    BY DEF Event
  <2>2. pending' = [pending EXCEPT ![s] = {event("added")}]
    BY <1>1 DEF RegisterEntity
  <2>3. QED
    BY <1>1, <2>1, <2>2 DEF RegisterEntity
<1>2. CASE UpdateEntity(s, e, d)
  <2>1. event("updated") \in Event
    BY DEF Event
  <2>2. pending' = [pending EXCEPT ![s] = {event("updated")}]
    BY <1>2 DEF UpdateEntity
  <2>3. QED
    BY <1>2, <2>1, <2>2 DEF UpdateEntity
<1>3. QED
  BY <1>1, <1>2

LEMMA TypeStep == TypeOK /\ [Next]_vars => TypeOK'
<1> SUFFICES ASSUME TypeOK, [Next]_vars PROVE TypeOK'
  OBVIOUS
<1> USE DEF TypeOK, regVars, callVars, scopeVars, taskVars, busVars
<1>1. ASSUME NEW s \in Scopes, NewPluginScope(s) PROVE TypeOK'
  BY <1>1 DEF NewPluginScope
<1>2. ASSUME NEW s \in Scopes, NEW e \in Entities, NEW d \in Data,
             RegisterEntity(s, e, d) \/ UpdateEntity(s, e, d)
      PROVE  TypeOK'
  <2>1. registry' \subseteq Entity /\ OnePerId(registry')
    BY <1>2, WithType DEF RegisterEntity, UpdateEntity
  <2>2. PICK ev \in Event : pending' = [pending EXCEPT ![s] = {ev}]
    BY <1>2, CallEvent
  <2>3. pending' \in [Scopes -> SUBSET Event]
    BY <2>2
  <2>4. \A t \in Scopes : \A x, y \in pending'[t] : x = y
    BY <2>2
  <2>5. UNCHANGED <<handlers, callVars, spc, entityIDs, unsubs, toUnsub, toRemove,
                    taskVars, result, busVars>>
    BY <1>2 DEF RegisterEntity, UpdateEntity
  <2>6. QED
    BY <2>1, <2>3, <2>4, <2>5
<1>3. ASSUME NEW s \in Scopes, Announce(s) \/ CloseAnnounce(s) PROVE TypeOK'
  <2>1. PICK ev \in pending[s] : /\ PublishRegistry(ev)
                                 /\ pending' = [pending EXCEPT ![s] = @ \ {ev}]
    BY <1>3 DEF Announce, CloseAnnounce
  <2>2. ev \in Event
    OBVIOUS
  <2>3. /\ view' \subseteq Entity /\ OnePerId(view')
        /\ misordered' \subseteq {"added", "updated", "removed", "state", "availability"} \X Entities
    BY <2>1, <2>2, PublishType
  <2>4. pending' \in [Scopes -> SUBSET Event] /\ \A t \in Scopes : pending'[t] \subseteq pending[t]
    BY <2>1
  <2>5. entityIDs' \in [Scopes -> SUBSET Entities]
    BY <1>3, <2>1, <2>2 DEF Announce, CloseAnnounce, Event
  <2>6. UNCHANGED <<regVars, spc, unsubs, toUnsub, toRemove, taskVars, result>>
    BY <1>3 DEF Announce, CloseAnnounce
  <2>7. QED
    BY <2>3, <2>4, <2>5, <2>6
<1>4. ASSUME NEW s \in Scopes, NEW e \in Entities, PublishState(s, e) \/ SetAvailability(s, e)
      PROVE  TypeOK'
  BY <1>4 DEF PublishState, SetAvailability, Publish, vars
<1>5. ASSUME NEW s \in Scopes, NEW e \in Entities, SubscribeCommand(s, e) PROVE TypeOK'
  BY <1>5 DEF SubscribeCommand, Handler, OnePerId, Ids
<1>6. ASSUME NEW s \in Scopes, NEW t \in Tasks, Go(s, t) PROVE TypeOK'
  BY <1>6 DEF Go
<1>7. ASSUME NEW s \in Scopes, NEW t \in Tasks, TaskReturn(s, t) \/ TaskFail(s, t) PROVE TypeOK'
  <2>1. running' = [running EXCEPT ![s] = @ \ {t}]
    BY <1>7 DEF TaskReturn, TaskFail
  <2>2. running' \in [Scopes -> SUBSET Tasks]
    BY <2>1
  <2>3. failed' \in [Scopes -> BOOLEAN] /\ ctxDone' \in [Scopes -> BOOLEAN]
    <3>1. CASE TaskReturn(s, t)
      BY <3>1 DEF TaskReturn
    <3>2. CASE TaskFail(s, t)
      BY <3>2 DEF TaskFail
    <3>3. QED
      BY <1>7, <3>1, <3>2
  <2>4. UNCHANGED <<regVars, callVars, scopeVars, started, result, busVars>>
    BY <1>7 DEF TaskReturn, TaskFail
  <2>5. QED
    BY <2>2, <2>3, <2>4
<1>8. ASSUME NEW s \in Scopes, CloseBegin(s) PROVE TypeOK'
  BY <1>8 DEF CloseBegin
<1>9. ASSUME NEW s \in Scopes, CloseCancel(s) PROVE TypeOK'
  BY <1>9 DEF CloseCancel
<1>10. ASSUME NEW s \in Scopes, CloseUnsub(s) PROVE TypeOK'
  <2>1. PICK e \in toUnsub[s] : /\ handlers' = Without(handlers, e)
                                /\ toUnsub' = [toUnsub EXCEPT ![s] = @ \ {e}]
    BY <1>10 DEF CloseUnsub
  <2>2. handlers' \subseteq Handler /\ OnePerId(handlers')
    BY <2>1, WithoutType
  <2>3. toUnsub' \in [Scopes -> SUBSET Entities]
    BY <2>1
  <2>4. QED
    BY <1>10, <2>2, <2>3 DEF CloseUnsub
<1>11. ASSUME NEW s \in Scopes, CloseUnsubDone(s) \/ CloseRemoveDone(s) PROVE TypeOK'
  BY <1>11 DEF CloseUnsubDone, CloseRemoveDone
<1>12. ASSUME NEW s \in Scopes, CloseRemove(s) PROVE TypeOK'
  <2>1. PICK e \in toRemove[s] :
          /\ toRemove' = [toRemove EXCEPT ![s] = @ \ {e}]
          /\ registry' = Without(registry, e)
          /\ pending' = [pending EXCEPT ![s] =
               {[type |-> "removed", id |-> e, data |-> r.data] : r \in registry \ registry'}]
    BY <1>12 DEF CloseRemove
  <2>2. registry' \subseteq registry /\ OnePerId(registry')
    BY <2>1, WithoutType
  <2>3. DEFINE gone == {[type |-> "removed", id |-> e, data |-> r.data] : r \in registry \ registry'}
  <2>4. e \in Entities
    OBVIOUS
  <2>5. gone \subseteq Event
    BY <2>4 DEF Event, Entity
  <2>6. \A r \in registry \ registry' : r.id = e
    BY <2>1 DEF Without
  <2>7. \A x, y \in gone : x = y
    BY <2>6 DEF OnePerId
  <2>8. pending' = [pending EXCEPT ![s] = gone]
    BY <2>1
  <2> HIDE DEF gone
  <2>9. pending' \in [Scopes -> SUBSET Event] /\ \A t \in Scopes : \A x, y \in pending'[t] : x = y
    BY <2>5, <2>7, <2>8
  <2>10. toRemove' \in [Scopes -> SUBSET Entities]
    BY <2>1
  <2>11. QED
    BY <1>12, <2>2, <2>9, <2>10 DEF CloseRemove
<1>13. ASSUME NEW s \in Scopes, CloseReturn(s) \/ CloseTimeout(s) PROVE TypeOK'
  BY <1>13 DEF CloseReturn, CloseTimeout
<1>14. ASSUME NEW c \in Callers, RouteCall(c) \/ \E e \in Entities : RouteLookup(c, e)
       PROVE  TypeOK'
  BY <1>14 DEF RouteCall, RouteLookup
<1>15. ASSUME NEW c \in Callers, HandlerReturn(c) PROVE TypeOK'
  BY <1>15 DEF HandlerReturn
<1>16. CASE UNCHANGED vars
  BY <1>16 DEF vars
<1>17. QED
  BY <1>1, <1>2, <1>3, <1>4, <1>5, <1>6, <1>7, <1>8, <1>9, <1>10, <1>11, <1>12,
     <1>13, <1>14, <1>15, <1>16 DEF Next, Call, CloseStep, RouteStep

\* Every variable keeps its type; the registry, the view and the router have one
\* entry per id; a scope has one event at a time on its way to the bus.
THEOREM TypeCorrect == Spec => []TypeOK
  BY TypeInit, TypeStep, PTL DEF Spec
-----------------------------------------------------------------------------
(* Phase by phase: an open scope has no lists of Close, one that is closing *)
(* or closed has no others, and each list is empty once Close is past it.   *)

PhaseInv ==
  \A s \in Scopes :
    /\ spc[s] # "open" => entityIDs[s] = {} /\ unsubs[s] = {}
    /\ spc[s] \notin {"cancel", "unsub"} => toUnsub[s] = {}
    /\ spc[s] \notin {"cancel", "unsub", "remove"} => toRemove[s] = {}
    /\ spc[s] \notin {"open", "remove"} => pending[s] = {}
    /\ \A ev \in pending[s] : ev.type = "removed" <=> spc[s] = "remove"
    /\ unsubs[s] \subseteq entityIDs[s]
    /\ toUnsub[s] \subseteq toRemove[s]

alive(s) == spc[s] \notin {"new", "closed"}

\* Every entity s answers for, or has still to tell about.
mine(s) == entityIDs[s] \cup toRemove[s] \cup Ids(pending[s])

\* Scopes that are alive together have nothing in common.
OwnInv ==
  /\ \A s \in Scopes : mine(s) \subseteq Declares[s]
  /\ \A s, t \in Scopes :
       s # t /\ Declares[s] \cap Declares[t] # {} => ~alive(s) \/ ~alive(t)

\* The registry holds what the scopes answer for.
RegInv == \A e \in Entities : e \in Ids(registry) <=> \E s \in Scopes : e \in holds(s)

\* An event under way is the difference between the registry and the view.
EventInv ==
  /\ \A s \in Scopes : \A ev \in pending[s] :
       /\ ev.type # "removed" => [id |-> ev.id, data |-> ev.data] \in registry
       /\ ev.type = "removed" => ev.id \notin Ids(registry)
       /\ ev.type = "added" <=> ev.id \notin Ids(view)
  /\ ViewFollowsRegistry

HandlerInv == \A h \in handlers : h.id \in unsubs[h.scope] \cup toUnsub[h.scope]

LEMMA PhaseInit == Init => PhaseInv /\ OwnInv /\ HandlerInv
  BY DEF Init, PhaseInv, OwnInv, HandlerInv, alive, mine, Ids

LEMMA PhaseStep == TypeOK /\ PhaseInv /\ [Next]_vars => PhaseInv'
<1> SUFFICES ASSUME TypeOK, PhaseInv, [Next]_vars PROVE PhaseInv'
  OBVIOUS
<1> USE DEF TypeOK, PhaseInv, regVars, callVars, scopeVars, taskVars, busVars
<1>1. ASSUME NEW s \in Scopes, NewPluginScope(s) PROVE PhaseInv'
  BY <1>1 DEF NewPluginScope
<1>2. ASSUME NEW s \in Scopes, NEW e \in Entities, NEW d \in Data,
             RegisterEntity(s, e, d) \/ UpdateEntity(s, e, d)
      PROVE  PhaseInv'
  <2>1. PICK ev : pending' = [pending EXCEPT ![s] = {ev}] /\ ev.type # "removed"
    BY <1>2, CallEvent
  <2>2. spc[s] = "open" /\ UNCHANGED <<spc, entityIDs, unsubs, toUnsub, toRemove>>
    BY <1>2 DEF RegisterEntity, UpdateEntity, Free
  <2>3. QED
    BY <2>1, <2>2
<1>3. ASSUME NEW s \in Scopes, Announce(s) PROVE PhaseInv'
  BY <1>3 DEF Announce
<1>4. ASSUME NEW s \in Scopes, CloseAnnounce(s) PROVE PhaseInv'
  BY <1>4 DEF CloseAnnounce
<1>5. ASSUME NEW s \in Scopes, NEW e \in Entities, PublishState(s, e) \/ SetAvailability(s, e)
      PROVE  PhaseInv'
  BY <1>5 DEF PublishState, SetAvailability
<1>6. ASSUME NEW s \in Scopes, NEW e \in Entities, SubscribeCommand(s, e) PROVE PhaseInv'
  BY <1>6 DEF SubscribeCommand, Free
<1>7. ASSUME NEW s \in Scopes, NEW t \in Tasks, Go(s, t) \/ TaskReturn(s, t) \/ TaskFail(s, t)
      PROVE  PhaseInv'
  BY <1>7 DEF Go, TaskReturn, TaskFail
<1>8. ASSUME NEW s \in Scopes, CloseBegin(s) PROVE PhaseInv'
  BY <1>8 DEF CloseBegin, Free
<1>9. ASSUME NEW s \in Scopes, CloseCancel(s) PROVE PhaseInv'
  BY <1>9 DEF CloseCancel
<1>10. ASSUME NEW s \in Scopes, CloseUnsub(s) PROVE PhaseInv'
  BY <1>10 DEF CloseUnsub
<1>11. ASSUME NEW s \in Scopes, CloseUnsubDone(s) PROVE PhaseInv'
  BY <1>11 DEF CloseUnsubDone
<1>12. ASSUME NEW s \in Scopes, CloseRemove(s) PROVE PhaseInv'
  <2>1. PICK e \in toRemove[s] :
          /\ toRemove' = [toRemove EXCEPT ![s] = @ \ {e}]
          /\ pending' = [pending EXCEPT ![s] =
               {[type |-> "removed", id |-> e, data |-> r.data] : r \in registry \ registry'}]
    BY <1>12 DEF CloseRemove
  <2>2. spc[s] = "remove" /\ UNCHANGED <<spc, entityIDs, unsubs, toUnsub>>
    BY <1>12 DEF CloseRemove
  <2>3. \A ev \in pending'[s] : ev.type = "removed"
    BY <2>1
  <2>4. \A t \in Scopes \ {s} : pending'[t] = pending[t]
    BY <2>1
  <2>5. QED
    BY <2>1, <2>2, <2>3, <2>4
<1>13. ASSUME NEW s \in Scopes, CloseRemoveDone(s) PROVE PhaseInv'
  BY <1>13 DEF CloseRemoveDone
<1>14. ASSUME NEW s \in Scopes, CloseReturn(s) \/ CloseTimeout(s) PROVE PhaseInv'
  BY <1>14 DEF CloseReturn, CloseTimeout
<1>15. ASSUME NEW c \in Callers, RouteStep(c)
       PROVE  PhaseInv'
  BY <1>15 DEF RouteStep, RouteLookup, RouteCall, HandlerReturn
<1>16. CASE UNCHANGED vars
  BY <1>16 DEF vars
<1>17. QED
  BY <1>1, <1>2, <1>3, <1>4, <1>5, <1>6, <1>7, <1>8, <1>9, <1>10, <1>11, <1>12,
     <1>13, <1>14, <1>15, <1>16 DEF Next, Call, CloseStep, RouteStep

\* The steps that touch what the registry and the scopes hold.
LEMMA StepKinds ==
  ASSUME [Next]_vars
  PROVE  \/ \E s \in Scopes : \/ Announce(s) \/ CloseAnnounce(s)
                             \/ CloseBegin(s) \/ CloseRemove(s)
                             \/ \E e \in Entities, d \in Data :
                                  RegisterEntity(s, e, d) \/ UpdateEntity(s, e, d)
         \/ /\ UNCHANGED <<registry, entityIDs, toRemove, pending>>
            /\ \/ UNCHANGED busVars
               \/ \E s \in Scopes, e \in Entities : PublishState(s, e) \/ SetAvailability(s, e)
<1> DEFINE Quiet == UNCHANGED <<registry, entityIDs, toRemove, pending>>
<1> USE DEF regVars, callVars, scopeVars, taskVars, busVars
<1>1. ASSUME NEW s \in Scopes, NewPluginScope(s) PROVE Quiet /\ UNCHANGED busVars
  BY <1>1 DEF NewPluginScope
<1>2. ASSUME NEW s \in Scopes, NEW e \in Entities, PublishState(s, e) \/ SetAvailability(s, e)
      PROVE  Quiet
  BY <1>2 DEF PublishState, SetAvailability
<1>3. ASSUME NEW s \in Scopes, NEW e \in Entities, SubscribeCommand(s, e)
      PROVE  Quiet /\ UNCHANGED busVars
  BY <1>3 DEF SubscribeCommand
<1>4. ASSUME NEW s \in Scopes, NEW t \in Tasks, Go(s, t) \/ TaskReturn(s, t) \/ TaskFail(s, t)
      PROVE  Quiet /\ UNCHANGED busVars
  BY <1>4 DEF Go, TaskReturn, TaskFail
<1>5. ASSUME NEW s \in Scopes, CloseCancel(s) \/ CloseUnsub(s) \/ CloseUnsubDone(s)
      PROVE  Quiet /\ UNCHANGED busVars
  BY <1>5 DEF CloseCancel, CloseUnsub, CloseUnsubDone
<1>6. ASSUME NEW s \in Scopes, CloseRemoveDone(s) \/ CloseReturn(s) \/ CloseTimeout(s)
      PROVE  Quiet /\ UNCHANGED busVars
  BY <1>6 DEF CloseRemoveDone, CloseReturn, CloseTimeout
<1>7. ASSUME NEW c \in Callers, RouteStep(c)
      PROVE  Quiet /\ UNCHANGED busVars
  BY <1>7 DEF RouteStep, RouteLookup, RouteCall, HandlerReturn
<1>8. CASE UNCHANGED vars
  BY <1>8 DEF vars
<1>9. QED
  BY <1>1, <1>2, <1>3, <1>4, <1>5, <1>6, <1>7, <1>8 DEF Next, Call, CloseStep, RouteStep

LEMMA OwnStep == TypeOK /\ PhaseInv /\ OwnInv /\ [Next]_vars => OwnInv'
<1> SUFFICES ASSUME TypeOK, PhaseInv, OwnInv, [Next]_vars PROVE OwnInv'
  OBVIOUS
<1> USE DEF TypeOK, OwnInv, regVars, callVars, scopeVars, taskVars, busVars
<1>1. ASSUME NEW s \in Scopes, NewPluginScope(s) PROVE OwnInv'
  <2>1. \A t \in Scopes : mine(t)' = mine(t)
    BY <1>1 DEF NewPluginScope, mine
  <2>2. \A t \in Scopes : t # s => alive(t)' = alive(t)
    BY <1>1 DEF NewPluginScope, alive
  <2>3. \A t \in Scopes : Declares[s] \cap Declares[t] # {} => ~alive(t)
    BY <1>1 DEF NewPluginScope, alive
  <2>4. QED
    BY <2>1, <2>2, <2>3
\* No other step brings a scope to life, or gives it what is not its own.
<1>2. SUFFICES ASSUME \A t \in Scopes : ~NewPluginScope(t)
               PROVE  \A t \in Scopes : mine(t)' \subseteq Declares[t] /\ (alive(t)' => alive(t))
  BY <1>1
<1>3. ASSUME NEW s \in Scopes, NEW e \in Entities, NEW d \in Data,
             RegisterEntity(s, e, d) \/ UpdateEntity(s, e, d)
      PROVE  \A t \in Scopes : mine(t)' \subseteq Declares[t] /\ (alive(t)' => alive(t))
  <2>1. PICK ev \in Event : ev.id = e /\ pending' = [pending EXCEPT ![s] = {ev}]
    BY <1>3, CallEvent
  <2>2. e \in Declares[s]
    BY <1>3 DEF RegisterEntity, UpdateEntity, mine
  <2>3. Ids(pending'[s]) = {e}
    BY <2>1 DEF Ids
  <2>4. \A t \in Scopes : t # s => pending'[t] = pending[t]
    BY <2>1
  <2>5. UNCHANGED <<spc, entityIDs, toRemove>>
    BY <1>3 DEF RegisterEntity, UpdateEntity
  <2>6. \A t \in Scopes : mine(t)' \subseteq Declares[t]
    BY <2>2, <2>3, <2>4, <2>5 DEF mine
  <2>7. QED
    BY <2>5, <2>6 DEF alive
<1>4. ASSUME NEW s \in Scopes, Announce(s) \/ CloseAnnounce(s)
      PROVE  \A t \in Scopes : mine(t)' \subseteq Declares[t] /\ (alive(t)' => alive(t))
  <2>1. PICK ev \in pending[s] : /\ pending' = [pending EXCEPT ![s] = @ \ {ev}]
                                 /\ \/ entityIDs' = entityIDs
                                    \/ entityIDs' = [entityIDs EXCEPT ![s] = @ \cup {ev.id}]
    BY <1>4 DEF Announce, CloseAnnounce
  <2>2. ev.id \in Ids(pending[s])
    BY DEF Ids
  <2>3. \A t \in Scopes : Ids(pending'[t]) \subseteq Ids(pending[t])
    BY <2>1 DEF Ids
  <2>4. UNCHANGED <<spc, toRemove>>
    BY <1>4 DEF Announce, CloseAnnounce
  <2>5. \A t \in Scopes : t # s => entityIDs'[t] = entityIDs[t]
    BY <2>1
  <2>6. entityIDs'[s] \subseteq entityIDs[s] \cup {ev.id}
    BY <2>1
  <2>7. \A t \in Scopes : mine(t)' \subseteq mine(t)
    BY <2>2, <2>3, <2>4, <2>5, <2>6 DEF mine
  <2>8. QED
    BY <2>4, <2>7 DEF alive
<1>5. ASSUME NEW s \in Scopes, CloseBegin(s)
      PROVE  \A t \in Scopes : mine(t)' \subseteq Declares[t] /\ (alive(t)' => alive(t))
  <2>1. \A t \in Scopes : mine(t)' \subseteq mine(t)
    BY <1>5 DEF CloseBegin, mine
  <2>2. QED
    BY <1>5, <2>1 DEF CloseBegin, alive, Free
<1>6. ASSUME NEW s \in Scopes, CloseRemove(s)
      PROVE  \A t \in Scopes : mine(t)' \subseteq Declares[t] /\ (alive(t)' => alive(t))
  <2>1. PICK e \in toRemove[s] :
          /\ toRemove' = [toRemove EXCEPT ![s] = @ \ {e}]
          /\ pending' = [pending EXCEPT ![s] =
               {[type |-> "removed", id |-> e, data |-> r.data] : r \in registry \ registry'}]
    BY <1>6 DEF CloseRemove
  <2>2. Ids(pending'[s]) \subseteq {e}
    BY <2>1 DEF Ids
  <2>3. \A t \in Scopes : t # s => pending'[t] = pending[t]
    BY <2>1
  <2>4. UNCHANGED <<spc, entityIDs>>
    BY <1>6 DEF CloseRemove
  <2>5. \A t \in Scopes : t # s => mine(t)' = mine(t)
    BY <2>1, <2>3, <2>4 DEF mine
  <2>6. mine(s)' \subseteq mine(s)
    <3>1. toRemove'[s] \subseteq toRemove[s] /\ entityIDs'[s] = entityIDs[s]
      BY <2>1, <2>4
    <3>2. QED
      BY <2>2, <3>1 DEF mine
  <2>7. QED
    BY <2>4, <2>5, <2>6 DEF alive
<1>7. ASSUME NEW s \in Scopes, CloseCancel(s) \/ CloseUnsubDone(s) \/ CloseRemoveDone(s)
                                \/ CloseReturn(s) \/ CloseTimeout(s)
      PROVE  \A t \in Scopes : mine(t)' \subseteq Declares[t] /\ (alive(t)' => alive(t))
  <2>1. UNCHANGED <<entityIDs, toRemove, pending>>
    BY <1>7 DEF CloseCancel, CloseUnsubDone, CloseRemoveDone, CloseReturn, CloseTimeout
  <2>2. \E phase : spc' = [spc EXCEPT ![s] = phase] /\ spc[s] \notin {"new", "closed"}
    BY <1>7 DEF CloseCancel, CloseUnsubDone, CloseRemoveDone, CloseReturn, CloseTimeout
  <2>3. QED
    BY <2>1, <2>2 DEF mine, alive
<1>8. CASE UNCHANGED <<spc, entityIDs, toRemove, pending>>
  BY <1>8 DEF mine, alive
<1>9. ASSUME NEW s \in Scopes, NEW e \in Entities,
             PublishState(s, e) \/ SetAvailability(s, e) \/ SubscribeCommand(s, e)
      PROVE  UNCHANGED <<spc, entityIDs, toRemove, pending>>
  BY <1>9 DEF PublishState, SetAvailability, SubscribeCommand
<1>10. ASSUME NEW s \in Scopes, NEW t \in Tasks, Go(s, t) \/ TaskReturn(s, t) \/ TaskFail(s, t)
       PROVE  UNCHANGED <<spc, entityIDs, toRemove, pending>>
  BY <1>10 DEF Go, TaskReturn, TaskFail
<1>11. ASSUME NEW s \in Scopes, CloseUnsub(s)
       PROVE  UNCHANGED <<spc, entityIDs, toRemove, pending>>
  BY <1>11 DEF CloseUnsub
<1>12. ASSUME NEW c \in Callers, RouteStep(c)
       PROVE  UNCHANGED <<spc, entityIDs, toRemove, pending>>
  BY <1>12 DEF RouteStep, RouteLookup, RouteCall, HandlerReturn
<1>13. CASE UNCHANGED vars
  BY <1>8, <1>13 DEF vars
<1>14. QED
  BY <1>2, <1>3, <1>4, <1>5, <1>6, <1>7, <1>8, <1>9, <1>10, <1>11, <1>12, <1>13
     DEF Next, Call, CloseStep, RouteStep

\* What is one scope's is nobody else's while that scope is alive.
LEMMA Alone ==
  ASSUME TypeOK, PhaseInv, OwnInv, NEW s \in Scopes, NEW t \in Scopes,
         NEW e \in Declares[s], alive(s), e \in mine(t)
  PROVE  s = t
<1>1. alive(t)
  <2>1. ~alive(t) => mine(t) = {}
    BY DEF PhaseInv, mine, alive, Ids
  <2>2. QED
    BY <2>1
<1>2. e \in Declares[t]
  BY DEF OwnInv
<1>3. QED
  BY <1>1, <1>2 DEF OwnInv

\* The owner of e has nothing to tell about it: registry and view agree on e.
LEMMA Settled ==
  ASSUME TypeOK, PhaseInv, OwnInv, EventInv, NEW s \in Scopes,
         NEW e \in Declares[s], alive(s), pending[s] = {}
  PROVE  /\ \A r : r.id = e => (r \in registry <=> r \in view)
         /\ e \in Ids(registry) <=> e \in Ids(view)
<1>1. \A t \in Scopes : e \notin Ids(pending[t])
  <2>1. SUFFICES ASSUME NEW t \in Scopes, e \in Ids(pending[t]) PROVE FALSE
    OBVIOUS
  <2>2. s = t
    BY <2>1, Alone DEF mine
  <2>3. QED
    BY <2>1, <2>2 DEF Ids
<1>2. ASSUME NEW r, r.id = e PROVE r \in registry <=> r \in view
  BY <1>1, <1>2 DEF EventInv, ViewFollowsRegistry, Ids
<1>3. QED
  BY <1>2 DEF Ids

\* An event under way is about an entity nobody else tells of.
LEMMA OtherEvents ==
  ASSUME TypeOK, PhaseInv, OwnInv, NEW s \in Scopes, NEW e \in Declares[s], alive(s)
  PROVE  \A t \in Scopes : t # s => \A ev \in pending[t] : ev.id # e
<1>1. SUFFICES ASSUME NEW t \in Scopes, t # s, NEW ev \in pending[t], ev.id = e PROVE FALSE
  OBVIOUS
<1>2. e \in mine(t)
  BY <1>1 DEF mine, Ids
<1>3. QED
  BY <1>1, <1>2, Alone

LEMMA RegInit == Init => RegInv /\ EventInv /\ LifecycleOrder
  BY DEF Init, RegInv, EventInv, LifecycleOrder, ViewFollowsRegistry, holds, Ids

LEMMA RegStep ==
  TypeOK /\ PhaseInv /\ OwnInv /\ RegInv /\ EventInv /\ [Next]_vars => RegInv'
<1> SUFFICES ASSUME TypeOK, PhaseInv, OwnInv, RegInv, EventInv, [Next]_vars PROVE RegInv'
  OBVIOUS
<1> USE DEF TypeOK, regVars, callVars, scopeVars, taskVars, busVars
<1>1. ASSUME NEW s \in Scopes, NEW e \in Entities, NEW d \in Data,
             RegisterEntity(s, e, d) \/ UpdateEntity(s, e, d)
      PROVE  RegInv'
  <2>1. PICK ev \in Event : /\ ev.id = e /\ ev.type # "removed"
                            /\ ev.type = "updated" => e \in Ids(registry)
                            /\ pending' = [pending EXCEPT ![s] = {ev}]
    BY <1>1, CallEvent
  <2>2. Ids(registry') = Ids(registry) \cup {e}
    BY <1>1, IdsWith DEF RegisterEntity, UpdateEntity
  <2>3. pending[s] = {} /\ UNCHANGED <<entityIDs, toRemove>>
    BY <1>1 DEF RegisterEntity, UpdateEntity, Free
  <2>4. \A t \in Scopes : t # s => holds(t)' = holds(t)
    BY <2>1, <2>3 DEF holds
  <2>5. holds(s)' = IF ev.type = "added" THEN holds(s) \cup {e} ELSE holds(s)
    <3>1. Ids({x \in pending[s] : x.type = "added"}) = {}
      BY <2>3 DEF Ids
    <3>2. Ids({x \in pending'[s] : x.type = "added"}) = IF ev.type = "added" THEN {e} ELSE {}
      BY <2>1 DEF Ids
    <3>3. QED
      BY <2>3, <3>1, <3>2 DEF holds
  <2>6. ev.type \in {"added", "updated"}
    BY <2>1 DEF Event
  <2>7. QED
    BY <2>1, <2>2, <2>4, <2>5, <2>6 DEF RegInv
<1>2. ASSUME NEW s \in Scopes, Announce(s) PROVE RegInv'
  <2>1. PICK ev \in pending[s] : /\ pending' = [pending EXCEPT ![s] = @ \ {ev}]
                                 /\ entityIDs' = [entityIDs EXCEPT ![s] = @ \cup {ev.id}]
    BY <1>2 DEF Announce
  <2>2. UNCHANGED <<registry, toRemove>> /\ spc[s] = "open"
    BY <1>2 DEF Announce
  <2>3. ev.id \in Ids(registry)
    <3>1. ev.type # "removed"
      BY <2>2 DEF PhaseInv
    <3>2. [id |-> ev.id, data |-> ev.data] \in registry
      BY <3>1 DEF EventInv
    <3>3. [id |-> ev.id, data |-> ev.data].id = ev.id
      OBVIOUS
    <3>4. QED
      BY <3>2, <3>3 DEF Ids
  <2>4. \A t \in Scopes : t # s => holds(t)' = holds(t)
    BY <2>1, <2>2 DEF holds
  <2>5. holds(s)' = holds(s) \cup {ev.id}
    <3>1. pending[s] = {ev} /\ pending'[s] = {}
      BY <2>1
    <3>2. Ids({x \in pending'[s] : x.type = "added"}) = {}
      BY <3>1 DEF Ids
    <3>3. Ids({x \in pending[s] : x.type = "added"}) \subseteq {ev.id}
      BY <3>1 DEF Ids
    <3>4. entityIDs'[s] = entityIDs[s] \cup {ev.id}
      BY <2>1
    <3>5. QED
      BY <2>2, <3>2, <3>3, <3>4 DEF holds
  <2>6. QED
    BY <2>2, <2>3, <2>4, <2>5 DEF RegInv
<1>3. ASSUME NEW s \in Scopes, CloseRemove(s) PROVE RegInv'
  <2>1. PICK e \in toRemove[s] :
          /\ toRemove' = [toRemove EXCEPT ![s] = @ \ {e}]
          /\ registry' = Without(registry, e)
          /\ pending' = [pending EXCEPT ![s] =
               {[type |-> "removed", id |-> e, data |-> r.data] : r \in registry \ registry'}]
    BY <1>3 DEF CloseRemove
  <2>2. spc[s] = "remove" /\ pending[s] = {} /\ UNCHANGED <<entityIDs, spc>>
    BY <1>3 DEF CloseRemove
  <2>3. Ids(registry') = Ids(registry) \ {e}
    BY <2>1, IdsWithout
  <2>4. \A t \in Scopes : t # s => holds(t)' = holds(t)
    BY <2>1, <2>2 DEF holds
  <2>5. holds(s)' = holds(s) \ {e}
    <3>1. Ids({x \in pending[s] : x.type = "added"}) = {}
      BY <2>2 DEF Ids
    <3>2. Ids({x \in pending'[s] : x.type = "added"}) = {}
      BY <2>1 DEF Ids
    <3>3. entityIDs[s] = {} /\ entityIDs'[s] = {}
      BY <2>2 DEF PhaseInv
    <3>4. toRemove'[s] = toRemove[s] \ {e}
      BY <2>1
    <3>5. QED
      BY <3>1, <3>2, <3>3, <3>4 DEF holds
  <2>6. \A t \in Scopes : t # s => e \notin holds(t)
    <3>1. SUFFICES ASSUME NEW t \in Scopes, t # s, e \in holds(t) PROVE FALSE
      OBVIOUS
    <3>2. e \in mine(t)
      BY <3>1 DEF holds, mine, Ids
    <3>3. e \in Declares[s] /\ alive(s)
      BY <2>2 DEF OwnInv, mine, alive
    <3>4. QED
      BY <3>1, <3>2, <3>3, Alone
  <2>7. QED
    BY <2>3, <2>4, <2>5, <2>6 DEF RegInv
<1>4. ASSUME registry' = registry, \A t \in Scopes : holds(t)' = holds(t) PROVE RegInv'
  BY <1>4 DEF RegInv
<1>5. ASSUME NEW s \in Scopes, CloseBegin(s) PROVE RegInv'
  <2>1. spc[s] = "open" /\ UNCHANGED <<registry, pending>>
    BY <1>5 DEF CloseBegin, Free
  <2>2. \A t \in Scopes : t # s => holds(t)' = holds(t)
    BY <1>5, <2>1 DEF CloseBegin, holds
  <2>3. toRemove[s] = {} /\ entityIDs'[s] = {} /\ toRemove'[s] = entityIDs[s]
    BY <1>5, <2>1 DEF CloseBegin, PhaseInv
  <2>4. holds(s)' = holds(s)
    BY <2>1, <2>3 DEF holds
  <2>5. QED
    BY <1>4, <2>1, <2>2, <2>4
<1>6. ASSUME NEW s \in Scopes, CloseAnnounce(s) PROVE RegInv'
  <2>1. PICK ev \in pending[s] : pending' = [pending EXCEPT ![s] = @ \ {ev}]
    BY <1>6 DEF CloseAnnounce
  <2>2. spc[s] = "remove" /\ UNCHANGED <<registry, entityIDs, toRemove>>
    BY <1>6 DEF CloseAnnounce
  <2>3. \A x \in pending[s] : x.type # "added"
    BY <2>2 DEF PhaseInv
  <2>4. {x \in pending'[s] : x.type = "added"} = {x \in pending[s] : x.type = "added"}
    BY <2>1, <2>3
  <2>5. \A t \in Scopes : t # s => pending'[t] = pending[t]
    BY <2>1
  <2>6. QED
    BY <1>4, <2>2, <2>4, <2>5 DEF holds
<1>7. CASE UNCHANGED <<registry, entityIDs, toRemove, pending>>
  BY <1>4, <1>7 DEF holds
<1>8. QED
  BY <1>1, <1>2, <1>3, <1>5, <1>6, <1>7, StepKinds

\* An event makes the view of its entity that of the registry.
LEMMA Told ==
  ASSUME TypeOK, EventInv, NEW s \in Scopes, NEW ev \in pending[s], PublishRegistry(ev)
  PROVE  /\ \A r : r.id = ev.id => (r \in registry <=> r \in view')
         /\ \A r : r.id # ev.id => (r \in view <=> r \in view')
<1>1. CASE ev.type = "removed"
  <2>1. view' = Without(view, ev.id)
    BY <1>1 DEF PublishRegistry, Publish
  <2>2. ev.id \notin Ids(registry)
    BY <1>1 DEF EventInv
  <2>3. QED
    BY <2>1, <2>2 DEF Without, Ids
<1>2. CASE ev.type # "removed"
  <2> DEFINE rec == [id |-> ev.id, data |-> ev.data]
  <2>1. view' = Without(view, ev.id) \cup {rec}
    BY <1>1, <1>2 DEF PublishRegistry, Publish, With
  <2>2. rec \in registry /\ rec.id = ev.id
    BY <1>2 DEF EventInv
  <2> HIDE DEF rec
  <2>3. \A r : r.id = ev.id => (r \in registry <=> r = rec)
    BY <2>2 DEF OnePerId, TypeOK
  <2>4. QED
    BY <2>1, <2>2, <2>3 DEF Without
<1>3. QED
  BY <1>1, <1>2

LEMMA EventStep ==
  /\ TypeOK /\ PhaseInv /\ OwnInv /\ RegInv /\ EventInv /\ LifecycleOrder
  /\ [Next]_vars
  => EventInv' /\ LifecycleOrder'
<1> SUFFICES ASSUME TypeOK, PhaseInv, OwnInv, RegInv, EventInv, LifecycleOrder, [Next]_vars
             PROVE  EventInv' /\ LifecycleOrder'
  OBVIOUS
<1> USE DEF TypeOK, regVars, callVars, scopeVars, taskVars, busVars
\* An event is published by the scope that answers for its entity.
<1>1. ASSUME NEW s \in Scopes, NEW ev \in pending[s], PublishRegistry(ev),
             pending' = [pending EXCEPT ![s] = @ \ {ev}],
             registry' = registry, spc[s] \in {"open", "remove"}
      PROVE  EventInv' /\ LifecycleOrder'
  <2>1. ev \in Event /\ ev.id \in Declares[s] /\ alive(s)
    <3>1. ev.id \in mine(s)
      BY DEF mine, Ids
    <3>2. QED
      BY <1>1, <3>1 DEF OwnInv, alive
  <2>2. \A t \in Scopes : t # s => \A x \in pending[t] : x.id # ev.id
    BY <2>1, OtherEvents
  <2>3. pending'[s] = {} /\ \A t \in Scopes : t # s => pending'[t] = pending[t]
    BY <1>1
  <2>4. ev.type = "added" <=> ev.id \notin Ids(view)
    BY DEF EventInv
  <2>5. LifecycleOrder'
    BY <1>1, <2>4 DEF PublishRegistry, Publish, LifecycleOrder
  <2>6. /\ \A r : r.id = ev.id => (r \in registry <=> r \in view')
        /\ \A r : r.id # ev.id => (r \in view <=> r \in view')
    BY <1>1, Told
  <2>7. \A x : x # ev.id => (x \in Ids(view) <=> x \in Ids(view'))
    BY <2>6 DEF Ids
  <2>8. ViewFollowsRegistry'
    <3>1. SUFFICES ASSUME NEW r \in (registry \ view') \cup (view' \ registry)
                   PROVE  \E t \in Scopes : \E x \in pending'[t] : x.id = r.id
      BY <1>1 DEF ViewFollowsRegistry
    <3>2. r.id # ev.id /\ r \in (registry \ view) \cup (view \ registry)
      BY <2>6
    <3>3. PICK t \in Scopes : \E x \in pending[t] : x.id = r.id
      BY <3>2 DEF EventInv, ViewFollowsRegistry
    <3>4. t # s
      BY <3>2, <3>3
    <3>5. QED
      BY <2>3, <3>3, <3>4
  <2>9. QED
    BY <1>1, <2>2, <2>3, <2>5, <2>7, <2>8 DEF EventInv
\* The registry changes about an entity the scope answers for, or gains.
<1>2. ASSUME NEW s \in Scopes, NEW e \in Declares[s], NEW ev \in Event, alive(s),
             pending[s] = {}, pending' = [pending EXCEPT ![s] = {ev}], ev.id = e,
             ev.type # "removed" => [id |-> e, data |-> ev.data] \in registry',
             ev.type = "removed" => e \notin Ids(registry'),
             ev.type = "added" <=> e \notin Ids(registry),
             \A r : r.id # e => (r \in registry <=> r \in registry'),
             UNCHANGED busVars
      PROVE  EventInv' /\ LifecycleOrder'
  <2>1. e \in Ids(registry) <=> e \in Ids(view)
    BY <1>2, Settled
  <2>2. \A t \in Scopes : t # s => \A x \in pending[t] : x.id # e
    BY <1>2, OtherEvents
  <2>3. pending'[s] = {ev} /\ \A t \in Scopes : t # s => pending'[t] = pending[t]
    BY <1>2
  <2>4. \A x : x # e => (x \in Ids(registry) <=> x \in Ids(registry'))
    BY <1>2 DEF Ids
  <2>5. ASSUME NEW t \in Scopes, NEW x \in pending'[t]
        PROVE  /\ x.type # "removed" => [id |-> x.id, data |-> x.data] \in registry'
               /\ x.type = "removed" => x.id \notin Ids(registry')
               /\ x.type = "added" <=> x.id \notin Ids(view')
    <3>1. CASE t = s
      BY <1>2, <2>1, <2>3, <3>1
    <3>2. CASE t # s
      <4> DEFINE rec == [id |-> x.id, data |-> x.data]
      <4>1. x \in pending[t] /\ x.id # e
        BY <2>2, <2>3, <2>5, <3>2
      <4>2. rec.id = x.id
        OBVIOUS
      <4>3. x.type # "removed" => rec \in registry
        BY <4>1 DEF EventInv
      <4>4. x.type # "removed" => rec \in registry'
        BY <1>2, <4>1, <4>2, <4>3
      <4>5. /\ x.type = "removed" => x.id \notin Ids(registry')
            /\ x.type = "added" <=> x.id \notin Ids(view')
        BY <1>2, <2>4, <4>1 DEF EventInv
      <4>6. QED
        BY <4>4, <4>5
    <3>3. QED
      BY <3>1, <3>2
  <2>6. ViewFollowsRegistry'
    <3>1. SUFFICES ASSUME NEW r \in (registry' \ view) \cup (view \ registry')
                   PROVE  \E t \in Scopes : \E x \in pending'[t] : x.id = r.id
      BY <1>2 DEF ViewFollowsRegistry
    <3>2. CASE r.id = e
      BY <1>2, <2>3, <3>2
    <3>3. CASE r.id # e
      <4>1. r \in (registry \ view) \cup (view \ registry)
        BY <1>2, <3>1, <3>3
      <4>2. PICK t \in Scopes : \E x \in pending[t] : x.id = r.id
        BY <4>1 DEF EventInv, ViewFollowsRegistry
      <4>3. QED
        BY <1>2, <2>3, <4>2
    <3>4. QED
      BY <3>2, <3>3
  <2>7. QED
    BY <1>2, <2>5, <2>6 DEF EventInv, LifecycleOrder
<1>3. ASSUME NEW s \in Scopes, NEW e \in Entities, NEW d \in Data,
             RegisterEntity(s, e, d) \/ UpdateEntity(s, e, d)
      PROVE  EventInv' /\ LifecycleOrder'
  <2>1. PICK ev \in Event :
          /\ ev.id = e /\ ev.data = d /\ ev.type # "removed"
          /\ ev.type = "added" => e \notin Ids(registry) /\ e \in Declares[s]
          /\ ev.type = "updated" => e \in Ids(registry) /\ e \in entityIDs[s]
          /\ pending' = [pending EXCEPT ![s] = {ev}]
    BY <1>3, CallEvent
  <2>2. /\ registry' = With(registry, e, d) /\ UNCHANGED busVars
        /\ spc[s] = "open" /\ pending[s] = {}
    BY <1>3 DEF RegisterEntity, UpdateEntity, Free
  <2>3. e \in Declares[s] /\ alive(s)
    BY <2>1, <2>2 DEF Event, OwnInv, mine, alive
  <2>4. ev.type = "added" <=> e \notin Ids(registry)
    BY <2>1 DEF Event
  <2> DEFINE rec == [id |-> e, data |-> ev.data]
  <2>5. registry' = Without(registry, e) \cup {rec}
    BY <2>1, <2>2 DEF With
  <2>6. rec.id = e
    OBVIOUS
  <2>7. rec \in registry'
    BY <2>5
  <2>8. \A r : r.id # e => (r \in registry <=> r \in registry')
    BY <2>5, <2>6 DEF Without
  <2>9. QED
    BY <1>2, <2>1, <2>2, <2>3, <2>4, <2>7, <2>8
<1>4. ASSUME NEW s \in Scopes, CloseRemove(s) PROVE EventInv' /\ LifecycleOrder'
  <2>1. PICK e \in toRemove[s] :
          /\ toRemove' = [toRemove EXCEPT ![s] = @ \ {e}]
          /\ registry' = Without(registry, e)
          /\ pending' = [pending EXCEPT ![s] =
               {[type |-> "removed", id |-> e, data |-> r.data] : r \in registry \ registry'}]
    BY <1>4 DEF CloseRemove
  <2>2. spc[s] = "remove" /\ pending[s] = {} /\ UNCHANGED busVars
    BY <1>4 DEF CloseRemove
  <2>3. e \in Declares[s] /\ alive(s) /\ e \in holds(s)
    BY <2>2 DEF OwnInv, mine, alive, holds
  <2>4. PICK old \in registry : old.id = e
    BY <2>3 DEF RegInv, Ids
  <2>5. registry \ registry' = {old}
    BY <2>1, <2>4 DEF Without, OnePerId
  <2> DEFINE ev == [type |-> "removed", id |-> e, data |-> old.data]
  <2>6. pending' = [pending EXCEPT ![s] = {ev}]
    <3>1. {[type |-> "removed", id |-> e, data |-> r.data] : r \in {old}} = {ev}
      OBVIOUS
    <3>2. QED
      BY <2>1, <2>5, <3>1
  <2>7. ev \in Event /\ ev.id = e /\ ev.type = "removed"
    BY DEF Event, Entity
  <2>8. e \in Ids(registry) /\ e \notin Ids(registry')
    <3>1. e \in Ids(registry)
      BY <2>4 DEF Ids
    <3>2. Ids(registry') = Ids(registry) \ {e}
      BY <2>1, IdsWithout
    <3>3. QED
      BY <3>1, <3>2
  <2>9. \A r : r.id # e => (r \in registry <=> r \in registry')
    BY <2>1 DEF Without
  <2> HIDE DEF ev
  <2>10. QED
    BY <1>2, <2>2, <2>3, <2>6, <2>7, <2>8, <2>9
<1>5. ASSUME NEW s \in Scopes, Announce(s) \/ CloseAnnounce(s)
      PROVE  EventInv' /\ LifecycleOrder'
  <2>1. PICK ev \in pending[s] : /\ PublishRegistry(ev)
                                 /\ pending' = [pending EXCEPT ![s] = @ \ {ev}]
    BY <1>5 DEF Announce, CloseAnnounce
  <2>2. spc[s] \in {"open", "remove"} /\ registry' = registry
    BY <1>5 DEF Announce, CloseAnnounce
  <2>3. QED
    BY <1>1, <2>1, <2>2
\* State and availability: of an entity of an open scope, so everybody has it.
<1>6. ASSUME NEW s \in Scopes, NEW e \in Entities, PublishState(s, e) \/ SetAvailability(s, e)
      PROVE  UNCHANGED <<pending, registry, busVars>>
  <2>1. spc[s] = "open" /\ pending[s] = {} /\ e \in entityIDs[s] /\ UNCHANGED <<pending, registry>>
    BY <1>6 DEF PublishState, SetAvailability, Free
  <2>2. e \in Declares[s] /\ alive(s)
    BY <2>1 DEF OwnInv, mine, alive
  <2>3. e \in Ids(registry)
    BY <2>1 DEF RegInv, holds
  <2>4. e \in Ids(view)
    BY <2>1, <2>2, <2>3, Settled
  <2>5. QED
    BY <1>6, <2>1, <2>4 DEF PublishState, SetAvailability, Publish
<1>7. ASSUME UNCHANGED <<pending, registry, busVars>> PROVE EventInv' /\ LifecycleOrder'
  BY <1>7 DEF EventInv, LifecycleOrder, ViewFollowsRegistry
<1>8. ASSUME NEW s \in Scopes, CloseBegin(s) PROVE UNCHANGED <<pending, registry, busVars>>
  BY <1>8 DEF CloseBegin
<1>9. QED
  BY <1>3, <1>4, <1>5, <1>6, <1>7, <1>8, StepKinds

LEMMA HandlerStep == TypeOK /\ PhaseInv /\ HandlerInv /\ [Next]_vars => HandlerInv'
<1> SUFFICES ASSUME TypeOK, PhaseInv, HandlerInv, [Next]_vars PROVE HandlerInv'
  OBVIOUS
<1> USE DEF TypeOK, HandlerInv, Handler, regVars, callVars, scopeVars, taskVars, busVars
<1>1. ASSUME NEW s \in Scopes, NEW e \in Entities, SubscribeCommand(s, e) PROVE HandlerInv'
  BY <1>1 DEF SubscribeCommand
<1>2. ASSUME NEW s \in Scopes, CloseBegin(s) PROVE HandlerInv'
  <2>1. toUnsub'[s] = unsubs[s] /\ handlers' = handlers /\ toUnsub[s] = {}
    BY <1>2 DEF CloseBegin, Free, PhaseInv
  <2>2. \A t \in Scopes : t # s => unsubs'[t] = unsubs[t] /\ toUnsub'[t] = toUnsub[t]
    BY <1>2 DEF CloseBegin
  <2>3. QED
    BY <2>1, <2>2
<1>3. ASSUME NEW s \in Scopes, CloseUnsub(s) PROVE HandlerInv'
  BY <1>3 DEF CloseUnsub, Without
<1>4. CASE UNCHANGED <<handlers, unsubs, toUnsub>>
  BY <1>4
<1>5. ASSUME NEW s \in Scopes, NewPluginScope(s) PROVE UNCHANGED <<handlers, unsubs, toUnsub>>
  BY <1>5 DEF NewPluginScope
<1>6. ASSUME NEW s \in Scopes, NEW e \in Entities,
             \/ PublishState(s, e) \/ SetAvailability(s, e)
             \/ \E d \in Data : RegisterEntity(s, e, d) \/ UpdateEntity(s, e, d)
      PROVE  UNCHANGED <<handlers, unsubs, toUnsub>>
  BY <1>6 DEF PublishState, SetAvailability, RegisterEntity, UpdateEntity
<1>7. ASSUME NEW s \in Scopes, Announce(s) \/ CloseAnnounce(s)
      PROVE  UNCHANGED <<handlers, unsubs, toUnsub>>
  BY <1>7 DEF Announce, CloseAnnounce
<1>8. ASSUME NEW s \in Scopes, NEW t \in Tasks, Go(s, t) \/ TaskReturn(s, t) \/ TaskFail(s, t)
      PROVE  UNCHANGED <<handlers, unsubs, toUnsub>>
  BY <1>8 DEF Go, TaskReturn, TaskFail
<1>9. ASSUME NEW s \in Scopes, CloseCancel(s) \/ CloseUnsubDone(s) \/ CloseRemove(s)
                                \/ CloseRemoveDone(s) \/ CloseReturn(s) \/ CloseTimeout(s)
      PROVE  UNCHANGED <<handlers, unsubs, toUnsub>>
  BY <1>9 DEF CloseCancel, CloseUnsubDone, CloseRemove, CloseRemoveDone, CloseReturn, CloseTimeout
<1>10. ASSUME NEW c \in Callers, RouteStep(c)
       PROVE  UNCHANGED <<handlers, unsubs, toUnsub>>
  BY <1>10 DEF RouteStep, RouteLookup, RouteCall, HandlerReturn
<1>11. CASE UNCHANGED vars
  BY <1>11 DEF vars
<1>12. QED
  BY <1>1, <1>2, <1>3, <1>4, <1>5, <1>6, <1>7, <1>8, <1>9, <1>10, <1>11
     DEF Next, Call, CloseStep, RouteStep
-----------------------------------------------------------------------------
(* The theorems *)

IInv == TypeOK /\ PhaseInv /\ OwnInv /\ RegInv /\ EventInv /\ HandlerInv /\ LifecycleOrder

LEMMA Inductive == Spec => []IInv
<1>1. Init => IInv
  BY TypeInit, PhaseInit, RegInit DEF IInv
<1>2. IInv /\ [Next]_vars => IInv'
  BY TypeStep, PhaseStep, OwnStep, RegStep, EventStep, HandlerStep DEF IInv
<1>3. QED
  BY <1>1, <1>2, PTL DEF Spec

\* Every entity and every handler has exactly one scope that will remove it, at
\* every moment of a call or of a Close; a closed scope leaves none behind.
THEOREM EntitiesAreOwned == Spec => []NoOrphans
<1>1. IInv => NoOrphans
  <2> SUFFICES ASSUME IInv PROVE NoOrphans
    OBVIOUS
  <2> USE DEF IInv
  <2>1. ASSUME NEW e \in Ids(registry)
        PROVE  \E s \in Scopes : e \in holds(s) /\ \A t \in Scopes \ {s} : e \notin holds(t)
    <3>1. e \in Entities
      BY <2>1 DEF TypeOK, Ids, Entity
    <3>2. PICK s \in Scopes : e \in holds(s)
      BY <2>1, <3>1 DEF RegInv
    <3>3. \A t \in Scopes : holds(t) \subseteq mine(t)
      BY DEF holds, mine, Ids
    <3>4. e \in Declares[s]
      BY <3>2, <3>3 DEF OwnInv
    <3>5. alive(s)
      BY <3>2 DEF PhaseInv, holds, alive, Ids
    <3>6. \A t \in Scopes : e \in holds(t) => s = t
      BY <3>3, <3>4, <3>5, Alone
    <3>7. QED
      BY <3>2, <3>6
  <2>2. ASSUME NEW s \in Scopes, spc[s] = "closed"
        PROVE  holds(s) = {} /\ \A h \in handlers : h.scope # s
    <3>1. /\ entityIDs[s] = {} /\ unsubs[s] = {} /\ toUnsub[s] = {} /\ toRemove[s] = {}
          /\ pending[s] = {}
      BY <2>2 DEF PhaseInv
    <3>2. holds(s) = {}
      BY <3>1 DEF holds, Ids
    <3>3. QED
      BY <3>1, <3>2 DEF HandlerInv
  <2>3. QED
    BY <2>1, <2>2 DEF NoOrphans, HandlerInv
<1>2. QED
  BY <1>1, Inductive, PTL

\* A subscriber never gets the events of an entity out of order.
THEOREM EventsAreInOrder == Spec => []LifecycleOrder
<1>1. IInv => LifecycleOrder
  BY DEF IInv
<1>2. QED
  BY <1>1, Inductive, PTL

\* A subscriber that has applied all events has the contents of the registry.
THEOREM ViewsAreCurrent == Spec => []ViewFollowsRegistry
<1>1. IInv => ViewFollowsRegistry
  BY DEF IInv, EventInv
<1>2. QED
  BY <1>1, Inductive, PTL

past(s) == spc[s] \in {"remove", "wait", "closed"}

\* A handler looked up is of a run that answers for its entity until its Close is past
\* the handlers.
FoundInv == \A c \in Callers : \A h \in found[c] :
              h.id \in entityIDs[h.scope] \cup toRemove[h.scope] \/ past(h.scope)

\* What a run answers for becomes less only in the last phase of its Close, for good.
LEMMA AnsweredKept ==
  ASSUME TypeOK, PhaseInv, [Next]_vars, NEW s \in Scopes
  PROVE  /\ past(s) => past(s)'
         /\ entityIDs[s] \cup toRemove[s] \subseteq entityIDs'[s] \cup toRemove'[s] \/ past(s)
<1> DEFINE Kept(t) == /\ past(t) => past(t)'
                      /\ \/ past(t)
                         \/ entityIDs[t] \cup toRemove[t] \subseteq entityIDs'[t] \cup toRemove'[t]
<1> SUFFICES \A t \in Scopes : Kept(t)
  OBVIOUS
<1> USE DEF TypeOK, past, scopeVars
<1>1. ASSUME NEW t \in Scopes, NewPluginScope(t) \/ CloseBegin(t) PROVE \A x \in Scopes : Kept(x)
  BY <1>1 DEF NewPluginScope, CloseBegin, Free, PhaseInv
<1>2. ASSUME NEW t \in Scopes, Announce(t) PROVE \A x \in Scopes : Kept(x)
  BY <1>2 DEF Announce
<1>3. ASSUME NEW t \in Scopes,
             CloseCancel(t) \/ CloseUnsub(t) \/ CloseUnsubDone(t) \/ CloseRemoveDone(t)
      PROVE  \A x \in Scopes : Kept(x)
  BY <1>3 DEF CloseCancel, CloseUnsub, CloseUnsubDone, CloseRemoveDone
<1>4. ASSUME NEW t \in Scopes, CloseRemove(t) PROVE \A x \in Scopes : Kept(x)
  BY <1>4 DEF CloseRemove
<1>5. ASSUME NEW t \in Scopes, CloseReturn(t) \/ CloseTimeout(t) PROVE \A x \in Scopes : Kept(x)
  BY <1>5 DEF CloseReturn, CloseTimeout
<1>6. CASE UNCHANGED <<spc, entityIDs, toRemove>>
  BY <1>6
<1>7. ASSUME NEW t \in Scopes, NEW e \in Entities,
             \/ PublishState(t, e) \/ SetAvailability(t, e) \/ SubscribeCommand(t, e)
             \/ \E d \in Data : RegisterEntity(t, e, d) \/ UpdateEntity(t, e, d)
      PROVE  UNCHANGED <<spc, entityIDs, toRemove>>
  BY <1>7 DEF PublishState, SetAvailability, SubscribeCommand, RegisterEntity, UpdateEntity
<1>8. ASSUME NEW t \in Scopes,
             CloseAnnounce(t) \/ \E u \in Tasks : Go(t, u) \/ TaskReturn(t, u) \/ TaskFail(t, u)
      PROVE  UNCHANGED <<spc, entityIDs, toRemove>>
  BY <1>8 DEF CloseAnnounce, Go, TaskReturn, TaskFail
<1>9. ASSUME NEW c \in Callers, RouteStep(c) PROVE UNCHANGED <<spc, entityIDs, toRemove>>
  BY <1>9 DEF RouteStep, RouteLookup, RouteCall, HandlerReturn
<1>10. CASE UNCHANGED vars
  BY <1>6, <1>10 DEF vars
<1> HIDE DEF Kept
<1>11. QED
  BY <1>1, <1>2, <1>3, <1>4, <1>5, <1>6, <1>7, <1>8, <1>9, <1>10
     DEF Next, Call, CloseStep, RouteStep

\* The only steps that change found and inflight.
LEMMA RouteSteps ==
  ASSUME [Next]_vars
  PROVE  UNCHANGED callVars \/ \E c \in Callers : RouteStep(c)
<1> USE DEF regVars
<1>1. ASSUME NEW s \in Scopes, NEW e \in Entities,
             \/ PublishState(s, e) \/ SetAvailability(s, e) \/ SubscribeCommand(s, e)
             \/ \E d \in Data : RegisterEntity(s, e, d) \/ UpdateEntity(s, e, d)
      PROVE  UNCHANGED callVars
  BY <1>1 DEF PublishState, SetAvailability, SubscribeCommand, RegisterEntity, UpdateEntity
<1>2. ASSUME NEW s \in Scopes,
             \/ Announce(s) \/ NewPluginScope(s) \/ CloseBegin(s)
             \/ \E t \in Tasks : Go(s, t) \/ TaskReturn(s, t) \/ TaskFail(s, t)
      PROVE  UNCHANGED callVars
  BY <1>2 DEF Announce, NewPluginScope, CloseBegin, Go, TaskReturn, TaskFail
<1>3. ASSUME NEW s \in Scopes, CloseStep(s) PROVE UNCHANGED callVars
  BY <1>3 DEF CloseStep, CloseCancel, CloseUnsub, CloseUnsubDone, CloseRemove,
              CloseAnnounce, CloseRemoveDone, CloseReturn, CloseTimeout
<1>4. CASE UNCHANGED vars
  BY <1>4 DEF vars
<1>5. QED
  BY <1>1, <1>2, <1>3, <1>4 DEF Next, Call, RouteStep

\* A handler of the router is one of a run that answers for its entity.
LEMMA HandlersServe ==
  ASSUME IInv, NEW h \in handlers
  PROVE  /\ h.scope \in Scopes /\ serves(h.scope, h.id)
         /\ h.id \in entityIDs[h.scope] \cup toRemove[h.scope]
<1> USE DEF IInv, TypeOK
<1>1. h.scope \in Scopes /\ h.id \in Entities
  BY DEF Handler
<1>2. h.id \in unsubs[h.scope] \cup toUnsub[h.scope]
  BY DEF HandlerInv
<1>3. h.id \in entityIDs[h.scope] \cup toRemove[h.scope]
  BY <1>1, <1>2 DEF PhaseInv
<1>4. h.id \in holds(h.scope)
  BY <1>3 DEF holds
<1>5. h.id \in Ids(registry)
  BY <1>1, <1>4 DEF RegInv
<1>6. spc[h.scope] \in {"open", "cancel", "unsub"}
  BY <1>1, <1>2 DEF PhaseInv
<1>7. QED
  BY <1>1, <1>3, <1>4, <1>5, <1>6 DEF serves

LEMMA FoundStep == IInv /\ FoundInv /\ [Next]_vars => FoundInv'
<1> SUFFICES ASSUME IInv, FoundInv, [Next]_vars, NEW c \in Callers, NEW h \in found'[c]
             PROVE  h.id \in entityIDs'[h.scope] \cup toRemove'[h.scope] \/ past(h.scope)'
  BY DEF FoundInv, past
<1>1. h \in found[c] \/ h \in handlers
  BY RouteSteps DEF IInv, TypeOK, callVars, RouteStep, RouteLookup, RouteCall, HandlerReturn
<1>2. h.scope \in Scopes
  BY <1>1 DEF IInv, TypeOK, Handler
<1>3. h.id \in entityIDs[h.scope] \cup toRemove[h.scope] \/ past(h.scope)
  BY <1>1, HandlersServe DEF FoundInv
<1>4. /\ past(h.scope) => past(h.scope)'
      /\ \/ past(h.scope)
         \/ entityIDs[h.scope] \cup toRemove[h.scope] \subseteq entityIDs'[h.scope] \cup toRemove'[h.scope]
  BY <1>2, AnsweredKept DEF IInv
<1>5. QED
  BY <1>3, <1>4

\* Route finds the plugin that answers for the entity, and what it calls after the
\* unlock still does, or the Close of that run has overtaken the call.
THEOREM CommandsReachTheirOwner == Spec => CommandsReachOwner
<1> DEFINE Owned == \A c \in Callers :
                      /\ \A h \in found'[c] \ found[c] : serves(h.scope, h.id)
                      /\ \A h \in inflight'[c] \ inflight[c] :
                           serves(h.scope, h.id) \/ spc[h.scope] \in {"remove", "wait", "closed"}
<1>1. IInv /\ FoundInv /\ [Next]_vars => [Owned]_vars
  <2> SUFFICES ASSUME IInv, FoundInv, [Next]_vars PROVE Owned
    OBVIOUS
  <2>1. ASSUME NEW c \in Callers, NEW h \in found'[c] \ found[c] PROVE serves(h.scope, h.id)
    <3>1. h \in handlers
      BY <2>1, RouteSteps
         DEF IInv, TypeOK, callVars, RouteStep, RouteLookup, RouteCall, HandlerReturn
    <3>2. QED
      BY <3>1, HandlersServe
  <2>2. ASSUME NEW c \in Callers, NEW h \in inflight'[c] \ inflight[c]
        PROVE  serves(h.scope, h.id) \/ past(h.scope)
    <3>1. h \in found[c]
      BY <2>2, RouteSteps
         DEF IInv, TypeOK, callVars, RouteStep, RouteLookup, RouteCall, HandlerReturn
    <3>2. h.scope \in Scopes /\ h.id \in Entities
      BY <3>1 DEF IInv, TypeOK, Handler
    <3>3. CASE h.id \in entityIDs[h.scope] \cup toRemove[h.scope]
      <4>1. h.id \in holds(h.scope) \cap Ids(registry)
        BY <3>2, <3>3 DEF holds, IInv, RegInv
      <4>2. spc[h.scope] \in {"open", "cancel", "unsub", "remove"}
        BY <3>2, <3>3 DEF IInv, PhaseInv
      <4>3. QED
        BY <4>1, <4>2 DEF serves, past
    <3>4. QED
      BY <3>1, <3>3 DEF FoundInv
  <2>3. QED
    BY <2>1, <2>2 DEF past
<1>2. Init => FoundInv
  BY DEF Init, FoundInv
<1>3. QED
  BY <1>1, <1>2, FoundStep, Inductive, PTL DEF Spec, CommandsReachOwner
-----------------------------------------------------------------------------
(* Tasks *)

\* Tasks are added to an open scope only.
LEMMA TaskStep ==
  ASSUME TypeOK, [Next]_vars
  PROVE  \A s \in Scopes :
           \/ running'[s] \subseteq running[s]
           \/ spc[s] = "open" /\ spc' = spc /\ result' = result
<1> USE DEF TypeOK, regVars, callVars, scopeVars, taskVars, busVars
<1>1. ASSUME NEW s \in Scopes, NEW t \in Tasks, Go(s, t)
      PROVE  \A u \in Scopes : \/ running'[u] \subseteq running[u]
                               \/ spc[u] = "open" /\ spc' = spc /\ result' = result
  BY <1>1 DEF Go, Free
<1>2. ASSUME NEW s \in Scopes, NEW t \in Tasks, TaskReturn(s, t) \/ TaskFail(s, t)
      PROVE  \A u \in Scopes : running'[u] \subseteq running[u]
  BY <1>2 DEF TaskReturn, TaskFail
<1>3. CASE running' = running
  BY <1>3
<1>4. ASSUME NEW s \in Scopes, NEW e \in Entities,
             \/ PublishState(s, e) \/ SetAvailability(s, e) \/ SubscribeCommand(s, e)
             \/ \E d \in Data : RegisterEntity(s, e, d) \/ UpdateEntity(s, e, d)
      PROVE  running' = running
  BY <1>4 DEF PublishState, SetAvailability, SubscribeCommand, RegisterEntity, UpdateEntity
<1>5. ASSUME NEW s \in Scopes, Announce(s) \/ NewPluginScope(s) \/ CloseBegin(s)
      PROVE  running' = running
  BY <1>5 DEF Announce, NewPluginScope, CloseBegin
<1>6. ASSUME NEW s \in Scopes, CloseStep(s) PROVE running' = running
  BY <1>6 DEF CloseStep, CloseCancel, CloseUnsub, CloseUnsubDone, CloseRemove,
              CloseAnnounce, CloseRemoveDone, CloseReturn, CloseTimeout
<1>7. ASSUME NEW c \in Callers, RouteStep(c)
      PROVE  running' = running
  BY <1>7 DEF RouteStep, RouteLookup, RouteCall, HandlerReturn
<1>8. CASE UNCHANGED vars
  BY <1>8 DEF vars
<1>9. QED
  BY <1>1, <1>2, <1>3, <1>4, <1>5, <1>6, <1>7, <1>8 DEF Next, Call, RouteStep

\* Once Close has begun the tasks of the scope only become fewer.
THEOREM TasksOnlyEnd == Spec => NoTaskAfterClose
<1> DEFINE Fewer == \A s \in Scopes :
                      spc[s] \notin {"new", "open"} => running'[s] \subseteq running[s]
<1>1. TypeOK /\ [Next]_vars => [Fewer]_vars
  BY TaskStep
<1>2. QED
  BY <1>1, TypeCorrect, PTL DEF Spec, NoTaskAfterClose

\* Close has a result only after its last step, when no task can be added.
ResultInv == CloseResultTells /\ \A s \in Scopes : result[s] # "none" => spc[s] = "closed"

LEMMA ResultStep == TypeOK /\ ResultInv /\ [Next]_vars => ResultInv'
<1> SUFFICES ASSUME TypeOK, ResultInv, [Next]_vars PROVE ResultInv'
  OBVIOUS
<1> USE DEF TypeOK, ResultInv, CloseResultTells, regVars, callVars, scopeVars, taskVars, busVars
<1>1. ASSUME NEW s \in Scopes, CloseReturn(s) PROVE ResultInv'
  BY <1>1 DEF CloseReturn
<1>2. ASSUME NEW s \in Scopes, CloseTimeout(s) PROVE ResultInv'
  BY <1>2 DEF CloseTimeout
<1>3. ASSUME NEW s \in Scopes, NEW t \in Tasks, Go(s, t) PROVE ResultInv'
  BY <1>3 DEF Go, Free
<1>4. ASSUME NEW s \in Scopes, NEW t \in Tasks, TaskReturn(s, t) PROVE ResultInv'
  BY <1>4 DEF TaskReturn
<1>5. ASSUME NEW s \in Scopes, NEW t \in Tasks, TaskFail(s, t) PROVE ResultInv'
  BY <1>5 DEF TaskFail
<1>6. ASSUME NEW s \in Scopes, CloseBegin(s) \/ NewPluginScope(s) PROVE ResultInv'
  BY <1>6 DEF CloseBegin, NewPluginScope, Free
<1>7. ASSUME NEW s \in Scopes, CloseCancel(s) \/ CloseUnsubDone(s) \/ CloseRemoveDone(s)
      PROVE  ResultInv'
  BY <1>7 DEF CloseCancel, CloseUnsubDone, CloseRemoveDone
<1>8. CASE UNCHANGED <<spc, running, failed, result>>
  BY <1>8
<1>9. ASSUME NEW s \in Scopes, NEW e \in Entities,
             \/ PublishState(s, e) \/ SetAvailability(s, e) \/ SubscribeCommand(s, e)
             \/ \E d \in Data : RegisterEntity(s, e, d) \/ UpdateEntity(s, e, d)
      PROVE  UNCHANGED <<spc, running, failed, result>>
  BY <1>9 DEF PublishState, SetAvailability, SubscribeCommand, RegisterEntity, UpdateEntity
<1>10. ASSUME NEW s \in Scopes,
              Announce(s) \/ CloseUnsub(s) \/ CloseRemove(s) \/ CloseAnnounce(s)
       PROVE  UNCHANGED <<spc, running, failed, result>>
  BY <1>10 DEF Announce, CloseUnsub, CloseRemove, CloseAnnounce
<1>11. ASSUME NEW c \in Callers, RouteStep(c)
       PROVE  UNCHANGED <<spc, running, failed, result>>
  BY <1>11 DEF RouteStep, RouteLookup, RouteCall, HandlerReturn
<1>12. CASE UNCHANGED vars
  BY <1>12 DEF vars
<1>13. QED
  BY <1>1, <1>2, <1>3, <1>4, <1>5, <1>6, <1>7, <1>8, <1>9, <1>10, <1>11, <1>12
     DEF Next, Call, CloseStep, RouteStep

\* When Close returns no timeout every task of the scope has ended, for good, and
\* it returns an error whenever one of them had failed.
THEOREM CloseTellsTheTruth == Spec => []CloseResultTells
<1>1. Init => ResultInv
  BY DEF Init, ResultInv, CloseResultTells
<1>2. ResultInv => CloseResultTells
  BY DEF ResultInv
<1>3. QED
  BY <1>1, <1>2, ResultStep, TypeCorrect, PTL DEF Spec
-----------------------------------------------------------------------------
(* The feed of a subscriber *)

\* Sets that have the same entities of id e have the same data of it.
LEMMA SameData ==
  ASSUME NEW S, NEW T, NEW e, \A r : r.id = e => (r \in S <=> r \in T)
  PROVE  dataOf(S, e) = dataOf(T, e)
  BY DEF dataOf

\* Only the data of e are other ones.
LEMMA OtherData ==
  ASSUME NEW S, NEW T, NEW e \in Entities, NEW now, dataOf(T, e) = now,
         \A r : r.id # e => (r \in S <=> r \in T)
  PROVE  [x \in Entities |-> dataOf(T, x)] = [[x \in Entities |-> dataOf(S, x)] EXCEPT ![e] = now]
<1>1. \A x \in Entities \ {e} : dataOf(T, x) = dataOf(S, x)
  BY SameData
<1> HIDE DEF dataOf
<1>2. QED
  BY <1>1

\* A change of e by the scope that answers for it, and has told of the one before.
LEMMA ChangeRefined ==
  ASSUME IInv, NEW s \in Scopes, NEW e \in Declares[s], e \in Entities, alive(s), pending[s] = {},
         NEW now, dataOf(registry', e) = now, now = {} \/ \E d \in Data : now = {d},
         \A r : r.id # e => (r \in registry <=> r \in registry'), view' = view
  PROVE  Feed!Change(e)
<1>1. dataOf(view, e) = dataOf(registry, e)
  BY Settled, SameData DEF IInv
<1>2. [x \in Entities |-> dataOf(registry', x)]
        = [[x \in Entities |-> dataOf(registry, x)] EXCEPT ![e] = now]
  BY OtherData
<1> HIDE DEF dataOf
<1>3. QED
  BY <1>1, <1>2 DEF Feed!Change

\* Every step is a change, an announcement, or nothing to a subscriber.
LEMMA StepFeed == IInv /\ [Next]_vars => [Feed!FeedNext]_(Feed!fvars)
<1> SUFFICES ASSUME IInv, [Next]_vars PROVE Feed!FeedNext \/ UNCHANGED Feed!fvars
  OBVIOUS
<1> USE DEF regVars, callVars, scopeVars, taskVars, busVars
<1>1. ASSUME NEW s \in Scopes, Announce(s) \/ CloseAnnounce(s) PROVE Feed!FeedNext
  <2>1. PICK ev \in pending[s] : PublishRegistry(ev)
    BY <1>1 DEF Announce, CloseAnnounce
  <2>2. registry' = registry
    BY <1>1 DEF Announce, CloseAnnounce
  <2>3. ev.id \in Entities
    BY DEF IInv, TypeOK, Event
  <2>4. /\ \A r : r.id = ev.id => (r \in registry <=> r \in view')
        /\ \A r : r.id # ev.id => (r \in view <=> r \in view')
    BY <2>1, Told DEF IInv
  <2>5. dataOf(view', ev.id) = dataOf(registry, ev.id)
    BY <2>4, SameData
  <2>6. [x \in Entities |-> dataOf(view', x)]
          = [[x \in Entities |-> dataOf(view, x)] EXCEPT ![ev.id] = dataOf(registry, ev.id)]
    BY <2>3, <2>4, <2>5, OtherData
  <2> HIDE DEF dataOf
  <2>7. Feed!Announce(ev.id)
    BY <2>2, <2>3, <2>6 DEF Feed!Announce
  <2>8. QED
    BY <2>3, <2>7 DEF Feed!FeedNext
<1>2. ASSUME NEW s \in Scopes, NEW e \in Entities, NEW d \in Data,
             RegisterEntity(s, e, d) \/ UpdateEntity(s, e, d)
      PROVE  Feed!FeedNext
  <2>1. /\ registry' = With(registry, e, d) /\ view' = view
        /\ spc[s] = "open" /\ pending[s] = {} /\ e \in Declares[s] \cup entityIDs[s]
    BY <1>2 DEF RegisterEntity, UpdateEntity, Free
  <2>2. e \in Declares[s] /\ alive(s)
    BY <2>1 DEF IInv, OwnInv, mine, alive
  <2> DEFINE rec == [id |-> e, data |-> d]
  <2>3. registry' = Without(registry, e) \cup {rec} /\ rec.id = e /\ rec.data = d
    BY <2>1 DEF With
  <2> HIDE DEF rec
  <2>4. {q \in registry' : q.id = e} = {rec}
    BY <2>3 DEF Without
  <2>5. dataOf(registry', e) = {d}
    BY <2>3, <2>4 DEF dataOf
  <2>6. \A r : r.id # e => (r \in registry <=> r \in registry')
    BY <2>3 DEF Without
  <2>7. Feed!Change(e)
    BY <2>1, <2>2, <2>5, <2>6, ChangeRefined
  <2>8. QED
    BY <2>7 DEF Feed!FeedNext
<1>3. ASSUME NEW s \in Scopes, CloseRemove(s) PROVE Feed!FeedNext
  <2>1. PICK e \in toRemove[s] : registry' = Without(registry, e)
    BY <1>3 DEF CloseRemove
  <2>2. spc[s] = "remove" /\ pending[s] = {} /\ view' = view
    BY <1>3 DEF CloseRemove
  <2>3. e \in Declares[s] /\ alive(s) /\ e \in Entities
    BY <2>2 DEF IInv, OwnInv, mine, alive, TypeOK
  <2>4. dataOf(registry', e) = {}
    BY <2>1 DEF dataOf, Without
  <2>5. \A r : r.id # e => (r \in registry <=> r \in registry')
    BY <2>1 DEF Without
  <2>6. Feed!Change(e)
    BY <2>2, <2>3, <2>4, <2>5, ChangeRefined
  <2>7. QED
    BY <2>3, <2>6 DEF Feed!FeedNext
<1>4. ASSUME NEW s \in Scopes, CloseBegin(s) PROVE UNCHANGED <<registry, view>>
  BY <1>4 DEF CloseBegin
<1>5. ASSUME NEW s \in Scopes, NEW e \in Entities, PublishState(s, e) \/ SetAvailability(s, e)
      PROVE  UNCHANGED <<registry, view>>
  BY <1>5 DEF PublishState, SetAvailability, Publish
<1>6. UNCHANGED <<registry, view>> => UNCHANGED Feed!fvars
  BY DEF Feed!fvars
<1>7. QED
  BY <1>1, <1>2, <1>3, <1>4, <1>5, <1>6, StepKinds

\* To a subscriber the scopes of a generation are one feed per entity: whatever plugins
\* run, stop and start again, it is behind by the last change of each entity at most, and
\* what it is told is what the registry has (RegisterEntity, UpdateEntity, Close).
THEOREM FeedKept == Spec => ImplementsFeed
<1>1. Init => Feed!FeedInit
  BY DEF Init, Feed!FeedInit, dataOf
<1>2. QED
  BY <1>1, StepFeed, Inductive, PTL DEF Spec, ImplementsFeed
=============================================================================
