---------------------------- MODULE PluginScope ----------------------------
(***************************************************************************)
(* What one runtime generation shares between its plugins and what each    *)
(* plugin gets of it: src/internal/core/registry.go (EntityRegistry),      *)
(* command_router.go (CommandRouter) and plugin_scope.go (PluginScope).    *)
(*                                                                         *)
(* A scope is one run of a plugin: a plugin that is stopped and started    *)
(* again gets a new scope on the same registry, router and bus.  Anything  *)
(* a plugin runs (Start, its tasks, its command handlers) may call its     *)
(* scope at any time, also after Close: every call is an action that any   *)
(* of them may take.  Calls that return an error change nothing and are no *)
(* actions.  s.mu is held from the first to the last step of a call; of    *)
(* the calls only RegisterEntity and UpdateEntity have an intermediate     *)
(* state others can see: the registry is unlocked before the event is out. *)
(*                                                                         *)
(* Operators marked "Variant" are actions with a plausible bug, by which   *)
(* the properties are tested.                                              *)
(***************************************************************************)
EXTENDS Naturals, FiniteSets

CONSTANTS Scopes,     \* runs of plugins in this generation
          Entities,   \* entity ids
          Data,       \* what an entity can carry besides its id
          Tasks,      \* bound: the tasks each scope may start, once each
          Callers,    \* goroutines that route commands (transport workers)
          Declares    \* Declares[s]: the entity ids the plugin of s may register

ASSUME DeclaresAssumption == Declares \in [Scopes -> SUBSET Entities]

VARIABLES
  registry,   \* r.entities of EntityRegistry, a set of [id, data]
  handlers,   \* r.handlers of CommandRouter, a set of [id, scope]
  found,      \* found[c]: the handler Route has looked up for c and not yet called: at most one
  inflight,   \* inflight[c]: the handler caller c is running: a set of at most one
  spc,        \* spc[s]: "new", "open", then the steps of Close: "cancel",
              \* "unsub", "remove", "wait", "closed"
  entityIDs,  \* entityIDs[s], s.entityIDs
  unsubs,     \* unsubs[s]: the ids of s.unsubs
  pending,    \* pending[s]: the event a call of s has still to publish, at most
              \* one; s.mu is held while there is one and s is open
  toUnsub, toRemove,  \* the local lists of Close
  running, started,   \* running[s], started[s]: tasks of s.group
  failed,     \* failed[s]: a task returned an error or panicked (errgroup's err)
  ctxDone,    \* ctxDone[s]: the context of the tasks of s is cancelled
  result,     \* result[s]: what Close returned: "none", "ok", "error", "timeout"
  view,       \* the entities a subscriber holds that applies every event
  misordered  \* history: the events that reached the bus out of order

callVars  == <<found, inflight>>
regVars   == <<registry, handlers, callVars>>
scopeVars == <<spc, entityIDs, unsubs, pending, toUnsub, toRemove>>
taskVars  == <<running, started, failed, ctxDone>>
busVars   == <<view, misordered>>
vars == <<regVars, scopeVars, taskVars, result, busVars>>

Entity  == [id : Entities, data : Data]
Handler == [id : Entities, scope : Scopes]
Event   == [type : {"added", "updated", "removed"}, id : Entities, data : Data]

Ids(set) == {r.id : r \in set}
Without(set, e) == {r \in set : r.id # e}
With(set, e, d) == Without(set, e) \cup {[id |-> e, data |-> d]}

Free(s) == spc[s] = "open" /\ pending[s] = {}

Init ==
  /\ registry = {} /\ handlers = {}
  /\ found     = [c \in Callers |-> {}]
  /\ inflight  = [c \in Callers |-> {}]
  /\ spc       = [s \in Scopes |-> "new"]
  /\ entityIDs = [s \in Scopes |-> {}]
  /\ unsubs    = [s \in Scopes |-> {}]
  /\ pending   = [s \in Scopes |-> {}]
  /\ toUnsub   = [s \in Scopes |-> {}]
  /\ toRemove  = [s \in Scopes |-> {}]
  /\ running   = [s \in Scopes |-> {}]
  /\ started   = [s \in Scopes |-> {}]
  /\ failed    = [s \in Scopes |-> FALSE]
  /\ ctxDone   = [s \in Scopes |-> FALSE]
  /\ result    = [s \in Scopes |-> "none"]
  /\ view = {} /\ misordered = {}

\* bus.Publish, as a subscriber that applies the events in order sees it (the bus
\* keeps the order of publishes that do not overlap, see EventBus).  An event is
\* out of order if it adds what the subscriber has, or is about what it has not.
Publish(type, e, set) ==
  /\ view' = set
  /\ misordered' = IF (type = "added") = (e \notin Ids(view))
                   THEN misordered ELSE misordered \cup {<<type, e>>}

PublishRegistry(ev) ==
  Publish(ev.type, ev.id, IF ev.type = "removed" THEN Without(view, ev.id)
                                                 ELSE With(view, ev.id, ev.data))
-----------------------------------------------------------------------------
(* Calls of a plugin on its open scope *)

\* NewPluginScope.  PluginManager runs one Start or Stop at a time, and config
\* validation gives the plugins of one config different entity ids: a scope is
\* made only after Close has returned for every scope that shares an id with it.
NewPluginScope(s) ==
  /\ spc[s] = "new"
  /\ \A t \in Scopes : Declares[s] \cap Declares[t] # {} => spc[t] \in {"new", "closed"}
  /\ spc' = [spc EXCEPT ![s] = "open"]
  /\ UNCHANGED <<regVars, entityIDs, unsubs, pending, toUnsub, toRemove,
                 taskVars, result, busVars>>

\* RegisterEntity up to the r.mu.Unlock of Register; a duplicate is an error.
RegisterEntity(s, e, d) ==
  /\ Free(s)
  /\ e \in Declares[s]
  /\ e \notin Ids(registry)
  /\ registry' = With(registry, e, d)
  /\ pending' = [pending EXCEPT ![s] = {[type |-> "added", id |-> e, data |-> d]}]
  /\ UNCHANGED <<handlers, callVars, spc, entityIDs, unsubs, toUnsub, toRemove,
                 taskVars, result, busVars>>

\* Variant: without s.mu.
UpdateEntityUnlocked(s, e, d) ==
  /\ spc[s] = "open"
  /\ e \in entityIDs[s]
  /\ e \in Ids(registry)
  /\ registry' = With(registry, e, d)
  /\ pending' = [pending EXCEPT ![s] = @ \cup {[type |-> "updated", id |-> e, data |-> d]}]
  /\ UNCHANGED <<handlers, callVars, spc, entityIDs, unsubs, toUnsub, toRemove,
                 taskVars, result, busVars>>

\* UpdateEntity up to the r.mu.Unlock of Update.
UpdateEntity(s, e, d) ==
  /\ Free(s)
  /\ e \in entityIDs[s]
  /\ e \in Ids(registry)
  /\ registry' = With(registry, e, d)
  /\ pending' = [pending EXCEPT ![s] = {[type |-> "updated", id |-> e, data |-> d]}]
  /\ UNCHANGED <<handlers, callVars, spc, entityIDs, unsubs, toUnsub, toRemove,
                 taskVars, result, busVars>>

\* Variant: the scope does not note what it has registered.
AnnounceUnowned(s) ==
  /\ spc[s] = "open"
  /\ \E ev \in pending[s] :
       /\ PublishRegistry(ev)
       /\ pending' = [pending EXCEPT ![s] = @ \ {ev}]
  /\ UNCHANGED <<regVars, spc, entityIDs, unsubs, toUnsub, toRemove, taskVars, result>>

\* The rest of RegisterEntity or UpdateEntity: the event, the note of the owner.
Announce(s) ==
  /\ spc[s] = "open"
  /\ \E ev \in pending[s] :
       /\ PublishRegistry(ev)
       /\ pending' = [pending EXCEPT ![s] = @ \ {ev}]
       /\ entityIDs' = [entityIDs EXCEPT ![s] = @ \cup {ev.id}]
  /\ UNCHANGED <<regVars, spc, unsubs, toUnsub, toRemove, taskVars, result>>

\* Variant: the test of s.closed is missing, and so is the one for the owner.
PublishStateUnchecked(s, e) ==
  /\ spc[s] # "new" /\ pending[s] = {}
  /\ e \in Declares[s]
  /\ Publish("state", e, view)
  /\ UNCHANGED <<regVars, scopeVars, taskVars, result>>

PublishState(s, e) ==
  /\ Free(s)
  /\ e \in entityIDs[s]
  /\ Publish("state", e, view)
  /\ UNCHANGED <<regVars, scopeVars, taskVars, result>>

SetAvailability(s, e) ==
  /\ Free(s)
  /\ e \in entityIDs[s]
  /\ Publish("availability", e, view)
  /\ UNCHANGED <<regVars, scopeVars, taskVars, result>>

\* SubscribeCommand; a second handler for an id is an error of the router.
SubscribeCommand(s, e) ==
  /\ Free(s)
  /\ e \in entityIDs[s]
  /\ e \notin Ids(handlers)
  /\ handlers' = handlers \cup {[id |-> e, scope |-> s]}
  /\ unsubs' = [unsubs EXCEPT ![s] = @ \cup {e}]
  /\ UNCHANGED <<registry, callVars, spc, entityIDs, pending, toUnsub, toRemove,
                 taskVars, result, busVars>>
-----------------------------------------------------------------------------
(* Tasks: Go and the errgroup *)

\* Variant: a task may be added to a closed scope.
GoUnchecked(s, t) ==
  /\ spc[s] # "new"
  /\ t \notin started[s]
  /\ running' = [running EXCEPT ![s] = @ \cup {t}]
  /\ started' = [started EXCEPT ![s] = @ \cup {t}]
  /\ UNCHANGED <<regVars, scopeVars, failed, ctxDone, result, busVars>>

Go(s, t) ==
  /\ Free(s)
  /\ t \notin started[s]
  /\ running' = [running EXCEPT ![s] = @ \cup {t}]
  /\ started' = [started EXCEPT ![s] = @ \cup {t}]
  /\ UNCHANGED <<regVars, scopeVars, failed, ctxDone, result, busVars>>

\* A task returns nil, or context.Canceled, which Go turns into nil.
TaskReturn(s, t) ==
  /\ t \in running[s]
  /\ running' = [running EXCEPT ![s] = @ \ {t}]
  /\ UNCHANGED <<regVars, scopeVars, started, failed, ctxDone, result, busVars>>

\* Variant: a plain WaitGroup, whose tasks do not hear of each other's failure.
TaskFailQuietly(s, t) ==
  /\ t \in running[s]
  /\ running' = [running EXCEPT ![s] = @ \ {t}]
  /\ failed' = [failed EXCEPT ![s] = TRUE]
  /\ UNCHANGED <<regVars, scopeVars, started, ctxDone, result, busVars>>

\* A task returns another error or panics: the errgroup keeps the first error and
\* cancels the context all tasks of the scope run with.
TaskFail(s, t) ==
  /\ t \in running[s]
  /\ running' = [running EXCEPT ![s] = @ \ {t}]
  /\ failed' = [failed EXCEPT ![s] = TRUE]
  /\ ctxDone' = [ctxDone EXCEPT ![s] = TRUE]
  /\ UNCHANGED <<regVars, scopeVars, started, result, busVars>>
-----------------------------------------------------------------------------
(* Close *)

\* The part of Close that holds s.mu.
CloseBegin(s) ==
  /\ Free(s)
  /\ spc' = [spc EXCEPT ![s] = "cancel"]
  /\ toUnsub' = [toUnsub EXCEPT ![s] = unsubs[s]]
  /\ toRemove' = [toRemove EXCEPT ![s] = entityIDs[s]]
  /\ unsubs' = [unsubs EXCEPT ![s] = {}]
  /\ entityIDs' = [entityIDs EXCEPT ![s] = {}]
  /\ UNCHANGED <<regVars, pending, taskVars, result, busVars>>

CloseCancel(s) ==
  /\ spc[s] = "cancel"
  /\ ctxDone' = [ctxDone EXCEPT ![s] = TRUE]
  /\ spc' = [spc EXCEPT ![s] = "unsub"]
  /\ UNCHANGED <<regVars, entityIDs, unsubs, pending, toUnsub, toRemove,
                 running, started, failed, result, busVars>>

\* One call of an unsubscribe function; it deletes by id.
CloseUnsub(s) ==
  /\ spc[s] = "unsub"
  /\ \E e \in toUnsub[s] : /\ handlers' = Without(handlers, e)
                           /\ toUnsub' = [toUnsub EXCEPT ![s] = @ \ {e}]
  /\ UNCHANGED <<registry, callVars, spc, entityIDs, unsubs, pending, toRemove,
                 taskVars, result, busVars>>

\* Variant: the entities go first.
CloseUnsubSkip(s) ==
  /\ spc[s] = "unsub"
  /\ spc' = [spc EXCEPT ![s] = "remove"]
  /\ UNCHANGED <<regVars, entityIDs, unsubs, pending, toUnsub, toRemove,
                 taskVars, result, busVars>>

CloseUnsubDone(s) ==
  /\ spc[s] = "unsub"
  /\ toUnsub[s] = {}
  /\ spc' = [spc EXCEPT ![s] = "remove"]
  /\ UNCHANGED <<regVars, entityIDs, unsubs, pending, toUnsub, toRemove,
                 taskVars, result, busVars>>

\* registry.Remove up to its r.mu.Unlock (an id that is gone is only logged) ...
CloseRemove(s) ==
  /\ spc[s] = "remove"
  /\ pending[s] = {}
  /\ \E e \in toRemove[s] :
       /\ toRemove' = [toRemove EXCEPT ![s] = @ \ {e}]
       /\ registry' = Without(registry, e)
       /\ pending' = [pending EXCEPT ![s] =
            {[type |-> "removed", id |-> e, data |-> r.data] : r \in registry \ registry'}]
  /\ UNCHANGED <<handlers, callVars, spc, entityIDs, unsubs, toUnsub, taskVars,
                 result, busVars>>

\* ... and its event.
CloseAnnounce(s) ==
  /\ spc[s] = "remove"
  /\ \E ev \in pending[s] : /\ PublishRegistry(ev)
                            /\ pending' = [pending EXCEPT ![s] = @ \ {ev}]
  /\ UNCHANGED <<regVars, spc, entityIDs, unsubs, toUnsub, toRemove, taskVars, result>>

CloseRemoveDone(s) ==
  /\ spc[s] = "remove"
  /\ toRemove[s] = {} /\ pending[s] = {}
  /\ spc' = [spc EXCEPT ![s] = "wait"]
  /\ UNCHANGED <<regVars, entityIDs, unsubs, pending, toUnsub, toRemove,
                 taskVars, result, busVars>>

\* group.Wait returned: Close returns the first error of the tasks.
CloseReturn(s) ==
  /\ spc[s] = "wait"
  /\ running[s] = {}
  /\ spc' = [spc EXCEPT ![s] = "closed"]
  /\ result' = [result EXCEPT ![s] = IF failed[s] THEN "error" ELSE "ok"]
  /\ UNCHANGED <<regVars, entityIDs, unsubs, pending, toUnsub, toRemove,
                 taskVars, busVars>>

\* The caller's context or the 30 seconds are over first: tasks may live on.
CloseTimeout(s) ==
  /\ spc[s] = "wait"
  /\ spc' = [spc EXCEPT ![s] = "closed"]
  /\ result' = [result EXCEPT ![s] = "timeout"]
  /\ UNCHANGED <<regVars, entityIDs, unsubs, pending, toUnsub, toRemove,
                 taskVars, busVars>>
-----------------------------------------------------------------------------
(* Route: the handler is looked up under r.mu and called without it: any scope *)
(* may go any way in between                                                    *)

RouteLookup(c, e) ==
  /\ found[c] = {} /\ inflight[c] = {}
  /\ \E h \in handlers : h.id = e /\ found' = [found EXCEPT ![c] = {h}]
  /\ UNCHANGED <<registry, handlers, inflight, scopeVars, taskVars, result, busVars>>

RouteCall(c) ==
  /\ found[c] # {}
  /\ inflight' = [inflight EXCEPT ![c] = found[c]]
  /\ found' = [found EXCEPT ![c] = {}]
  /\ UNCHANGED <<registry, handlers, scopeVars, taskVars, result, busVars>>

HandlerReturn(c) ==
  /\ inflight[c] # {}
  /\ inflight' = [inflight EXCEPT ![c] = {}]
  /\ UNCHANGED <<registry, handlers, found, scopeVars, taskVars, result, busVars>>
-----------------------------------------------------------------------------
Call(s) == \/ \E e \in Entities :
                  \/ PublishState(s, e) \/ SetAvailability(s, e)
                  \/ SubscribeCommand(s, e)
                  \/ \E d \in Data : RegisterEntity(s, e, d) \/ UpdateEntity(s, e, d)
           \/ Announce(s)

CloseStep(s) == \/ CloseCancel(s) \/ CloseUnsub(s) \/ CloseUnsubDone(s)
                \/ CloseRemove(s) \/ CloseAnnounce(s) \/ CloseRemoveDone(s)
                \/ CloseReturn(s) \/ CloseTimeout(s)

Next == \/ \E s \in Scopes :
             \/ NewPluginScope(s)
             \/ Call(s)
             \/ \E t \in Tasks : Go(s, t) \/ TaskReturn(s, t) \/ TaskFail(s, t)
             \/ CloseBegin(s)
             \/ CloseStep(s)
        \/ \E c \in Callers : (\E e \in Entities : RouteLookup(c, e)) \/ RouteCall(c) \/ HandlerReturn(c)

Spec == Init /\ [][Next]_vars

\* Goroutines run; a task returns once its context is cancelled.  Handlers need
\* not return, plugins need not call, and nobody need ever call Close.
Fairness ==
  \A s \in Scopes :
    /\ WF_vars(Announce(s)) /\ WF_vars(CloseStep(s))
    /\ \A t \in Tasks : WF_vars(ctxDone[s] /\ (TaskReturn(s, t) \/ TaskFail(s, t)))

FairSpec == Spec /\ Fairness
-----------------------------------------------------------------------------
(* Properties *)

OnePerId(set) == \A q, r \in set : q.id = r.id => q = r

\* Besides the types: the registry and the router have one entry per id, and s.mu
\* lets a scope have one event at a time between the registry and the bus.
TypeOK ==
  /\ registry \subseteq Entity /\ view \subseteq Entity
  /\ handlers \subseteq Handler
  /\ {found, inflight} \subseteq [Callers -> SUBSET Handler]
  /\ spc \in [Scopes -> {"new", "open", "cancel", "unsub", "remove", "wait", "closed"}]
  /\ {entityIDs, unsubs, toUnsub, toRemove} \subseteq [Scopes -> SUBSET Entities]
  /\ pending \in [Scopes -> SUBSET Event]
  /\ {running, started} \subseteq [Scopes -> SUBSET Tasks]
  /\ {failed, ctxDone} \subseteq [Scopes -> BOOLEAN]
  /\ result \in [Scopes -> {"none", "ok", "error", "timeout"}]
  /\ OnePerId(registry) /\ OnePerId(view) /\ OnePerId(handlers)
  /\ \A s \in Scopes : \A ev, fv \in pending[s] : ev = fv
  /\ misordered \subseteq {"added", "updated", "removed", "state", "availability"} \X Entities

\* The entities s answers for: registered by it and not yet removed by its Close.
holds(s) == entityIDs[s] \cup toRemove[s] \cup Ids({ev \in pending[s] : ev.type = "added"})

serves(s, e) == /\ spc[s] \in {"open", "cancel", "unsub"}
                /\ e \in holds(s) \cap Ids(registry)

\* Route finds only the handler of a run that answers for the entity and still has it
\* in the registry: in a Close handlers go before entities, and the handlers of a
\* former run never serve a restarted plugin's entities.  The handler is called after
\* the unlock, so the call may come late; it then reaches a run that does not answer
\* for the entity any more (and refuses what the handler calls, see LifecycleOrder)
\* only if the Close of that very run has taken its handlers away meanwhile: a call
\* of a run that has not got that far always finds the entity owned and registered.
CommandsReachOwner ==
  [][\A c \in Callers :
       /\ \A h \in found'[c] \ found[c] : serves(h.scope, h.id)
       /\ \A h \in inflight'[c] \ inflight[c] :
            serves(h.scope, h.id) \/ spc[h.scope] \in {"remove", "wait", "closed"}]_vars

\* No orphans: at every moment every entity and every handler is on the list of
\* exactly one scope that will remove it, and a closed scope has nothing left.
NoOrphans ==
  /\ \A e \in Ids(registry) : \E s \in Scopes :
       e \in holds(s) /\ \A t \in Scopes \ {s} : e \notin holds(t)
  /\ \A h \in handlers : h.id \in unsubs[h.scope] \cup toUnsub[h.scope]
  /\ \A s \in Scopes : spc[s] = "closed" =>
       holds(s) = {} /\ \A h \in handlers : h.scope # s

\* The events about one entity are in order: it is added only when a subscriber
\* does not have it, and it is updated, removed, and its state and availability
\* are published only when a subscriber has it.  Register, Update and Remove
\* publish after they unlock the registry, and a plugin that was stopped may
\* still run tasks and handlers: s.mu and s.closed have to keep the order.
LifecycleOrder == misordered = {}

\* A subscriber that has applied every event has what the registry has, with the
\* same data, but for the entities whose event is still on its way.
ViewFollowsRegistry ==
  \A r \in (registry \ view) \cup (view \ registry) :
    \E s \in Scopes : \E ev \in pending[s] : ev.id = r.id

\* The data of e in a set of entities.
dataOf(set, e) == {r.data : r \in {q \in set : q.id = e}}

Feed == INSTANCE EntityFeed WITH
          registry <- [e \in Entities |-> dataOf(registry, e)],
          view <- [e \in Entities |-> dataOf(view, e)]

\* An entity changes in the registry only when every subscriber has been told of its
\* change before, also when one plugin removes it and the next one registers it; what
\* is told is what the registry has. MqttPublisher takes this of its core.
ImplementsFeed == Feed!FeedInit /\ [][Feed!FeedNext]_(Feed!fvars)

\* No task starts once Close has begun: group.Wait never races with group.Go.
NoTaskAfterClose ==
  [][\A s \in Scopes : spc[s] \notin {"new", "open"} => running'[s] \subseteq running[s]]_vars

\* The result of Close tells: without error every task has ended, and none of
\* them had failed.
CloseResultTells ==
  \A s \in Scopes : /\ result[s] \in {"ok", "error"} => running[s] = {}
                    /\ result[s] = "ok" => ~failed[s]

\* One task that fails, or panics, ends all tasks of its plugin.
FailureEndsSiblings == \A s \in Scopes : failed[s] ~> running[s] = {}
=============================================================================
