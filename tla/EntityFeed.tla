----------------------------- MODULE EntityFeed -----------------------------
(***************************************************************************)
(* What the registry of a generation promises to a subscriber of its       *)
(* events (src/internal/core/registry.go, plugin_scope.go): the subscriber *)
(* follows the registry entity by entity, and is behind by at most the     *)
(* last change of each, whichever plugin made it.                          *)
(***************************************************************************)
CONSTANTS Entities, Data

VARIABLES registry,  \* registry[e]: the data of e if it is registered, at most one
          view       \* view[e]: the same, as the events so far tell it

fvars == <<registry, view>>

FeedInit == /\ registry = [e \in Entities |-> {}]
            /\ view = [e \in Entities |-> {}]

\* Registered, updated or removed: the event of the change before is out.
Change(e) == /\ view[e] = registry[e]
             /\ \/ \E d \in Data : registry' = [registry EXCEPT ![e] = {d}]
                \/ registry' = [registry EXCEPT ![e] = {}]
             /\ UNCHANGED view

Announce(e) == /\ view' = [view EXCEPT ![e] = registry[e]]
               /\ UNCHANGED registry

FeedNext == \E e \in Entities : Change(e) \/ Announce(e)

FeedSpec == FeedInit /\ [][FeedNext]_fvars
=============================================================================
