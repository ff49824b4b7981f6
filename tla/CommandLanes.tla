---------------------------- MODULE CommandLanes ----------------------------
(***************************************************************************)
(* What the command half of src/internal/transport/mqtt/mqtt.go promises to*)
(* command handlers: every entity has a lane of its own, whose commands    *)
(* are handled one at a time and in the order they came.  A command may be *)
(* lost as it comes or on the way, never doubled or overtaken in its lane, *)
(* and never held up by another lane.  Commands are numbered as they come. *)
(***************************************************************************)
EXTENDS Naturals

CONSTANT Lanes

VARIABLES came,   \* commands that came so far
          lane,   \* lane[e]: the commands on their way
          busy    \* busy[e]: the command being handled, at most one

lvars == <<came, lane, busy>>

LaneInit == /\ came = 0
            /\ lane = [e \in Lanes |-> {}]
            /\ busy = [e \in Lanes |-> {}]

Come(e) == /\ came' = came + 1
           /\ \/ lane' = [lane EXCEPT ![e] = @ \cup {came + 1}]
              \/ UNCHANGED lane
           /\ UNCHANGED busy

\* The oldest goes first.
Begin(e) == /\ busy[e] = {}
            /\ \E n \in lane[e] :
                 /\ \A m \in lane[e] : n <= m
                 /\ busy' = [busy EXCEPT ![e] = {n}]
                 /\ lane' = [lane EXCEPT ![e] = @ \ {n}]
            /\ UNCHANGED came

End(e) == /\ busy[e] # {}
          /\ busy' = [busy EXCEPT ![e] = {}]
          /\ UNCHANGED <<came, lane>>

Lose(e) == /\ \E n \in lane[e] : lane' = [lane EXCEPT ![e] = @ \ {n}]
           /\ UNCHANGED <<came, busy>>

LaneNext == \E e \in Lanes : Come(e) \/ Begin(e) \/ End(e) \/ Lose(e)

LaneSpec == LaneInit /\ [][LaneNext]_lvars
=============================================================================
