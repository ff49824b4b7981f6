------------------------------ MODULE Inhibitor ------------------------------
(***************************************************************************)
(* src/internal/plugins/inhibit_freedesktop: switches that hold an         *)
(* inhibition of a desktop service each, known by the cookie the service   *)
(* gave for it.                                                            *)
(*                                                                         *)
(* p.mu is held through every call to a service, by the refresh of         *)
(* availabilities, by a command or by Stop (mu).  A call is one step: what *)
(* a service does between its answer and what the plugin makes of it does  *)
(* not depend on the plugin.  A service that hangs does not answer; the    *)
(* call then ends with its context, of which the agent's is the parent.    *)
(*                                                                         *)
(* Operators marked "Variant" are actions with a plausible bug, by which   *)
(* the properties are tested.                                              *)
(***************************************************************************)
EXTENDS Naturals, FiniteSets

CONSTANTS Items,       \* the switches, each with a service of its own
          MaxEvents,   \* bound: services that start, stop or hang
          MaxCommands  \* bound: commands

ASSUME BoundsAssumption == MaxEvents \in Nat /\ MaxCommands \in Nat

VARIABLES
  svc,      \* svc[i]: the service is "up", "down" or "hung"
  held,     \* held[i]: cookies of the inhibitions it holds for the agent
  cookie, active, availability,  \* the inhibitor of the plugin
  shown,    \* shown[i]: the state published last
  early,    \* history: switches on that Start then showed as off
  mu,       \* who holds p.mu: "free", "start", "refresh", "command", "stop"
  todo,     \* items the holder has still to call
  wants,    \* what a command wants
  reg,      \* reg[i] in Start: "no", "subscribed" to commands, "shown" as off
  tpc,      \* the plugin: "new", "started", "stopping" (Stop waits or works), "stopped"
  loop,     \* the refresh loop: "none", "running", "ended"
  ctxDone,  \* the context of the agent is over
  events, commands  \* so far

svcVars  == <<svc, held, events>>
itemVars == <<cookie, active, availability, shown, early>>
runVars  == <<reg, tpc, loop, ctxDone>>
vars == <<svcVars, itemVars, mu, todo, wants, runVars, commands>>

Cookies == 1..MaxCommands

Init ==
  /\ svc \in [Items -> {"up", "down"}]
  /\ held = [i \in Items |-> {}]
  /\ cookie = [i \in Items |-> 0] /\ active = [i \in Items |-> FALSE]
  /\ availability = [i \in Items |-> "none"]
  /\ shown = [i \in Items |-> FALSE] /\ early = {}
  /\ mu = "free" /\ todo = {} /\ wants = FALSE
  /\ reg = [i \in Items |-> "no"]
  /\ tpc = "new" /\ loop = "none" /\ ctxDone = FALSE
  /\ events = 0 /\ commands = 0
-----------------------------------------------------------------------------
(* The services *)

\* A service forgets its inhibitions when it stops; it may hang and go on.
ServiceChanges(i) ==
  /\ events < MaxEvents
  /\ \E to \in {"up", "down", "hung"} :
       /\ <<svc[i], to>> \notin {<<to, to>>, <<"down", "hung">>}
       /\ svc' = [svc EXCEPT ![i] = to]
       /\ held' = [held EXCEPT ![i] = IF to = "down" THEN {} ELSE @]
  /\ events' = events + 1
  /\ UNCHANGED <<itemVars, mu, todo, wants, runVars, commands>>

connected == tpc # "stopped"

\* When a call to the service of i is answered well, and when it fails.
Answers(i) == svc[i] = "up" /\ connected /\ ~ctxDone
Fails(i)   == svc[i] = "down" \/ ~connected \/ ctxDone
-----------------------------------------------------------------------------
(* Start and the refresh of availabilities *)

PublishState(i, on) ==
  /\ shown' = [shown EXCEPT ![i] = on]
  /\ early' = early \ {i}

\* Start registers the switches one by one.  From here on commands for i may come.
Subscribe(i) ==
  /\ reg[i] = "no" /\ \A j \in Items : reg[j] # "subscribed"
  /\ reg' = [reg EXCEPT ![i] = "subscribed"]
  /\ UNCHANGED <<svcVars, itemVars, mu, todo, wants, tpc, loop, ctxDone, commands>>

\* It shows i as off, without the lock; a command may have switched it on by then.
ShowOff(i) ==
  /\ reg[i] = "subscribed"
  /\ reg' = [reg EXCEPT ![i] = "shown"]
  /\ shown' = [shown EXCEPT ![i] = FALSE]
  /\ early' = IF active[i] THEN early \cup {i} ELSE early
  /\ UNCHANGED <<svcVars, cookie, active, availability, mu, todo, wants, tpc, loop, ctxDone,
                 commands>>

StartRefresh ==
  /\ tpc = "new" /\ \A i \in Items : reg[i] = "shown"
  /\ mu = "free"
  /\ mu' = "start" /\ todo' = Items
  /\ UNCHANGED <<svcVars, itemVars, wants, runVars, commands>>

Tick ==
  /\ loop = "running" /\ mu = "free"
  /\ mu' = "refresh" /\ todo' = Items
  /\ UNCHANGED <<svcVars, itemVars, wants, runVars, commands>>

\* Variant: the ping does not end with the context.
PingDeaf(i) ==
  /\ mu \in {"start", "refresh"} /\ i \in todo
  /\ \/ /\ svc[i] = "up"
        /\ availability' = [availability EXCEPT ![i] = "online"]
        /\ UNCHANGED <<cookie, active, shown, early>>
     \/ /\ svc[i] = "down" \/ ~connected
        /\ availability' = [availability EXCEPT ![i] = "unavailable"]
        /\ IF availability[i] # "unavailable" /\ active[i]
           THEN /\ active' = [active EXCEPT ![i] = FALSE]
                /\ cookie' = [cookie EXCEPT ![i] = 0]
                /\ PublishState(i, FALSE)
           ELSE UNCHANGED <<cookie, active, shown, early>>
  /\ todo' = todo \ {i}
  /\ UNCHANGED <<svcVars, mu, wants, runVars, commands>>

\* One round of the loop of refreshAvailability.  An availability that is known is
\* passed over; one that is lost takes the inhibition along.
Ping(i) ==
  /\ mu \in {"start", "refresh"} /\ i \in todo
  /\ \/ /\ Answers(i)
        /\ availability' = [availability EXCEPT ![i] = "online"]
        /\ UNCHANGED <<cookie, active, shown, early>>
     \/ /\ Fails(i)
        /\ availability' = [availability EXCEPT ![i] = "unavailable"]
        /\ IF availability[i] # "unavailable" /\ active[i]
           THEN /\ active' = [active EXCEPT ![i] = FALSE]
                /\ cookie' = [cookie EXCEPT ![i] = 0]
                /\ PublishState(i, FALSE)
           ELSE UNCHANGED <<cookie, active, shown, early>>
  /\ todo' = todo \ {i}
  /\ UNCHANGED <<svcVars, mu, wants, runVars, commands>>

RefreshEnd ==
  /\ mu \in {"start", "refresh"} /\ todo = {}
  /\ mu' = "free"
  /\ IF mu = "start" THEN tpc' = "started" /\ loop' = "running"
                     ELSE UNCHANGED <<tpc, loop>>
  /\ UNCHANGED <<svcVars, itemVars, todo, wants, reg, ctxDone, commands>>

\* The context of the scope: over with the agent's, or when the scope is closed, after
\* Stop.
LoopExit ==
  /\ loop = "running" /\ mu # "refresh"
  /\ ctxDone \/ tpc = "stopped"
  /\ loop' = "ended"
  /\ UNCHANGED <<svcVars, itemVars, mu, todo, wants, reg, tpc, ctxDone, commands>>
-----------------------------------------------------------------------------
(* handleCommand *)

\* Variant: the service is called whatever the switch is.
CommandAlways(i, enabled) ==
  /\ reg[i] # "no" /\ mu = "free" /\ commands < MaxCommands
  /\ commands' = commands + 1
  /\ mu' = "command" /\ todo' = {i} /\ wants' = enabled
  /\ UNCHANGED <<svcVars, itemVars, runVars>>

\* A command that changes nothing only publishes; else the service is called.
Command(i, enabled) ==
  /\ reg[i] # "no" /\ mu = "free" /\ commands < MaxCommands
  /\ commands' = commands + 1
  /\ \/ /\ active[i] = enabled
        /\ PublishState(i, enabled)
        /\ UNCHANGED <<mu, todo, wants>>
     \/ /\ active[i] # enabled
        /\ mu' = "command" /\ todo' = {i} /\ wants' = enabled
        /\ UNCHANGED <<shown, early>>
  /\ UNCHANGED <<svcVars, cookie, active, availability, runVars>>

Calling(i, enabled) == mu = "command" /\ todo = {i} /\ wants = enabled

CommandDone == mu' = "free" /\ todo' = {} /\ UNCHANGED <<wants, runVars, commands>>

\* Inhibit: the service gives a new cookie.
Inhibit(i) ==
  /\ Calling(i, TRUE) /\ Answers(i)
  /\ held' = [held EXCEPT ![i] = @ \cup {commands}]
  /\ cookie' = [cookie EXCEPT ![i] = commands]
  /\ active' = [active EXCEPT ![i] = TRUE]
  /\ availability' = [availability EXCEPT ![i] = "online"]
  /\ PublishState(i, TRUE)
  /\ CommandDone
  /\ UNCHANGED <<svc, events>>

\* UnInhibit.
UnInhibit(i) ==
  /\ Calling(i, FALSE) /\ Answers(i)
  /\ held' = [held EXCEPT ![i] = @ \ {cookie[i]}]
  /\ active' = [active EXCEPT ![i] = FALSE]
  /\ availability' = [availability EXCEPT ![i] = "online"]
  /\ PublishState(i, FALSE)
  /\ CommandDone
  /\ UNCHANGED <<svc, events, cookie>>

\* Either call fails; a service may also refuse a cookie it does not know.
CallFails(i) ==
  /\ mu = "command" /\ todo = {i}
  /\ Fails(i) \/ (Answers(i) /\ ~wants /\ cookie[i] \notin held[i])
  /\ availability' = [availability EXCEPT ![i] = "unavailable"]
  /\ CommandDone
  /\ UNCHANGED <<svcVars, cookie, active, shown, early>>
-----------------------------------------------------------------------------
(* Stop *)

\* The context of the agent ends.
Cancel ==
  /\ ~ctxDone
  /\ ctxDone' = TRUE
  /\ UNCHANGED <<svcVars, itemVars, mu, todo, wants, reg, tpc, loop, commands>>

Stop ==
  /\ tpc = "started"
  /\ tpc' = "stopping"
  /\ UNCHANGED <<svcVars, itemVars, mu, todo, wants, reg, loop, ctxDone, commands>>

\* Stop gets the lock.
StopLock ==
  /\ tpc = "stopping" /\ mu = "free"
  /\ mu' = "stop" /\ todo' = {i \in Items : active[i]}
  /\ UNCHANGED <<svcVars, itemVars, wants, runVars, commands>>

\* It releases an inhibition; the call has a context of its own, which ends in time.
Release(i) ==
  /\ mu = "stop" /\ i \in todo
  /\ held' = [held EXCEPT ![i] = IF svc[i] = "up" THEN @ \ {cookie[i]} ELSE @]
  /\ active' = [active EXCEPT ![i] = FALSE]
  /\ todo' = todo \ {i}
  /\ UNCHANGED <<svc, events, cookie, availability, shown, early, mu, wants, runVars, commands>>

\* The connection is closed: services drop what they hold for it.
StopEnd ==
  /\ mu = "stop" /\ todo = {}
  /\ held' = [i \in Items |-> {}]
  /\ tpc' = "stopped" /\ mu' = "free"
  /\ UNCHANGED <<svc, events, itemVars, todo, wants, reg, loop, ctxDone, commands>>
-----------------------------------------------------------------------------
StartStep   == (\E i \in Items : Subscribe(i) \/ ShowOff(i)) \/ StartRefresh
RefreshStep == (\E i \in Items : Ping(i)) \/ RefreshEnd
CommandStep == \E i \in Items : Inhibit(i) \/ UnInhibit(i) \/ CallFails(i)
StopStep    == StopLock \/ (\E i \in Items : Release(i)) \/ StopEnd

Next ==
  \/ \E i \in Items : ServiceChanges(i)
  \/ \E i \in Items, enabled \in BOOLEAN : Command(i, enabled)
  \/ StartStep \/ RefreshStep \/ CommandStep \/ Tick \/ LoopExit
  \/ Cancel \/ Stop \/ StopStep

Spec == Init /\ [][Next]_vars

\* Goroutines run, and services that do not hang answer; a mutex does not starve one
\* goroutine for ever.  Nobody need send commands, or stop.
Fairness ==
  /\ WF_vars(RefreshStep) /\ WF_vars(CommandStep) /\ WF_vars(LoopExit)
  /\ SF_vars(StartStep) /\ SF_vars(Tick) /\ SF_vars(StopLock) /\ WF_vars(StopStep)

FairSpec == Spec /\ Fairness
-----------------------------------------------------------------------------
(* Properties *)

\* Besides the types: whoever works on items holds the lock.
TypeOK ==
  /\ svc \in [Items -> {"up", "down", "hung"}]
  /\ held \in [Items -> SUBSET Cookies]
  /\ cookie \in [Items -> Cookies \cup {0}]
  /\ active \in [Items -> BOOLEAN] /\ shown \in [Items -> BOOLEAN]
  /\ availability \in [Items -> {"none", "online", "unavailable"}]
  /\ early \subseteq Items /\ reg \in [Items -> {"no", "subscribed", "shown"}]
  /\ mu \in {"free", "start", "refresh", "command", "stop"} /\ todo \subseteq Items
  /\ {wants, ctxDone} \subseteq BOOLEAN
  /\ tpc \in {"new", "started", "stopping", "stopped"}
  /\ loop \in {"none", "running", "ended"}
  /\ events \in 0..MaxEvents /\ commands \in 0..MaxCommands
  /\ mu = "free" => todo = {}
  /\ \A i \in Items : active[i] => cookie[i] # 0

\* No inhibition outlives its switch: while the agent runs, a service holds at most the
\* one inhibition whose cookie the plugin has, and only for a switch that is on and
\* shown so, unless Start published its first state after a command had been handled;
\* after Stop it holds none.
NothingLeaks ==
  \A i \in Items :
    /\ tpc = "started" /\ mu = "free" /\ ~ctxDone =>
         held[i] \subseteq IF active[i] /\ (shown[i] \/ i \in early) THEN {cookie[i]} ELSE {}
    /\ tpc = "stopped" => held[i] = {}

\* Stop returns, unless a service hangs that somebody is calling: then only the end of
\* the agent frees the lock.
StopReturns ==
  tpc = "stopping" ~> (tpc = "stopped" \/ (~ctxDone /\ \E i \in Items : svc[i] = "hung"))

\* "session.lock_inhibited keeps the desktop from locking automatically" (docs/plugins/
\* inhibit-freedesktop.md:11): once the services stay up, a switch that is shown on is
\* backed by an inhibition in the end.  Refuted: a service that restarts between two
\* pings has lost it, and no later ping notices.
OnMeansInhibited ==
  \A i \in Items :
    <>[](\A j \in Items : svc[j] = "up" /\ tpc = "started" /\ ~ctxDone) =>
      <>[](shown[i] => held[i] # {})
=============================================================================
