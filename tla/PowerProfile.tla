---------------------------- MODULE PowerProfile ----------------------------
(***************************************************************************)
(* src/internal/plugins/powerprofile_ppd: an entity that follows a daemon  *)
(* on the system bus, by signals, by reading it again, and by what         *)
(* commands find out.                                                      *)
(*                                                                         *)
(* The daemon answers calls when it gets to them.  What comes back over    *)
(* the bus, signals and replies, comes in order (wire); the reader of the  *)
(* connection delivers it and is stuck while the signal channel is full,   *)
(* as the comment in Start says.  There are two callers: the watcher       *)
(* (Start until it has started it) and the handler of commands, which the  *)
(* transport calls one at a time.                                          *)
(*                                                                         *)
(* Operators marked "Variant" are actions with a plausible bug, by which   *)
(* the properties are tested.                                              *)
(***************************************************************************)
EXTENDS Naturals, Sequences, SequencesExt

CONSTANTS Services,     \* the daemon's APIs, preferred one first (services)
          Profiles,     \* profile ids
          Lists,        \* the lists of profiles a daemon may offer
          Placeholder,  \* placeholderProfiles
          Room,         \* capacity of the signal channel, 32
          MaxEvents,    \* bound: starts, stops and changes of the daemon
          MaxCommands,  \* bound: commands
          MaxTimeouts   \* bound: calls the daemon is too slow for

ASSUME ListsAssumption ==
  /\ Services \in Seq(STRING) /\ Services # <<>> /\ IsInjective(Services)
  /\ Lists \subseteq (SUBSET Profiles) \ {{}}
  /\ Placeholder \in SUBSET Profiles
ASSUME BoundsAssumption ==
  /\ Room \in Nat \ {0}
  /\ {MaxEvents, MaxCommands, MaxTimeouts} \subseteq Nat

None == "none"
ASSUME NoneAssumption == None \notin Profiles \cup Range(Services)

VARIABLES
  owned, dlist, dactive,  \* the daemon: names it owns, its profiles, the active one
  reqs,      \* calls on their way to it; those whose caller has given up are "nobody"'s
  wire,      \* signals and replies on their way to the connection
  signals,   \* the channel between reader and watcher
  closed,    \* no call succeeds any more: the connection is closed or the agent ends
  service,   \* p.service
  options,   \* p.options, as the entity shows them
  active,    \* p.active, as the entity shows it
  avail,     \* availability the plugin has published last
  wpc,       \* the watcher: "new", "select", "call", "wait", "apply", "done"
  trying,    \* service it is calling
  got,       \* the snapshot it has loaded
  hpc,       \* the handler: "idle", "set", "get", "publish"
  hcall,     \* what it wants: a service and a profile
  events, commands, timeouts,  \* so far
  newer,     \* history: what the watcher published while the handler was in "publish"
  overtaken  \* history: the profile shown is the handler's, and newer was different

daemonVars == <<owned, dlist, dactive, events>>
busVars    == <<reqs, wire, signals, closed, timeouts>>
pluginVars == <<service, options, active, avail>>
watchVars  == <<wpc, trying, got>>
cmdVars    == <<hpc, hcall, commands>>
histVars   == <<newer, overtaken>>
vars == <<daemonVars, busVars, pluginVars, watchVars, cmdVars, histVars>>

Names   == Range(Services)
Callers == {"watch", "cmd"}
Msg(type, to, svc, list, act) ==
  [type |-> type, to |-> to, svc |-> svc, list |-> list, active |-> act]

\* Signals of a type about each of the names in S, in any order.
ForEach(S, type, list, act) ==
  LET orders == {o \in SeqOf(S, Len(Services)) : IsInjective(o) /\ Range(o) = S}
  IN  {[i \in DOMAIN o |-> Msg(type, "signals", o[i], list, act)] : o \in orders}

Init ==
  /\ owned \in SUBSET Names
  /\ dlist \in Lists /\ dactive \in dlist
  /\ reqs = {} /\ wire = <<>> /\ signals = <<>> /\ closed = FALSE
  /\ service = None /\ options = Placeholder /\ active = None /\ avail = None
  /\ wpc = "new" /\ trying = 1 /\ got = <<>>
  /\ hpc = "idle" /\ hcall = <<>>
  /\ events = 0 /\ commands = 0 /\ timeouts = 0
  /\ newer = None /\ overtaken = FALSE
-----------------------------------------------------------------------------
(* The daemon and the bus *)

Emit(messages) == wire' = IF closed THEN wire ELSE wire \o messages
EmitSome(choices) == \E messages \in choices : Emit(messages)

DaemonStart ==
  /\ events < MaxEvents /\ owned = {}
  /\ owned' \in (SUBSET Names) \ {{}}
  /\ dlist' \in Lists /\ dactive' \in dlist'
  /\ EmitSome(ForEach(owned', "owner", {}, None))
  /\ events' = events + 1
  /\ UNCHANGED <<reqs, signals, closed, timeouts, pluginVars, watchVars, cmdVars, histVars>>

DaemonStop ==
  /\ events < MaxEvents /\ owned # {}
  /\ owned' = {}
  /\ EmitSome(ForEach(owned, "owner", {}, None))
  /\ events' = events + 1
  /\ UNCHANGED <<dlist, dactive, reqs, signals, closed, timeouts, pluginVars, watchVars,
                 cmdVars, histVars>>

\* Somebody else changes the profile, or the daemon its list; it says so with the
\* new values or only that the old ones are not valid any more.
DaemonChange ==
  /\ events < MaxEvents /\ owned # {}
  /\ dlist' \in Lists /\ dactive' \in dlist'
  /\ <<dlist', dactive'>> # <<dlist, dactive>>
  /\ \/ EmitSome(ForEach(owned, "changed", IF dlist' = dlist THEN {} ELSE dlist',
                                           IF dactive' = dactive THEN None ELSE dactive'))
     \/ EmitSome(ForEach(owned, "invalidated", {}, None))
  /\ events' = events + 1
  /\ UNCHANGED <<owned, reqs, signals, closed, timeouts, pluginVars, watchVars, cmdVars,
                 histVars>>

\* It answers a call, or the bus does for a name without owner.  A Set may be
\* rejected; one that is not is answered after its signals.
Answer(r) ==
  LET reply(type, list, act) ==
        IF r.to = "nobody" THEN <<>> ELSE <<Msg(type, r.to, r.svc, list, act)>>
  IN  /\ r \in reqs
      /\ reqs' = reqs \ {r}
      /\ \/ /\ r.svc \notin owned
            /\ Emit(reply("error", {}, None))
            /\ UNCHANGED dactive
         \/ /\ r.svc \in owned /\ r.what # "set"
            /\ Emit(reply("reply", dlist, dactive))
            /\ UNCHANGED dactive
         \/ /\ r.svc \in owned /\ r.what = "set"
            /\ Emit(reply("error", {}, None))
            /\ UNCHANGED dactive
         \/ /\ r.svc \in owned /\ r.what = "set" /\ r.val \in dlist
            /\ dactive' = r.val
            /\ \/ dactive = r.val /\ Emit(reply("reply", {}, None))
               \/ /\ dactive # r.val
                  /\ EmitSome({told \o reply("reply", {}, None) :
                                  told \in ForEach(owned, "changed", {}, r.val)})
      /\ UNCHANGED <<owned, dlist, events, signals, closed, timeouts, pluginVars, watchVars,
                     cmdVars, histVars>>

Call(caller, what, svc, val) ==
  IF closed THEN reqs ELSE reqs \cup {[to |-> caller, what |-> what, svc |-> svc, val |-> val]}

Stuck == wire # <<>> /\ wire[1].to = "signals" /\ Len(signals) = Room

\* The reader puts a signal into the channel.
DeliverSignal ==
  /\ wire # <<>> /\ wire[1].to = "signals"
  /\ Len(signals) < Room
  /\ signals' = Append(signals, wire[1])
  /\ wire' = Tail(wire)
  /\ UNCHANGED <<daemonVars, reqs, closed, timeouts, pluginVars, watchVars, cmdVars, histVars>>

\* A caller can give up: when the daemon is slow, the connection is closed, or the
\* reader is stuck.  What it has asked for may still be done; an answer that is on its way
\* already is dropped by the reader.
GiveUp(caller) ==
  /\ closed \/ Stuck \/ timeouts < MaxTimeouts
  /\ timeouts' = IF closed \/ Stuck THEN timeouts ELSE timeouts + 1
  /\ reqs' = {r \in reqs : r.to # caller}
               \cup {[r EXCEPT !.to = "nobody"] : r \in {q \in reqs : q.to = caller /\ q.what = "set"}}
  /\ LET replies == {i \in DOMAIN wire : wire[i].to = caller}
     IN  \/ replies = {} /\ UNCHANGED wire
        \/ \E i \in replies : wire' = RemoveAt(wire, i)

Replied(caller, type) == wire # <<>> /\ wire[1].to = caller /\ wire[1].type = type
-----------------------------------------------------------------------------
(* load, by Start or by the watcher in reload *)

StartLoad ==
  /\ wpc = "new"
  /\ wpc' = "call" /\ trying' = 1
  /\ UNCHANGED <<daemonVars, busVars, pluginVars, got, cmdVars, histVars>>

LoadCall ==
  /\ wpc = "call"
  /\ reqs' = Call("watch", "all", Services[trying], None)
  /\ wpc' = "wait"
  /\ UNCHANGED <<daemonVars, wire, signals, closed, timeouts, pluginVars, trying, got, cmdVars,
                 histVars>>

LoadReply ==
  /\ wpc = "wait" /\ Replied("watch", "reply")
  /\ got' = <<[svc |-> Services[trying], list |-> wire[1].list, active |-> wire[1].active]>>
  /\ wire' = Tail(wire)
  /\ wpc' = "apply"
  /\ UNCHANGED <<daemonVars, reqs, signals, closed, timeouts, pluginVars, trying, cmdVars,
                 histVars>>

\* The next API, or none is left.
LoadError ==
  /\ wpc = "wait"
  /\ \/ /\ Replied("watch", "error")
        /\ wire' = Tail(wire)
        /\ UNCHANGED <<reqs, timeouts>>
     \/ GiveUp("watch")
  /\ IF trying < Len(Services)
     THEN wpc' = "call" /\ trying' = trying + 1
     ELSE wpc' = "apply" /\ UNCHANGED trying
  /\ got' = <<>>
  /\ UNCHANGED <<daemonVars, signals, closed, pluginVars, cmdVars, histVars>>

\* What the watcher publishes is the newest profile it knows.
Shows(act) ==
  /\ active' = act
  /\ overtaken' = FALSE
  /\ newer' = IF hpc = "publish" THEN act ELSE newer

\* Variant: the service is kept when it cannot be read.
ApplyKeepsService ==
  /\ wpc = "apply"
  /\ \/ /\ got = <<>>
        /\ avail' = "unavailable"
        /\ UNCHANGED <<service, options, active, histVars>>
     \/ \E snap \in Range(got) :
          /\ service' = snap.svc
          /\ options' = snap.list
          /\ avail' = "online"
          /\ Shows(snap.active)
  /\ wpc' = "select" /\ got' = <<>>
  /\ UNCHANGED <<daemonVars, busVars, trying, cmdVars>>

\* The rest of Start, or of reload: applySnapshotLocked, or the entity becomes
\* unavailable.
Apply ==
  /\ wpc = "apply"
  /\ \/ /\ got = <<>>
        /\ service' = None
        /\ avail' = "unavailable"
        /\ UNCHANGED <<options, active, histVars>>
     \/ \E snap \in Range(got) :
          /\ service' = snap.svc
          /\ options' = snap.list
          /\ avail' = "online"
          /\ Shows(snap.active)
  /\ wpc' = "select" /\ got' = <<>>
  /\ UNCHANGED <<daemonVars, busVars, trying, cmdVars>>
-----------------------------------------------------------------------------
(* watch *)

\* Variant: the owner is asked for only when there is none yet.
WatchReloadUnowned ==
  /\ wpc = "select" /\ signals # <<>>
  /\ signals[1].type \in {"owner", "invalidated"}
  /\ signals' = Tail(signals)
  /\ IF service = None \/ signals[1].type = "invalidated"
     THEN wpc' = "call" /\ trying' = 1
     ELSE UNCHANGED <<wpc, trying>>
  /\ UNCHANGED <<daemonVars, reqs, wire, closed, timeouts, pluginVars, got, cmdVars, histVars>>

WatchReload ==
  /\ wpc = "select" /\ signals # <<>>
  /\ signals[1].type \in {"owner", "invalidated"}
  /\ signals' = Tail(signals)
  /\ wpc' = "call" /\ trying' = 1
  /\ UNCHANGED <<daemonVars, reqs, wire, closed, timeouts, pluginVars, got, cmdVars, histVars>>

\* applyChanges: only for the service in use.  A new list alone restates the profile.
WatchChange ==
  /\ wpc = "select" /\ signals # <<>>
  /\ signals[1].type = "changed"
  /\ LET m == signals[1]
     IN  \/ /\ m.svc = service
            /\ options' = IF m.list = {} THEN options ELSE m.list
            /\ IF m.active = None THEN UNCHANGED <<active, histVars>> ELSE Shows(m.active)
         \/ /\ m.svc # service
            /\ UNCHANGED <<options, active, histVars>>
  /\ signals' = Tail(signals)
  /\ UNCHANGED <<daemonVars, reqs, wire, closed, timeouts, service, avail, watchVars, cmdVars>>

\* Variant: the service is asked for again while there is one.
WatchTickAvailable ==
  /\ wpc = "select" /\ service # None
  /\ wpc' = "call" /\ trying' = 1
  /\ UNCHANGED <<daemonVars, busVars, pluginVars, got, cmdVars, histVars>>

WatchTick ==
  /\ wpc = "select" /\ service = None
  /\ wpc' = "call" /\ trying' = 1
  /\ UNCHANGED <<daemonVars, busVars, pluginVars, got, cmdVars, histVars>>

\* The signal channel of a closed connection is closed, or the context is over.
WatchExit ==
  /\ wpc = "select" /\ closed
  /\ wpc' = "done"
  /\ UNCHANGED <<daemonVars, busVars, pluginVars, trying, got, cmdVars, histVars>>

\* The plugin is stopped, or the context of the agent ends, which is the parent of all
\* contexts here; what the bus has still to deliver then is of no interest.
Stop ==
  /\ ~closed /\ avail # None
  /\ closed' = TRUE
  /\ wire' = <<>>
  /\ reqs' = {[r EXCEPT !.to = "nobody"] : r \in {q \in reqs : q.what = "set"}}
  /\ UNCHANGED <<daemonVars, signals, timeouts, pluginVars, watchVars, cmdVars, histVars>>
-----------------------------------------------------------------------------
(* handleCommand *)

\* Set of an option the entity offers; other commands are refused.
Command(val) ==
  /\ hpc = "idle" /\ commands < MaxCommands
  /\ service # None /\ val \in options
  /\ commands' = commands + 1
  /\ hcall' = <<[svc |-> service, val |-> val]>>
  /\ reqs' = Call("cmd", "set", service, val)
  /\ hpc' = "set"
  /\ UNCHANGED <<daemonVars, wire, signals, closed, timeouts, pluginVars, watchVars, histVars>>

\* Whatever became of it, the profile is read.
SetReply ==
  /\ hpc = "set"
  /\ Replied("cmd", "reply") \/ Replied("cmd", "error")
  /\ wire' = Tail(wire)
  /\ reqs' = Call("cmd", "get", hcall[1].svc, None)
  /\ hpc' = "get"
  /\ UNCHANGED <<daemonVars, signals, closed, timeouts, pluginVars, watchVars, hcall, commands,
                 histVars>>

GetReply ==
  /\ hpc = "get" /\ Replied("cmd", "reply")
  /\ hcall' = <<[hcall[1] EXCEPT !.val = wire[1].active]>>
  /\ wire' = Tail(wire)
  /\ hpc' = "publish" /\ newer' = None
  /\ UNCHANGED <<daemonVars, reqs, signals, closed, timeouts, pluginVars, watchVars, commands,
                 overtaken>>

\* Both calls share one deadline: if the first one misses it, the second one fails too.
CommandError ==
  /\ \/ /\ hpc = "get" /\ Replied("cmd", "error")
        /\ wire' = Tail(wire)
        /\ UNCHANGED <<reqs, timeouts>>
     \/ /\ hpc \in {"set", "get"}
        /\ GiveUp("cmd")
  /\ hpc' = "idle" /\ hcall' = <<>>
  /\ UNCHANGED <<daemonVars, signals, closed, pluginVars, watchVars, commands, histVars>>

CommandPublish ==
  /\ hpc = "publish"
  /\ \/ /\ service = hcall[1].svc
        /\ active' = hcall[1].val
        /\ overtaken' = (newer \notin {None, hcall[1].val})
     \/ /\ service # hcall[1].svc
        /\ UNCHANGED <<active, overtaken>>
  /\ hpc' = "idle" /\ hcall' = <<>>
  /\ UNCHANGED <<daemonVars, busVars, service, options, avail, watchVars, commands, newer>>
-----------------------------------------------------------------------------
LoadStep == StartLoad \/ LoadCall \/ LoadReply \/ LoadError \/ Apply
WatchStep == WatchReload \/ WatchChange \/ WatchTick \/ WatchExit
CommandStep == SetReply \/ GetReply \/ CommandError \/ CommandPublish

Next ==
  \/ DaemonStart \/ DaemonStop \/ DaemonChange
  \/ \E r \in reqs : Answer(r)
  \/ DeliverSignal
  \/ LoadStep \/ WatchStep \/ Stop
  \/ \E val \in Profiles : Command(val)
  \/ CommandStep

Spec == Init /\ [][Next]_vars

\* Goroutines run, the bus delivers, and calls end: they are answered, or given up.  A
\* select does not prefer the tick, every 5 seconds, to a signal for ever.
\* Nobody need start or change the daemon, send commands or stop the plugin.
Fairness ==
  /\ WF_vars(\E r \in reqs : Answer(r)) /\ WF_vars(DeliverSignal)
  /\ WF_vars(LoadStep) /\ WF_vars(WatchStep) /\ WF_vars(CommandStep)
  /\ SF_vars(WatchReload \/ WatchChange)

FairSpec == Spec /\ Fairness
-----------------------------------------------------------------------------
(* Properties *)

Snapshot == [svc : Names, list : Lists, active : Profiles]
Message  == [type : {"owner", "changed", "invalidated", "reply", "error"},
             to : Callers \cup {"signals"}, svc : Names, list : Lists \cup {{}},
             active : Profiles \cup {None}]

\* Besides the types: the channel is not longer than its capacity, and the entity is
\* online exactly while the plugin has a service, and then shows a profile.
TypeOK ==
  /\ owned \subseteq Names /\ dlist \in Lists /\ dactive \in dlist
  /\ reqs \subseteq [to : Callers \cup {"nobody"}, what : {"all", "set", "get"}, svc : Names,
                     val : Profiles \cup {None}]
  /\ wire \in Seq(Message) /\ signals \in Seq(Message) /\ Len(signals) <= Room
  /\ closed \in BOOLEAN
  /\ service \in Names \cup {None} /\ options \subseteq Profiles
  /\ active \in Profiles \cup {None} /\ avail \in {None, "online", "unavailable"}
  /\ wpc \in {"new", "select", "call", "wait", "apply", "done"} /\ trying \in DOMAIN Services
  /\ got \in {<<>>} \cup {<<s>> : s \in Snapshot}
  /\ hpc \in {"idle", "set", "get", "publish"}
  /\ hcall \in {<<>>} \cup {<<c>> : c \in [svc : Names, val : Profiles]}
  /\ events \in 0..MaxEvents /\ commands \in 0..MaxCommands /\ timeouts \in 0..MaxTimeouts
  /\ newer \in Profiles \cup {None} /\ overtaken \in BOOLEAN
  /\ avail = "online" <=> service # None
  /\ service # None => active # None

\* Nothing is on its way, and nobody is at work.
Quiet == /\ ~closed /\ wpc = "select" /\ hpc = "idle"
         /\ wire = <<>> /\ signals = <<>> /\ reqs = {}

\* When all is handled the entity is what the daemon is: unavailable if it is down;
\* otherwise, unless it could not be read and is to be tried again, with its profiles
\* and its active one, whoever changed it, after restarts, rejected commands, and
\* with signals that were queued behind newer answers.  Excepted is a handler that
\* published what it had read after the watcher had published something newer.
Mirrors ==
  Quiet => /\ owned = {} => avail = "unavailable"
           /\ service # None => /\ service \in owned /\ options = dlist
                                /\ active = dactive \/ overtaken

\* A daemon that is there to stay is found: the entity gets and stays online.
Recovers ==
  <>[](owned # {} /\ ~closed) => <>[](avail = "online")
=============================================================================
