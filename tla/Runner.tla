------------------------------- MODULE Runner -------------------------------
(***************************************************************************)
(* src/internal/plugins/runner: entities whose options and states are read *)
(* by scripts, and whose commands run scripts.                             *)
(*                                                                         *)
(* Everything a script reads or sets is the world: for each action the     *)
(* options there are and the one that is on.  A script reads the world at  *)
(* one moment and is heard of later.  Scripts run in goroutines that know  *)
(* nothing of each other: Start, the tickers of an action, the handler of  *)
(* its commands, and a refresh by tags after each command that succeeded.  *)
(* A job is the refresh of one action by one of them.                      *)
(*                                                                         *)
(* Operators marked "Variant" are actions with a plausible bug, by which   *)
(* the properties are tested.                                              *)
(***************************************************************************)
EXTENDS Naturals, Sequences, FiniteSets, Functions

CONSTANTS
  Order,       \* the actions, in the order of their keys
  Values,      \* option keys; of a switch, its two sides
  Lists,       \* the lists of options an options getter may find
  Static,      \* Static[a]: options in the config of a; of a switch, both sides
  Switches,    \* actions that are switches, the others are selects
  Discovers,   \* actions with an options getter
  Getters,     \* actions with state.source "getter", the others have "last_success"
  OptionTicks, \* actions with options_getter.refresh > 0
  StateTicks,  \* actions with getter.refresh > 0
  Optional,    \* actions with optional = true
  Refreshes,   \* Refreshes[a]: actions whose tags match the refresh tags of a
  AfterRefresh,\* actions with state.after_set "refresh", the others have "last_success"
  MaxEvents,   \* bound: changes of the world by others
  MaxCommands  \* bound: commands

Actions == Range(Order)

\* Validate asks for an action, the keys are those of a map.
ASSUME OrderAssumption == Order \in Seq(Actions) \ {<<>>} /\ IsInjective(Order)
ASSUME ConfigAssumption ==
  /\ Lists \subseteq (SUBSET Values) \ {{}}
  /\ Static \in [Actions -> SUBSET Values] /\ Refreshes \in [Actions -> SUBSET Actions]
  /\ OptionTicks \subseteq Discovers /\ StateTicks \subseteq Getters
  /\ Discovers \subseteq Actions /\ Getters \subseteq Actions
  /\ Discovers \cap Switches = {}
  /\ \A a \in Actions \ Discovers : Static[a] # {}
ASSUME BoundsAssumption == {MaxEvents, MaxCommands} \subseteq Nat

None == "none"
ASSUME NoneAssumption == None \notin Values

\* A job is known by who does it and the action it is about; n is that of a command.
Jobs == ({"start"} \X {0} \X Actions) \cup ({"options"} \X {0} \X OptionTicks)
          \cup ({"states"} \X {0} \X StateTicks) \cup ({"post"} \X (1..MaxCommands) \X Actions)
Of(j) == j[3]

VARIABLES
  opts, val,  \* the world: options there are of an action, and the one that is on
  runtimes,   \* p.runtimes
  found,      \* found[a]: discoveredOptions
  announced,  \* announced[a]: options of the entity, {} before it is registered
  shown,      \* shown[a]: state published last
  at,         \* action Start is at, an index of Order
  spc,        \* what it does: "add", "discover", "store", "build", "register",
              \* "initial"; or it is "done" or "failed"
  job,        \* job[j]: "off", to be "list"ed, "listed", "stored", "built";
              \* to be "read", "read?" (not mapped yet), "mapped"
  got,        \* got[j]: what it holds: options, or one value
  post,       \* post[n]: refresh after command n: "off", "delay", "options", "states"
  after,      \* after[n]: actions it refreshes
  hpc,        \* hpc[a]: the handler of commands: "idle", "set", "get", "publish"
  hval, hnum, \* value and number of its command
  events, commands,  \* so far
  fresh,      \* history: a refresh by tags has begun since the world changed last, and
              \* neither a failed script nor an older answer has come between
  outdated    \* history: the options announced last were not those stored by then

world   == <<opts, val, events>>
shows   == <<runtimes, found, announced, shown>>
starts  == <<at, spc>>
jobs    == <<job, got, post, after>>
handles == <<hpc, hval, hnum, commands>>
history == <<fresh, outdated>>
vars == <<world, shows, starts, jobs, handles, history>>

\* The host refuses the others.
Registered == {a \in Actions : announced[a] # {}}

\* optionMap.
Offered(a) == IF found[a] # {} THEN found[a] ELSE Static[a]

Init ==
  /\ opts \in [Actions -> SUBSET Values]
  /\ \A a \in Actions : IF a \in Discovers THEN opts[a] \in Lists ELSE opts[a] = Static[a]
  /\ val \in [Actions -> Values] /\ \A a \in Actions : val[a] \in opts[a]
  /\ runtimes = {} /\ found = [a \in Actions |-> {}]
  /\ announced = [a \in Actions |-> {}] /\ shown = [a \in Actions |-> None]
  /\ at = 1 /\ spc = "add"
  /\ job = [j \in Jobs |-> "off"] /\ got = [j \in Jobs |-> {}]
  /\ post = [n \in 1..MaxCommands |-> "off"] /\ after = [n \in 1..MaxCommands |-> {}]
  /\ hpc = [a \in Actions |-> "idle"] /\ hval = [a \in Actions |-> None]
  /\ hnum = [a \in Actions |-> 0]
  /\ events = 0 /\ commands = 0
  /\ fresh = {} /\ outdated = {}
-----------------------------------------------------------------------------
(* The world *)

WorldChanges(a) ==
  /\ events < MaxEvents
  /\ \E list \in IF a \in Discovers THEN Lists ELSE {Static[a]} :
       \E v \in list :
         /\ <<list, v>> # <<opts[a], val[a]>>
         /\ opts' = [opts EXCEPT ![a] = list] /\ val' = [val EXCEPT ![a] = v]
  /\ events' = events + 1
  /\ fresh' = fresh \ {a}
  /\ UNCHANGED <<shows, starts, jobs, handles, outdated>>
-----------------------------------------------------------------------------
(* Jobs *)

\* Tickers begin again.
Rest(j) == CASE j[1] = "options" -> "list" [] j[1] = "states" -> "read" [] OTHER -> "off"

JobGoes(j, to, holds) ==
  /\ job' = [job EXCEPT ![j] = to]
  /\ got' = [got EXCEPT ![j] = holds]
  /\ UNCHANGED <<post, after>>

JobEnds(j) == JobGoes(j, Rest(j), {})

\* An answer that was old when it was used.
Late(a, answer, now) == fresh' = IF answer = now THEN fresh ELSE fresh \ {a}

\* A script fails, or what it says cannot be read.
JobFails(j) ==
  /\ j[1] = "post" /\ job[j] \in {"list", "read"}
  /\ JobEnds(j)
  /\ fresh' = fresh \ {Of(j)}
  /\ UNCHANGED <<world, shows, starts, handles, outdated>>

\* refreshDiscoveredOptions.
OptionsRead(j) ==
  /\ job[j] = "list"
  /\ JobGoes(j, "listed", opts[Of(j)])
  /\ UNCHANGED <<world, shows, starts, handles, history>>

\* Variant: lists of the same length are taken for equal.
OptionsStoreByLength(j) ==
  LET a == Of(j)
  IN  /\ job[j] = "listed"
      /\ IF Cardinality(found[a]) = Cardinality(got[j])
         THEN JobEnds(j) /\ UNCHANGED <<found, fresh>>
         ELSE /\ found' = [found EXCEPT ![a] = got[j]]
              /\ Late(a, got[j], opts[a])
              /\ JobGoes(j, "stored", {})
      /\ UNCHANGED <<world, runtimes, announced, shown, starts, handles, outdated>>

\* Equal options are not announced again.
OptionsStore(j) ==
  LET a == Of(j)
  IN  /\ job[j] = "listed"
      /\ IF found[a] = got[j]
         THEN JobEnds(j) /\ UNCHANGED <<found, fresh>>
         ELSE /\ found' = [found EXCEPT ![a] = got[j]]
              /\ Late(a, got[j], opts[a])
              /\ JobGoes(j, "stored", {})
      /\ UNCHANGED <<world, runtimes, announced, shown, starts, handles, outdated>>

\* buildEntity takes the options that are stored by now.
OptionsBuild(j) ==
  /\ job[j] = "stored"
  /\ JobGoes(j, "built", Offered(Of(j)))
  /\ UNCHANGED <<world, shows, starts, handles, history>>

\* Meanwhile others may have stored other options.
Announce(a, list) ==
  /\ announced' = [announced EXCEPT ![a] = list]
  /\ outdated' = IF list = Offered(a) THEN outdated \ {a} ELSE outdated \cup {a}

OptionsUpdate(j) ==
  LET a == Of(j)
  IN  /\ job[j] = "built"
      /\ \/ a \in Registered /\ Announce(a, got[j])
         \/ a \notin Registered /\ UNCHANGED <<announced, outdated>>
      /\ JobEnds(j)
      /\ UNCHANGED <<world, runtimes, found, shown, starts, handles, fresh>>

\* refreshGetterState, and the same in Start.
StateRead(j) ==
  /\ job[j] = "read" /\ Of(j) \in Getters
  /\ JobGoes(j, "read?", {val[Of(j)]})
  /\ UNCHANGED <<world, shows, starts, handles, history>>

\* A select's value has to be one of the options known now.
StateMap(j) ==
  LET a == Of(j)
  IN  /\ job[j] = "read?"
      /\ \/ got[j] \subseteq Offered(a) /\ JobGoes(j, "mapped", got[j])
         \/ ~ got[j] \subseteq Offered(a) /\ j[1] # "start" /\ JobEnds(j)
      /\ UNCHANGED <<world, shows, starts, handles, history>>

StatePublish(j) ==
  LET a == Of(j)
  IN  /\ job[j] = "mapped"
      /\ \/ /\ a \in Registered
            /\ \E v \in got[j] : shown' = [shown EXCEPT ![a] = v]
            /\ Late(a, got[j], {val[a]})
         \/ a \notin Registered /\ UNCHANGED <<shown, fresh>>
      /\ JobEnds(j)
      /\ UNCHANGED <<world, runtimes, found, announced, starts, handles, outdated>>
-----------------------------------------------------------------------------
(* Start *)

Here == Order[at]
StartJob == <<"start", 0, Here>>

StartAdd ==
  /\ spc = "add"
  /\ runtimes' = runtimes \cup {Here}
  /\ spc' = IF Here \in Discovers THEN "discover" ELSE "build"
  /\ UNCHANGED <<world, found, announced, shown, at, jobs, handles, history>>

\* discoverOptions: one of three attempts succeeds.
StartDiscover ==
  /\ spc = "discover"
  /\ JobGoes(StartJob, "off", opts[Here])
  /\ spc' = "store"
  /\ UNCHANGED <<world, shows, at, handles, history>>

StartStore ==
  /\ spc = "store"
  /\ found' = [found EXCEPT ![Here] = got[StartJob]]
  /\ Late(Here, got[StartJob], opts[Here])
  /\ spc' = "build"
  /\ UNCHANGED <<world, runtimes, announced, shown, at, jobs, handles, outdated>>

GoOn ==
  IF at < Len(Order) THEN at' = at + 1 /\ spc' = "add" ELSE at' = at /\ spc' = "done"

\* Variant: the action is started without options.
StartUndiscoveredAnyway ==
  /\ spc = "discover"
  /\ spc' = "build"
  /\ UNCHANGED <<world, shows, at, jobs, handles, history>>

\* None does: options of the config are used; without any, an optional action is left
\* out and another one ends Start, upon which the manager closes the scope.
StartUndiscovered ==
  /\ spc = "discover"
  /\ \/ /\ Static[Here] # {}
        /\ spc' = "build" /\ UNCHANGED <<at, runtimes, announced>>
     \/ /\ Static[Here] = {} /\ Here \in Optional
        /\ runtimes' = runtimes \ {Here}
        /\ GoOn /\ UNCHANGED announced
     \/ /\ Static[Here] = {} /\ Here \notin Optional
        /\ spc' = "failed" /\ UNCHANGED <<at, runtimes>>
        /\ announced' = [a \in Actions |-> {}]
  /\ UNCHANGED <<world, found, shown, jobs, handles, history>>

StartBuild ==
  /\ spc = "build"
  /\ JobGoes(StartJob, "off", Offered(Here))
  /\ spc' = "register"
  /\ UNCHANGED <<world, shows, at, handles, history>>

\* Commands may come from here on.
StartRegister ==
  /\ spc = "register"
  /\ Announce(Here, got[StartJob])
  /\ JobGoes(StartJob, "read", {})
  /\ spc' = "initial"
  /\ UNCHANGED <<world, runtimes, found, shown, at, handles, fresh>>

\* publishInitialState without a getter, or it fails or says what is not known.
StartNoState ==
  /\ \/ job[StartJob] = "read"
     \/ job[StartJob] = "read?" /\ ~ got[StartJob] \subseteq Offered(Here)
  /\ shown' = [shown EXCEPT ![Here] = None]
  /\ fresh' = fresh \ {Here}
  /\ JobEnds(StartJob)
  /\ UNCHANGED <<world, runtimes, found, announced, starts, handles, outdated>>

\* The tickers of the action begin.
StartTickers ==
  /\ spc = "initial" /\ job[StartJob] = "off"
  /\ job' = [j \in Jobs |-> CASE j = <<"options", 0, Here>> -> "list"
                              [] j = <<"states", 0, Here>> -> "read"
                              [] OTHER -> job[j]]
  /\ GoOn
  /\ UNCHANGED <<world, shows, got, post, after, handles, history>>
-----------------------------------------------------------------------------
(* handleCommand *)

HandlerGoes(a, to, v) ==
  /\ hpc' = [hpc EXCEPT ![a] = to]
  /\ hval' = [hval EXCEPT ![a] = v]
  /\ UNCHANGED <<hnum, commands>>

HandlerReturns(a) ==
  /\ hpc' = [hpc EXCEPT ![a] = "idle"] /\ hval' = [hval EXCEPT ![a] = None]
  /\ hnum' = [hnum EXCEPT ![a] = 0]
  /\ UNCHANGED commands

\* A command for an option that is known now; others are refused.
Command(a, v) ==
  /\ hpc[a] = "idle" /\ commands < MaxCommands
  /\ a \in Registered /\ v \in Offered(a)
  /\ commands' = commands + 1
  /\ hpc' = [hpc EXCEPT ![a] = "set"] /\ hval' = [hval EXCEPT ![a] = v]
  /\ hnum' = [hnum EXCEPT ![a] = commands + 1]
  /\ UNCHANGED <<world, shows, starts, jobs, history>>

\* The script sets the value, or it does not whatever it says.  After a success a
\* switch reads its state; a select publishes what it was told.
SetterRuns(a) ==
  /\ hpc[a] = "set"
  /\ val' \in {val, [val EXCEPT ![a] = hval[a]]} /\ val'[a] \in opts[a]
  /\ fresh' = IF val' = val THEN fresh ELSE fresh \ {a}
  /\ \/ HandlerReturns(a)
     \/ HandlerGoes(a, IF a \in Switches \cap Getters \cap AfterRefresh THEN "get" ELSE "publish",
                    hval[a])
  /\ UNCHANGED <<opts, events, shows, starts, jobs, outdated>>

\* A getter that fails leaves what the switch was told.
SwitchGets(a) ==
  /\ hpc[a] = "get"
  /\ \E v \in {val[a], hval[a]} : HandlerGoes(a, "publish", v)
  /\ UNCHANGED <<world, shows, starts, jobs, history>>

HandlerPublishes(a) ==
  /\ hpc[a] = "publish"
  /\ \/ /\ a \in Registered
        /\ shown' = [shown EXCEPT ![a] = hval[a]]
        /\ Late(a, hval[a], val[a])
        /\ IF a \in AfterRefresh
           THEN /\ post' = [post EXCEPT ![hnum[a]] = "delay"]
                /\ after' = [after EXCEPT ![hnum[a]] = Refreshes[a]]
           ELSE UNCHANGED <<post, after>>
     \/ a \notin Registered /\ UNCHANGED <<shown, fresh, post, after>>
  /\ HandlerReturns(a)
  /\ UNCHANGED <<world, runtimes, found, announced, starts, job, got, outdated>>
-----------------------------------------------------------------------------
(* refreshByTags, two seconds after a command *)

JobsOff(n) == \A a \in Actions : job[<<"post", n, a>>] = "off"

\* The jobs of n for the actions of a set begin.
Launch(n, actions, as) ==
  /\ job' = [j \in Jobs |-> IF j[1] = "post" /\ j[2] = n /\ Of(j) \in actions THEN as ELSE job[j]]
  /\ UNCHANGED got

\* Variant: options are not refreshed.
PostOptionsNot(n) ==
  /\ post[n] = "delay"
  /\ post' = [post EXCEPT ![n] = "options"]
  /\ after' = [after EXCEPT ![n] = @ \cap runtimes]
  /\ fresh' = fresh \cup after'[n]
  /\ UNCHANGED <<job, got, world, shows, starts, handles, outdated>>

\* First the options of all actions that are there by now ...
PostOptions(n) ==
  /\ post[n] = "delay"
  /\ post' = [post EXCEPT ![n] = "options"]
  /\ after' = [after EXCEPT ![n] = @ \cap runtimes]
  /\ Launch(n, after'[n] \cap Discovers, "list")
  /\ fresh' = fresh \cup after'[n]
  /\ UNCHANGED <<world, shows, starts, handles, outdated>>

\* ... then their states.
PostStates(n) ==
  /\ post[n] = "options" /\ JobsOff(n)
  /\ post' = [post EXCEPT ![n] = "states"]
  /\ Launch(n, after[n] \cap Getters, "read")
  /\ UNCHANGED <<world, shows, starts, after, handles, history>>

PostEnds(n) ==
  /\ post[n] = "states" /\ JobsOff(n)
  /\ post' = [post EXCEPT ![n] = "off"] /\ after' = [after EXCEPT ![n] = {}]
  /\ UNCHANGED <<world, shows, starts, job, got, handles, history>>
-----------------------------------------------------------------------------
JobStep(j) ==
  \/ JobFails(j)
  \/ OptionsRead(j) \/ OptionsStore(j) \/ OptionsBuild(j) \/ OptionsUpdate(j)
  \/ StateRead(j) \/ StateMap(j) \/ StatePublish(j)
StartStep ==
  \/ StartAdd \/ StartDiscover \/ StartStore \/ StartUndiscovered
  \/ StartBuild \/ StartRegister \/ StartNoState \/ StartTickers
HandlerStep(a) == SetterRuns(a) \/ SwitchGets(a) \/ HandlerPublishes(a)
PostStep(n) == PostOptions(n) \/ PostStates(n) \/ PostEnds(n)

Next ==
  \/ \E a \in Actions : WorldChanges(a)
  \/ \E j \in Jobs : JobStep(j)
  \/ StartStep
  \/ \E a \in Actions, v \in Values : Command(a, v)
  \/ \E a \in Actions : HandlerStep(a)
  \/ \E n \in 1..MaxCommands : PostStep(n)

Spec == Init /\ [][Next]_vars

\* Goroutines run and scripts end, by a timeout at the latest.  Nobody need send commands
\* or change the world, and scripts need not succeed but for those of tickers, now and
\* then.
Fairness ==
  /\ WF_vars(StartStep \/ \E j \in Jobs : j[1] = "start" /\ JobStep(j))
  /\ \A j \in Jobs : j[1] \in {"options", "states"} => WF_vars(JobStep(j))
  /\ \A a \in Actions : WF_vars(HandlerStep(a))
  /\ \A n \in 1..MaxCommands :
       WF_vars(PostStep(n) \/ \E a \in Actions : JobStep(<<"post", n, a>>))

FairSpec == Spec /\ Fairness
-----------------------------------------------------------------------------
(* Properties *)

\* Besides the types: when Start is done, the actions it has not left out are registered
\* with options, and no others are; a handler has a number, and no two have the same.
TypeOK ==
  /\ opts \in [Actions -> SUBSET Values] /\ val \in [Actions -> Values]
  /\ \A a \in Actions : val[a] \in opts[a]
  /\ runtimes \subseteq Actions
  /\ found \in [Actions -> SUBSET Values] /\ announced \in [Actions -> SUBSET Values]
  /\ shown \in [Actions -> Values \cup {None}]
  /\ at \in DOMAIN Order
  /\ spc \in {"add", "discover", "store", "build", "register", "initial", "done", "failed"}
  /\ job \in [Jobs -> {"off", "list", "listed", "stored", "built", "read", "read?", "mapped"}]
  /\ got \in [Jobs -> SUBSET Values]
  /\ post \in [1..MaxCommands -> {"off", "delay", "options", "states"}]
  /\ after \in [1..MaxCommands -> SUBSET Actions]
  /\ hpc \in [Actions -> {"idle", "set", "get", "publish"}]
  /\ hval \in [Actions -> Values \cup {None}] /\ hnum \in [Actions -> 0..commands]
  /\ events \in 0..MaxEvents /\ commands \in 0..MaxCommands
  /\ fresh \subseteq Actions /\ outdated \subseteq Actions
  /\ spc = "done" => runtimes = Registered
  /\ \A a \in Actions : hpc[a] # "idle" => hnum[a] # 0
  /\ \A a, b \in Actions : a # b /\ hnum[a] = hnum[b] => hnum[a] = 0

Quiet == /\ spc = "done"
         /\ \A a \in Actions : hpc[a] = "idle"
         /\ \A n \in 1..MaxCommands : post[n] = "off"
         /\ \A j \in Jobs : job[j] = Rest(j) \/ job[j] = "off"

\* When a refresh by tags has gone through undisturbed and all is quiet again, the
\* entity is what the scripts say, options and state, also a state that only the new
\* options know and a setter that did not do what it said.  Excepted are options that
\* were announced when others had been stored already: later refreshes find the stored
\* ones up to date and announce nothing.
RefreshRepairs ==
  Quiet => \A a \in fresh \cap Registered :
             /\ a \in Discovers \ outdated => announced[a] = opts[a]
             /\ a \in Getters => shown[a] = val[a]

\* What is read regularly is right in the end, whatever is in progress at the same
\* time, with the same exception.
TickersSettle ==
  \A a \in Actions :
    /\ a \in OptionTicks => <>[](a \in Registered \ outdated => announced[a] = opts[a])
    /\ a \in StateTicks /\ (a \in Discovers => a \in OptionTicks) =>
         <>[](spc = "done" /\ a \in Registered => shown[a] = val[a])
=============================================================================
