# Verification of home-pc-agent

TLA+ models of the concurrent core of `home-pc-agent`, the TLC runs that check
them on small instances, and TLAPS proofs that hold for every instance. Paths are
relative to `src/internal/` unless they begin with `src/`.

## 1. The system

The agent exposes controls of a PC to Home Assistant. Plugins own *entities*
(switches, selects, buttons, sensors); a transport (MQTT) announces them, publishes
their states and turns messages into commands. The core keeps the two apart.

| Part | State | Operations | Talks to |
| --- | --- | --- | --- |
| Event bus (`core/events/bus.go`) | set of subscriptions; per subscription a queue, a token channel, a buffered channel | `Publish`, `Subscribe`, end of a subscription by its context | everything that publishes; transports |
| Registry (`core/registry.go`) | entities by id | `Register`, `Update`, `Remove`, `List` | bus, after it has unlocked |
| Command router (`core/command_router.go`) | one handler per entity id | `Subscribe`, unsubscribe, `Route` | calls the handler without its lock |
| Plugin scope (`core/plugin_scope.go`) | closed flag, owned ids, unsubscribe functions, an errgroup of tasks | the six calls of `plugin.PluginHost`, `Close` | registry, router, bus |
| Plugin manager (`core/plugin_manager.go`) | running plugins | `Start` (all or nothing), `Stop` | plugins, scopes |
| Transport manager (`core/transport_manager.go`) | started transports | `Start` (skips what is started), `Stop` | transports |
| Runtime (`core/runtime.go`) | current generation, a mutex | `Run`, `reloadFromDisk` | both managers, watcher, config |
| Config watcher (`config/watcher.go`) | debounce timer | event loop, `Close` | fsnotify; calls `reloadFromDisk` |
| Config and catalog (`config/config.go`, `plugins/catalog`) | none | load, validate, refuse conflicting plugins | runtime, command line |
| MQTT transport (`transport/mqtt`) | known entities, connection, command queues and workers | event loop, snapshot on connect, command loops | bus, registry, router, broker |
| Power profile plugin (`plugins/powerprofile_ppd`) | service in use, options, active profile | signals, retry, commands | D-Bus daemon, scope |
| Inhibit plugin (`plugins/inhibit_freedesktop`) | cookie, active, availability per switch | commands, ping, stop | D-Bus services, scope |
| Runner plugin (`plugins/runner`) | options and selected state per action | commands, refreshes, getters | external commands, scope |
| Power plan plugin (`plugins/powerplan`) | modes by key | discovery, commands, polling | `powercfg`, scope |
| Fan control plugin (`plugins/fancontrol`) | profiles by key | discovery, commands, polling | FanControl over a named pipe, scope |
| Display, session plugins | nothing | commands, polling | the operating system |
| Command line, services (`src/cmd`, `app`, `service`, `windows`) | none | one-shot commands; signal to context | runtime, service managers |

What is hard:

* **Interleavings.** A plugin's `Start`, tasks and command handlers run in goroutines
  of their own and may call the scope at any time, also while `Close` is at work and
  after it. The bus is published to by all of them. Reloads run in timer goroutines
  beside `Run`.
* **Ordering.** The registry publishes after it has unlocked; the bus hands events
  through a queue, a goroutine and a channel; `Close` works without the scope's lock.
* **Partial failure.** Every start and stop in a reload may fail, some after others
  have succeeded; one task's failure cancels its siblings; `Close` may give up.
* **Timeouts and late events.** A debounce timer that has fired cannot be stopped;
  handlers may outlive their plugin; a scope may be closed with tasks still running.
* **Losing the other side.** Broker, D-Bus services, FanControl and external commands
  come and go.
* **Names.** Keys, option names, payloads and entity ids are made from one another by
  rules that collide; what is announced must be what a command is understood as.

What makes each part correct is the list of properties in section 4. Every hazard,
with its line and the properties that cover it or the reason why none does, is in
`PROJECT.json` under `hazards`.

## 2. Modules

| Module | Models | Runs |
| --- | --- | --- |
| `Mailbox` | what `Bus.Subscribe` promises its caller (abstract) | as a property of `bus` |
| `EventBus` | `core/events/bus.go` | `bus` |
| `EventBus_proofs` | proofs about `EventBus`, the refinement of `Mailbox` included | |
| `EntityFeed` | what registry and scopes promise a subscriber of the bus (abstract) | in `PluginScope_proofs` |
| `PluginScope` | `plugin_scope.go`, `registry.go`, `command_router.go` | `scope` |
| `PluginScope_proofs` | proofs about `PluginScope`, the refinement of `EntityFeed` included | |
| `Runtime` | `runtime.go`, `plugin_manager.go`, `transport_manager.go`, `config/watcher.go` | `runtime` |
| `Runtime_proofs` | proofs about `Runtime` | |
| `MqttPublisher` | `transport/mqtt/mqtt.go`: start, stop, publications | `mqtt`, `mqtt_reconnect` |
| `MqttPublisher_proofs` | proofs about `MqttPublisher` | |
| `CommandLanes` | what the command half of it promises to handlers (abstract) | as a property of `mqtt_commands` |
| `MqttCommands` | `transport/mqtt/mqtt.go`: callback, command loop, workers | `mqtt_commands` |
| `PowerProfile` | `plugins/powerprofile_ppd` | `powerprofile` |
| `PowerProfile_proofs` | proofs about `PowerProfile` | |
| `Inhibitor` | `plugins/inhibit_freedesktop` | `inhibitor`, `inhibitor_on` |
| `Inhibitor_proofs` | proofs about `Inhibitor` | |
| `Runner` | `plugins/runner`: start, commands, refreshes | `runner` |
| `Runner_proofs` | proofs about `Runner` | |
| `Entity` | `core/entity/entity.go`: options of a select; the keys plugins make | used by the next three |
| `PowerPlan` | `plugins/powerplan` | `plugins` |
| `FanControl` | `plugins/fancontrol`, its pipe included | `plugins` |
| `RunnerCommands` | `plugins/runner`: configuration, options, payloads, parameters, states; the commands of `transport/mqtt/discovery.go` | `plugins` |
| `Catalog` | `plugins/catalog`, `config/config.go`: validation, and the start of what passed it | `plugins`, `providers` |
| `MCPlugins` | the last four beside each other | `plugins`, `providers` |
| `Plugins_proofs` | proofs about these four, about `Entity`, and about `MqttCommands`, the refinement of `CommandLanes` included | |
| `MCEventBus`, `MCPluginScope`, `MCRuntime`, `MCMqttPublisher`, `MCMqttCommands`, `MCPowerProfile`, `MCInhibitor`, `MCRunner` | the other modules the runs check, with symmetry where there is any | |

The modules compose by assume/guarantee rather than by one product state space. `EventBus` shows
that a subscriber sees publishes in order and without loss. `PluginScope` builds on this: its
`view` is that of a subscriber that has applied every event so far. `Runtime` takes a generation
(one bus, one registry, one router) as a set of running plugins and transports and decides when
generations start and stop. `MqttPublisher` has a small core of its own, in which an event
follows its change of the registry before the next change of the same entity, as `PluginScope`
proves (`ImplementsFeed`), and a mailbox as `EventBus` proves; its transport starts before the
plugins and stops after them, as `Runtime` shows (`TransportsFirst`; after a failed `Stop` of
the transport, which that property excepts, the plugins are on without it). `MqttCommands` shares no
state with it but the context and `known`, which only refuses commands. `PowerProfile`,
`Inhibitor`, `Runner`, `PowerPlan` and `FanControl` are plugins of a scope: what they publish is
what the host was last told, and their handlers are called one at a time, as `MqttCommands`
calls them. `RunnerCommands` is one action of the runner seen alone, from the file to the
script, where `Runner` has the interleavings of several. `Catalog` decides which generations
`Runtime` may be asked to start.

In each module the operators marked *Variant* or *Mutant* are not part of `Next`. Each is one
action of the model with a plausible bug in it (a forgotten lock, test or reset).
`PROJECT.json` names, for every property of every run, the variant that breaks it.

### EventBus

A step is one critical section of `subscription.mu`, one channel operation, or one
acquisition or release of `EventBus.mu`. `ppc`, `todo`, `owes` are where `Publish` is:
holding the read lock, with the subscriptions still to visit, and the one whose token
has yet to be sent (`enqueue` signals after it unlocks). `rpc` and `hand` are where
`run` is and the event it holds between queue and channel. `upc` is the goroutine that
waits for the context. `sync.RWMutex` is `CanRLock`/`CanLock`: a waiting writer keeps
new readers out. `Subscribe` takes its lock in one step (nothing is visible in
between); the end of a subscription has the steps *woken*, *locked and cleared*,
*done closed and unlocked*. An event is its publisher and a number. `accepted` and
`received` are history variables. Buffers below 1 are made 1 by the code, hence
`Buffer \in Nat \ {0}`.

### PluginScope

A scope is one run of a plugin. `s.mu` is held through each call, so a call is one
step unless others can see a state in between: `RegisterEntity`, `UpdateEntity` and
the removals of `Close` change the registry in one step and publish in another
(`pending` is the event in between). `Close` is split at every call it makes after
unlocking. Any call is possible in any state in which the code would not return an
error, from `Start`, a task or a handler, also a late one. Tasks may return, fail or
panic at any time; `CloseTimeout` stands for the caller's context and the 30 s.
`NewPluginScope` states what the callers give: `PluginManager` runs one `Start` or
`Stop` at a time, and plugins of one config have disjoint ids (`Declares`). A
subscriber's `view` applies each event when it is published; `misordered` collects
events that a subscriber could not make sense of.

### Runtime

`r.mu` is held by `Run` or by one reload, whose progress is `job`: the goal of the
current call of a generation (`run`, `switch`, `restore`; `retire`, `discard`,
`shutdown`), the generation, and whether its transports or its plugins are next. One
call of a manager is one step, with the choice of which plugin or transport fails;
`PluginManagerStart` includes the clean-up of a failed start, and the case of a plugin
that is "already running" with the early return of the code, which does not clean up.
`StopTransports` leaves failed ones in `started`, not in `up`, and adds them to the history
`dead`. The watcher is the loop, the debounce timer and the goroutines of fired timers
waiting for `r.mu`; files are a valid config or `Bad` (unreadable, half-written or
invalid). `faults` remembers which kinds of calls have failed, for the properties that
promise something only in their absence.

### MqttPublisher

Goroutine 0 is `eventLoop`, goroutine `n` the `OnConnect` handler of connection `n`.
`work[g]` is what `g` has still to do, as the small steps of its handlers: a section of
`t.mu` (`Know`), a look at the registry (`List`), the publication of one topic
(`PublishEntity`, `PublishStatus`); they interleave with each other, with the plugins
and with the connection. `retained` is the broker, `store` what the client library keeps
to send again. `Send` is `publishRaw` over a client with `AutoReconnect`, `ConnectRetry` and
QoS 1 (`mqtt.go:78-84`): before `Connect` and after `Disconnect` a publication is skipped;
while the client makes its first connection it is kept, and forgotten when that begins (a
clean session), so the model drops it; while the client reconnects it is kept, although
`publishRaw` gives up waiting. A connection that breaks during a publication leaves it with
the broker or not, and in `store`; the first one may also have it forgotten. `Resend` sends
one kept message after a reconnect, any of them, beside `OnConnect` and `eventLoop`. `said`
is what the plugins last said of each topic, the reference the properties compare with.
`lost` and `overtaken` name the topics for which the code has no defence: the last message
will not get through, or older data came after newer, from `OnConnect`, whose list was old
by then, or from `Resend`. `Cancel` is the context of `Run`, which ends before anything is
stopped.

Simplifications: equal messages in `store` count once; what is sent again is kept until it is
acknowledged, and a connection that breaks before that is as if it had not been sent; the
last connection of `MaxConnects` does not break, so what is shown once it is up is final;
the look at `t.known` and the publication behind it are one step, since only
a removal could come between and nobody reads that entity's topics then; the legacy
discovery topic, on which no other topic depends, is left out; calls of the host on one
entity do not overlap, which the scope's mutex ensures.

### MqttCommands

`commands`, `queue[e]` are the channels, `hand` what `commandLoop` holds between them,
`busy[e]` what the handler of `e` works on. Every `select` of the code is a choice
between the actions whose channel is ready; `default` is possible only when the channel
is full and the context alive. Handlers need not return. Commands may still come after
a `Stop` that has failed, since the client is not disconnected then. In `CommandLanes`
an entity has a set of numbered commands on their way, of which the smallest is begun and any
may be lost at any time; `MqttCommands` maps to it by collecting the numbers that are in queue,
hand and channel. That the set says enough is because commands are numbered as they come.
Its specification is `MqttSpec`, so that the module can be extended beside those of the plugins.

### PowerProfile

The daemon owns any of the two names and answers requests (`reqs`) when it gets to them.
The bus delivers in order: `wire` has the signals and replies on their way, the reader of
the connection moves signals to the channel `signals` and is stuck while it is full, so a
reply behind them does not arrive either. Two goroutines call: the watcher (`wpc`, which
is `Start` at first) goes through the APIs in `load`, applies what it got, and handles
one signal or tick at a time; the handler of commands (`hpc`) sets, reads, and publishes.
A call ends by a reply, by a timeout (`GiveUp`, after which a late reply goes to nobody), or because
the connection or the context is over (`closed`); a `Set` that was given up may still be done. A
change that concerns both names is signalled for each, in any order. `newer` and `overtaken`
are history: the handler reads the profile, and the watcher may publish a newer one
before the handler publishes its own.

Left out: order and wording of the options, the unsubscription of signals, a service that
is started on demand by a call (`Set` and `Get` of a command, and `Peer.Ping` below, do
not set `FlagNoAutoStart`; a daemon that starts so is a `DaemonStart`).

### Inhibitor

`mu` says who holds `p.mu`, `todo` which services the holder has still to call: a refresh
all, a command one, `Stop` those that are on. A call is one step; it succeeds while the
service is up, fails when it is down or the context or connection is over, and does
neither while it hangs. `held` is what the services hold for the agent; they forget it
when they stop and when the connection is closed. `Start` subscribes to commands of a
switch before it shows the switch as off, so a command may be handled in between
(`early`). `Stop` waits for the lock while the refresh loop still runs, because the
scope is closed after it. Cookies are the numbers of the commands that got them.

Left out: host calls that fail, a cookie of another type, the unlocked write of
`p.inhibitors` in `Start` beside handlers that read it, and what a service does with a
call after the plugin has given up on it (the context is over then, and the connection
will be).

### Runner

The scripts read and set a world (`opts`, `val`); each sees it at one moment and is heard
of later. A *job* is the refresh of one action by one goroutine: `Start`, the ticker of
its options, the ticker of its state, or the refresh by tags after command `n`. `job[j]`
is how far it is: options are listed, stored under `runtime.mu`, built into an entity
from what is stored by then, and announced; a state is read, mapped to an option known by
then, and published. `refreshByTags` runs the options of all its actions, waits, and runs
the states. `spc` is `Start`, which puts an action into `p.runtimes` before it discovers
its options and registers it, so refreshes reach it meanwhile and the host refuses them.
`fresh` and `outdated` are history: whether a refresh by tags has gone through since the
world changed, and whether the options announced last were not those stored by then.

Left out: buttons, `state.source = "none"` (a state that is published and never read),
the limit of four scripts at once, an options getter that prints an empty list, and the
end of the plugin, whose loops and late calls are those of any scope.

### Entity

A string is a sequence of words, so that keys put together with `_` collide as they do in the
program. `OptionValue` and `OptionName` are the functions of that name, `ValidSelect` what
`Entity.Validate` asks of options. `FreeKey` and `OptionsOf` are what the power plan and fan
control plugins do alike: number a key until it is free, and sort a map into options. `Numeral`
writes the numbers up to `MaxNumber` as words. Case, slugs and sort order are data given by the
instance (`Slug`, `NameRank`, `WordRank`, for `FanControl` also `Fold` and `Friendly`).

### PowerPlan

`Enumerate` finds one scheme after the other and may fail at any of them
(`DiscoveryFails`: the configured modes serve alone). `planReader` is `Start`'s own
`publishActiveState` and then the refresh: it reads the active scheme, which takes an
external command, and publishes later. `planCmd` is the command handler, between its three
calls of the host. The user switches and deletes schemes meanwhile.

### FanControl

Two routines have a connection each: `poll` is `Start` and then the refresh, `cmd` the
handler. `goal[a]` is the call the routine is in, `at[a]` how far it is: opening the pipe,
starting FanControl, waiting for the pipe, waiting for the reply. Every error leads to
`Fails`, which does what the caller does about it. `Deadline` is the timeout of a command or
a read; `Start`'s own call has none. `HandleReused` is the close of a handle by the deadline
goroutine while the other routine is given the same one. Where the code ranges over a map
to find a profile, `KeysOf` has all it may find.

### RunnerCommands

One action, from `Load` (defaults and validation) over the discovery of options to commands.
`discovered` is the list of the script, `announced` what the registry has: `Relist` lists again
at any time while the action is served, stores what differs and announces it unless `Validate`
refuses it. `Offers` is what discovery has Home Assistant send for what is announced;
`Templated` is the command template, which takes a name as it is (`Unescaped` has the names that
JSON would escape, and what comes of them). `Foreign` are payloads of anyone else. A command is
on its way (`cmdPhase` "called", `sent`) between `Send` and `Receive`, so that options may change
in between. `Runs` decodes a payload and makes the parameters of a run of it, or refuses it.
`Invocation` hands them over: in the order of their names as arguments, after `-name` for
PowerShell and commands; in the environment under the name in upper case, where of two the last
counts; or as JSON on stdin. `Form` is how a value is written in each. `Got` and `AfterRun` map
what a getter prints back to a state; `read` is a state that was read and is not shown yet.

### Catalog

`Builtin` has for each factory the systems it supports, the entities its descriptor declares
and those its `Start` registers besides. A file is a section per plugin, with how `enabled` is
written and what is wrong with the section. `PluginEnabled` and `DecodedOn` are the two
readings of `enabled`. `Valid` is `ValidatePlugins`; then plugins start in the order of their
ids and register one entity after the other, each of which the registry may refuse.

### MCPlugins

The four above share no state: the module extends `Catalog` and has an instance of each of the
others. A behaviour has one of the four, the others are off
(`PlanOff` and so on), so one run checks all without multiplying them. The sets of setups,
installs, actions, listings, payloads and files are there, each element for a case of the
code: names that collide in a slug, a digit group or a number, a profile by path, by name or
by key, names with a quote and a backslash, each kind of action, each input mode and each
delivery, with arguments by name and by place, parameters that differ in case, files that
conflict.

## 3. Runs and bounds

| Run | Instance | Distinct states |
| --- | --- | --- |
| `bus` | 2 publishers, 2 events each, 1 subscription, buffer 1 | 36,526 |
| `scope` | 2 consecutive runs of one plugin, 2 entities, 2 data values, 2 tasks, 1 caller | 840,204 |
| `runtime` | 2 configs and a bad one, 2 plugins, 2 transports, 2 writes | 730,448 |
| `mqtt` | 1 entity, 2 versions of its data (symmetric), 1 state, 2 calls and a removal, 2 connections, of which the first may break | 3,398,081 |
| `mqtt_reconnect` | the same; ends in a counterexample | |
| `mqtt_commands` | 2 entities, 5 commands, both capacities 2 | 70,313 |
| `powerprofile` | 2 APIs, 2 profiles, lists of 1 and 2, channel of 1; 2 events, 1 command, 1 timeout | 995,786 |
| `inhibitor` | 2 switches, 3 service events, 3 commands | 396,011 |
| `inhibitor_on` | the same; ends in a counterexample | |
| `runner` | 4 actions, 1 of them with tickers; 1 change of the world, 1 command; one initial state of those that differ by names | 428,022 |
| `plugins` | 4 sets of schemes and modes with 3 acts; 4 installs with 2 faults and 3 moves; 17 actions; 3 systems with the files of `MCFiles` | 103,139 |
| `providers` | the same; ends in a counterexample | |

Why these are enough: two publishers meet in `enqueue` and around a writer; two events behind
one in hand and one in the channel fill every place an event can be. Subscriptions share nothing
but `b.mu`; what involves several of them is proved for any number. Two runs of a plugin are the
only way two scopes share an id, and two ids let one be handled while the other waits in
`Close`. Two writes give a reload in progress, one waiting and the timer armed; with two configs
a rollback can be told from a switch. Two connections give an `OnConnect` handler that is slow
beside one that is new, and a break with publications before, in and after it to resend;
with two calls an entity is registered and then updated, heard of, or registered again (two
states in a row, of which a resend brings back the older, are left to the proof). Entities do not interact in `MqttPublisher` but for the order of a snapshot.
Five commands are one in a handler, two in its queue, one in hand and one behind for the other
entity. Two events of the daemon are a restart, or a change on either side of a start or stop,
and each sends two signals, which fill a channel of one and the reader's hand. Three events of
services are a restart of one and a failure of the other, or a hang and its end beside a
restart; three commands are on, off and on again. With one command and one change, the two
tickers, `Start`, the handler and a refresh by tags can all be at work on the select `mode` at
once, with answers from before and after the change; the other three actions each take another
way through `Start`. Three acts are a command, a switch by the user and a deletion in any order.
Two faults are an end of FanControl and an error or a lost reply beside it; with three moves a
command, a load by the user and another command overlap. The files have each pair of sections
that can collide, `enabled` in each spelling, and each flaw. `MaxEvents`, `Tasks`, `Callers`,
`MaxWrites`, `MaxConnects`, `MaxCalls`, `MaxCommands`, `MaxTimeouts`, `MaxActs`, `MaxFaults` and
`MaxMoves` are the only bounds; the proofs hold for all values of those in the proved modules.
All runs set `CHECK_DEADLOCK FALSE` because the systems really stop: publishers finish, scopes
are closed, `Run` returns, plugins are stopped.

Fairness. `SchedulerFairness` (bus): goroutines that can run do; publishers need not publish,
readers need not read, contexts need not end. `Fairness` (scope): a call that has changed the
registry goes on, `Close` goes on, a task returns once its context is cancelled (which `Host.Go`
asks of it); nobody need call `Close`, handlers need not return. `Fairness` (runtime):
goroutines and timers run, calls of plugins and transports return (the stop calls have 30 s
contexts); nobody need write or end. `MqttFairness` (commands): `commandLoop` and workers run;
handlers need not return, and `Independent` speaks of an entity whose handlers do. `Fairness`
(power profiles): the daemon answers or calls time out, the bus delivers, watcher and handler go
on; strong for signals, since `select` chooses at random between a signal and a tick. `Fairness`
(inhibitors): calls to services that do not hang return; strong for those who wait for `p.mu`,
since Go's mutex hands itself to a waiter it has kept for a millisecond. `Fairness` (runner):
goroutines run and scripts end, if only by their timeout; those of tickers succeed now and then.
`PlanFairness`: goroutines run, every `powercfg` ends within its timeout, and one that keeps
being asked answers some time (strong). `FanFairness`: routines, timers and deadlines run, and
FanControl answers while it serves; that its pipe ever appears, or that `Start` gets through, is
not assumed. Nobody need start a service, send a command, change the world or stop.

## 4. What is checked

`bus`: `NothingLost`: accepted = received, then in transit; `NoLostWakeup`: `run` never
sleeps beside a queued event without a token there or coming; `ImplementsMailbox`: the bus
refines `Mailbox`, in which a cancellation discards a suffix and nothing is put after it;
`PublishReturns`: a stuck reader never blocks a publisher; `StreamEnds`: a cancelled channel
is closed; `Delivered`: a reader that keeps reading gets everything.

`scope`: `NoOrphans`: every entity and handler is on the list of the one scope
that will remove it; `LifecycleOrder`: the events of an entity begin with added, end
with removed and nothing is outside; `ViewFollowsRegistry`: a subscriber's view differs
from the registry only where an event is still to come; `CloseResultTells`: no error
means that all tasks have ended well; `CommandsReachOwner`: `Route` finds only a run that
answers for the entity and has it registered, and the handler it then calls without the
lock belongs to such a run, or to one whose own `Close` has overtaken the call (such a late
call happens, also while the next run serves the entity; what its handler calls is
refused, which is part of `LifecycleOrder`); `FailureEndsSiblings`: a task that fails
ends all tasks of its plugin; `ImplementsFeed`: the scopes refine `EntityFeed`, in which the
registry runs ahead of a subscriber by at most one change of each entity.

`runtime`: `TypeOK`; `RollbackRestores`: between jobs the agent runs all of the current
generation and nothing else, however many candidates failed to start; `OneGeneration`:
two generations are never at work together; `TransportsFirst`: plugins run only while
every transport of their generation is up, except for one a `Stop` of which has failed: it
serves no more but is still in `m.started`, so that a restore skips it and starts the plugins
all the same (`dead[g]` remembers which those are), and except for the failing `Run` that comes
after a reload has started everything; `AppliesLastConfig`: the last valid
config is applied in the end, however writes, debounce and reloads fall;
`RunReturns`: the agent can be ended at any time.

`mqtt`: `TypeOK`; `NoBlindSpot`: nothing a plugin says of its entity is dropped as being
about an unknown one; `BrokerMirrors`: when everything is handled the broker has the
agent online, the configs and availabilities of exactly the registered entities and the
last states, whatever was lost, kept, resent and raced before, but for `lost` and
`overtaken`. Handled includes that the client has nothing left to resend: until then an
older config, availability or state may well be on a topic, and if such a message is the
last, it stays (`overtaken`); no later step of the code repairs it before the next event of
the entity or the next connection.

`mqtt_reconnect` refutes `UnavailableShown`: docs/plugins/powerprofile-ppd.md:28 says
that "The entity is unavailable while the daemon is not running", but the snapshot of a
connection publishes every entity as `online` (`mqtt.go:241`), and neither transport nor
plugin repeats what was said before. The counterexample has no fault in it: the first
connection is slower than the plugin.

`mqtt_commands`: `ImplementsLanes`: across two queues that overflow, a
hand-over and a shutdown, each entity's commands are handled one at a time, in order,
at most once; `Independent`: a handler that hangs delays no other entity;
`QuietAfterStop`: no handler runs after a clean `Stop`.

`powerprofile`: `TypeOK`: online means that there is a service and a profile to show;
`Mirrors`: when all is handled the entity is what the daemon is, after restarts, rejected
and timed-out commands and signals queued behind newer answers; `Recovers`: a daemon that
stays is found, although a full signal channel makes calls time out.

`inhibitor`: `NothingLeaks`: a service never holds an inhibition whose cookie
the plugin does not have or whose switch is not on, and none after `Stop`;
`StopReturns`: `Stop` gets `p.mu` and returns, if no service hangs or once the agent ends.

`inhibitor_on` refutes `OnMeansInhibited`: docs/plugins/inhibit-freedesktop.md:11 says
that the switch "keeps the desktop from locking automatically", but a service that
restarts between two pings has forgotten the inhibition and no ping notices; the switch
is shown on, and a second "on" is answered without a call.

`runner`: `TypeOK`: after `Start` exactly the actions that were not left out are
registered, with options; `RefreshRepairs`: after a refresh by tags that nothing disturbed
the entity has the options and the state its scripts tell, also a state that only the new
options know; `TickersSettle`: what has tickers is right in the end, whatever overlaps.

`plugins`: `TypeOK`; `Selectable`: whatever the names, every scheme and profile that was found
has an option, sending its name back chooses it, and nothing the user configured is
overwritten; `CommandReturns`: a fan control command ends, whatever FanControl does;
`StateSettles`: the state comes to agree with Windows and with FanControl, whatever failed or
was overtaken; `ChoicesWork`: when a choice of Home Assistant is received and is in the present
list of a runner action, it starts the script with the parameters of that choice, and a select
comes to show only what was one of its options when a text or a payload was matched to it;
`OnlyDeclared`: no payload makes a script run with parameters that are not declared, and by
arguments, environment and stdin it reads each declared one as the run has it;
`AcceptedRuns`: what
validation accepts starts with the entities its sections declare, each of its own plugin, or
leaves nothing behind; an optional action of the runner may be left out.

`Selectable` and `ChoicesWork` except an option whose name is the key of another one:
`OptionValue` takes the first that has either (`ChoicesWork` only if that other one is listed
before it). Every further exception of `ChoicesWork` is a weakness of the code, and the run
violates the property without it: a list that `Validate` refused to announce is stored
all the same, and commands go by it (options_getter.go:75); a name with a quote or a backslash
comes back as broken JSON or as another name (discovery.go:101); and validation accepts what
cannot work, option parameters that do not fit the schema (not compared at load) and buttons with
an input mode, for which discovery sends no parameters. That the option shown is still in the
list is not claimed at all: `refreshDiscoveredOptions` may drop it, and it stays shown until the
next refresh or command.

`OnlyDeclared` excepts, where the environment or arguments by name are used, names that differ
in case only (exec.go:189): loose JSON may have an undeclared `FORCE` beside the declared
`force`, or instead of it, and the script reads that as `HOMEPPC_FORCE`. It excepts arguments by
place where the run has not exactly the declared parameters, as then the places shift
(exec.go:166). A button without a schema takes any parameters; each of them counts as declared.

`providers` refutes `NoConflict`: src/README.md:24 says that "Config validation rejects [...]
conflicting providers for the same entity", but the descriptors of the session plugins for
Linux and Windows leave out `session.locked`, which they register; a runner action with that
id is accepted and the start of all plugins fails.

`TickersSettle` and `RefreshRepairs` except `outdated` options (not the state, which is right even
then), a weakness of the code they brought up: of two refreshes
that overlap, one may store newer options and announce them before the other announces
older ones; the newer are the stored ones, so every later refresh finds nothing to
announce (`options_getter.go:71`) until the options change again.

`Mirrors` excepts a handler that published what it had read after the watcher published
something newer (`overtaken`), `NothingLeaks` a switch that `Start` showed off after it
was on (`early`): the code has no defence, and the next change repairs both.

`RollbackRestores`, `OneGeneration` and `AppliesLastConfig` make exceptions by name: for
a failed `Stop`, a failed restore, and a write between the first load and the watch
(`missed`). There the code logs and gives no guarantee.

## 5. What is proved

All of it by induction over `Spec`, for every value of the constants.

`EventBus_proofs`. From `TypeInv` (types) and `LockInv` (who holds `b.mu`, in terms of `ppc` and
`upc`; a publisher's `todo` and `owes` are subscribed and open) follow `NoCloseDuringPublish`
(no subscription is torn down under a publisher) and, with it, `NoLostWakeup` and `NothingLost`,
which are inductive on top of them. `PublishReachesAll` (a publish reaches every subscription)
needs `ReachInv`, which speaks of every subscription already visited: `subs` cannot grow under a
reader. `BusImplementsMailbox` maps each action to a step of `Mailbox` or a stutter; its hard
cases are the clear of a cancellation (a suffix is cut) and `RunExit` (the event in hand goes,
and the queue behind it is empty already).

`PluginScope_proofs`. The properties are not inductive alone: that a removed event is in order
depends on what is registered, this on who owns the id, and this on where the `Close` of every
run of the plugin is. `IInv` is the conjunction of `TypeOK`, `PhaseInv` (which lists may be
non-empty in which step of `Close`), `OwnInv` (whoever holds an id declares it, and of two
scopes that share one only one is neither new nor closed), `RegInv` (registry and owners),
`EventInv` (view, registry and pending events), `HandlerInv` and `LifecycleOrder`. `FeedKept`
(the refinement of `EntityFeed`) follows: only the scope that answers for an entity changes it,
and has then no event to publish (`Settled`); an event makes the view of its entity that of the
registry (`Told`). `StepKinds` reduces the actions to a few kinds of change, so that most
conjuncts are shown once per kind.

`MqttPublisher_proofs`. `BrokerMirrors` speaks of the moments in which everything is handled;
`IInv` says what holds on the way there, in terms of the queue of events, of what each handler
has still to do and of the connection. `PendInv`: an event that is yet to be published is about
what the registry has. `WorkInv`: which lists of steps a handler can have. `KnowInv`: of every
registered entity the loop knows, or will know before it comes to an event about it, that it is
there (`Backed`), from which `NoBlindSpot` follows. `LastInv`: the last of what is still to be
published on a topic is what the plugins said last. `ListInv`: before the loop lists the
entities it has missed none of them. `MirrorInv`: the broker has what it should, or gets it by
an event or step to come (`Coming`), by the next connection (`Redo`), or by a message the
client has kept (`store`; for a config that is gone and for states, which no connection
repeats), or the topic is `lost` or `overtaken`; with nothing to come and nothing kept this is
`BrokerMirrors`. `StatusInv` says the same of the agent's own status, and that until `Stop` no
message is kept that the agent is offline. `Sends` and `Resends` say once what a publication
and a resend can do.

`Runtime_proofs`. `StepKinds` reduces the actions to those that leave the generations alone,
those that begin a job and `JobStep`, and only the last two can disturb anything. A job is about
a generation (`JobInv`), and `Working` is that one or, between jobs, the current one. `PlugInv`
says that plugins run in `Working` only and in none from the moment the old ones are stopped to
the end of a start; `StartedInv` says the same of transports as long as no `Stop` has failed,
and together they give `OneGeneration`. `TransportsFirst` follows from `FirstInv`,
which says it of the manager's map and of the start that has come to its plugins, and from
`DeadInv`: what is in the map and does not serve is in `dead`; `RestoreInv` strengthens `RollbackRestores` by what a restore
that is being undone has recorded as failed.

`PowerProfile_proofs`. `CallInv` says that each of the two callers has one call under way, as a
request or as its answer, and that the answer is for what it waits for: without it a late reply
could be taken for that of the next call. `KnowInv` carries `Mirrors`. It is one statement,
`Tells`, said of everything the plugin is or will be told: it was true when said, and what has
changed since is said by a signal behind it. So it holds of a reply or signal on the wire, of a
signal in the channel, of the snapshot the watcher is about to apply, of what the entity shows,
and of what the handler has read. The last needs `NewerShown` (what the watcher published while
the handler was reading is what is shown), by which `overtaken` is the only exception.

`Runner_proofs`. `FreshInv` says of an action whose scripts have been run by a refresh by tags
since the world changed that its options and state are as the world has them, or that the
refresh is still to read them or is carrying them (`Listing`, `Reading`). `OldInv` relates what
is announced to what is stored: they are equal, or whoever stored it is about to announce it, or
the action is `outdated`. `JobInv`, `TickInv`, `HandInv` say which goroutines can be at work
when, and `StartInv` where `Start` is, which gives `TypeOK`. The proof corrected the property:
`outdated` used to mean that the announced options were not those of the world by then, with
which `OldInv` is not inductive and `RefreshRepairs` is false with three changes and two
commands, more than the run has. What counts is what is stored; the run and the proof have that
now.

`Plugins_proofs`, the plugins. What a select offers is computed: names become keys, keys are
numbered until they are free, lists are merged into maps one entry at a time, maps are sorted.
The laws of these operators come first. `WellOrdered` (every set of numbers has a least one,
from the library's well-founded induction) and `Induction` take the place of an induction rule,
which the provers cannot instantiate: a recursive function exists because the set of lengths for
which it does has 0 and is closed under adding 1, and what it computes is shown in the same way.
`SortedMembers`: sorting by a strict order loses nothing, because the number of members before
one tells its place; `ByKeyOrders` and `ByNameOrders` show that the orders of the code are
strict (names may be the same, keys are not). `FreeKeyIsFree`: one of the candidates is free,
because there is one more than there are keys taken and they differ. On these stand
`PlansMerged` and `ProfilesMerged`: whatever was found and in whatever order the map is
searched, merging leaves what the user wrote and everything found has an entry.

`IInv` has a part for each plugin. `PlanInv`: from the end of discovery on the modes are those
of the merge, and nothing is read or set before the options have been found valid. `FanInv` has
the same, and `Calls`: what each routine's call is, and that a profile to load is held exactly
as long as a load is under way, also when an answer is late, lost or taken for another call's;
so `FanSelectable` need not be carried along, it follows (`ProfilesSelectable`). `CmdInv`: the
action that is served has passed validation, its options, configured or listed, are a finite map
of keys with parameters by name, and a command on its way is one that can be sent. `ChoicesWork`
and `OnlyDeclared` speak of the step that receives a command, and follow for it from `CmdInv`
(`CmdProperties`): `FirstChosen` says which option a name is turned to, `OptionRuns` follows it
through the template, the decoding of the payload and `Runs`; `RunsDeclared` follows any payload
to the parameters of a run, and `Delivered` these through `Invocation` to what the script reads,
by `EnvRead` (no other parameter has the variable) and `ArgsRead` (the order of the names loses
none and gives each its place). `StepsShow` follows a state from where it is matched to where it
is shown. `AllSelectable` and `TypeCorrect` follow from `IInv`, `OffersWork` and
`ScriptsSeeDeclared` from `IInv` and the step.

`Plugins_proofs`, the catalog. `AcceptedRuns` is proved for any files. `CatalogInv` says where
the start is: what is still to be registered is the end of the plugin's list (`TodoInv`), what
is registered belongs to plugins the start has come to (`OwnInv`), and of those it has left
behind everything declared is there or was left out (`ThereInv`). That only one section declares
an entity (`OneProvider`) comes from `Valid`; `BuiltinFacts` goes through the built-in plugins.
Here too the proof corrected the property, which had been that nobody else has an entity that is
declared. An optional runner action with the id `session.locked` whose options are not found is
left out, and `session_loginctl`, which registers this id without declaring it, then has it; no
file of the run had such an action (one has now). The property says that another plugin has it
at most without declaring it.

`Plugins_proofs`, the lanes of commands. `LanesKept` (the refinement) needs that a worker begins
the smallest of the numbers on their way: `OrderInv` says that numbers grow from the front of an
entity's queue over the hand to the end of the channel. `MqttTypeOK` is inductive because it
says where a worker exists: a command in hand or in a queue has one. `QuietAfterStop` needs
`QuietInv`: after `commandLoop` is done no worker is left to take a command, and only it starts
workers. `HandledInOrder` shows that the lanes promise what they are for: it uses `LanesKept`
and no action of the transport.

`Inhibitor_proofs`. `NothingLeaks` speaks of the moments in which nobody has `p.mu`; what holds
through the calls is `HeldInv` (a service holds at most the cookie the plugin has, and none for
a switch that is off). It rests on `CallInv` (the lock keeps the switch of a command as the
command found it, so that a second cookie is never added to a first), on `DownInv` (a ping
fails, before the agent ends, only where nothing is held any more) and on `StopInv` (who may
have the lock when). `ShownInv` adds what is shown.

Three properties are proved and not run, as the proofs say more than a small instance:
`PublishReachesAll`, `NoCloseDuringPublish` and, for scopes, `NoTaskAfterClose`; likewise
the type invariants of `EventBus`, `PluginScope`, `MqttCommands` (`MqttTypeOK`) and `Inhibitor`,
and `OldestFirst`, which the lanes of `mqtt_commands` entail.

Assumptions on constants, each evaluated by TLC on the runs: bounds and capacities are natural
numbers; `EntitiesAssumption` (entities are finitely many, so that a snapshot can be listed);
`OrderAssumption` (the runner's actions come in some order without repetition and there is one,
as `Validate` asks); `FilesAssumption` (the actions of a runner section are a list of names).
For the plugins: `WordsAssumption` (words have different places in the order of strings, numbers
are written differently, a slug can be a key); `SetupsAssumption`, `InstallsAssumption` and
`ActionsAssumption` (configured maps are finite; power plan modes have names, which
`Config.Validate` asks for; `friendlyProfileName` and `powerPlanFriendlyName` never give an
empty name; listings are sequences; parameters, also those of a payload, are finitely many and
have names whose order is known). `MaxNumber` is no limit of the program: they say that the
numerals suffice for what is configured and listed together, which some `MaxNumber` does for any
of it. What the other modules name in their `ASSUME`s is of the same kind.

Only model-checked: all liveness (`PublishReturns`, `StreamEnds`, `Delivered`,
`FailureEndsSiblings`, `AppliesLastConfig`, `RunReturns`, `Independent`, `Recovers`,
`StopReturns`, `TickersSettle`, `CommandReturns`, `StateSettles`), which the prover cannot do.
Every invariant and every action property that a passing run checks is proved. The three refuted
ones (`UnavailableShown`, `OnMeansInhibited`, `NoConflict`) are false of the code.

## 6. Plan

Every component that keeps state is modelled, and every safety property the runs check is proved
for all constants. What would come next: the formatting of topics (`objectID`), so that the
collision of two entity ids can be a property, and the end of a plugin whose events `Stop` no
longer waits for.

## 7. Not modelled

D-Bus, gRPC and Windows API marshalling, the frames of the pipe, process execution, TOML
decoding, logging and service installation are I/O with no state the agent keeps. Time is
abstracted: a timeout may strike whenever its wait is possible. Display and session plugins
keep no state beyond what `PluginScope` models for any plugin; their declarations are in
`Catalog`. The formatting of discovery payloads and topics is left out but for the commands
they offer; that `objectID` maps two entity ids to one topic is listed as a hazard without a
property. The command line prints and exits.
