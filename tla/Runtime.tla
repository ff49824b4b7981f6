------------------------------ MODULE Runtime ------------------------------
(***************************************************************************)
(* The life of the agent: src/internal/core/runtime.go (Run, reload from   *)
(* disk, generations), plugin_manager.go, transport_manager.go and         *)
(* src/internal/config/watcher.go (debounced file watcher).                *)
(*                                                                         *)
(* Goroutines: Run, the loop of the watcher, and one per fired timer, which *)
(* calls reloadFromDisk.  Run and the reloads take r.mu; the goroutine that *)
(* has it works through a job, a chain of Start and Stop calls of the       *)
(* managers of a generation.  One call of a manager is one step: what is in *)
(* between is visible to nobody but the plugin or transport it works on.    *)
(* Which calls fail is the choice of the environment (a plugin's New, Start *)
(* and Stop, the Close of its scope, a transport's Start and Stop).         *)
(*                                                                         *)
(* Operators marked "Variant" are operators with a plausible bug, by which  *)
(* the properties are tested.                                               *)
(***************************************************************************)
EXTENDS Naturals, FiniteSets

CONSTANTS Configs,     \* file contents that Load and validateConfig accept
          Bad,         \* any other content
          Plugins,     \* plugin ids, in the order the manager starts them
          Enabled,     \* Enabled[c]: the plugins a config enables
          Transports,  \* transport ids, in the order the manager starts them
          MaxWrites    \* bound: writes of the config file

ASSUME ConstantsAssumption ==
  /\ Bad \notin Configs
  /\ Plugins \subseteq Nat /\ Transports \subseteq Nat
  /\ Enabled \in [Configs -> SUBSET Plugins]
  /\ MaxWrites \in Nat

VARIABLES
  file, writes,  \* what is on disk, and how often it was written
  missed,        \* history: the last write was before the watch and after the load
  loop,          \* the watcher's goroutine: "off", "on", "closing", "gone"
  notices,       \* fsnotify events about the file it has not received
  timer,         \* timer: is the debounce timer running
  waiting,       \* reloadFromDisk goroutines that wait for r.mu
  rpc,           \* Run: "watch", "start", "serving", "close", "returned"
  ctxDone,       \* the context of Run
  mu,            \* who has r.mu: "free", "run", "reload"
  job,           \* what the owner of r.mu is at
  current, made, \* r.current, and the number of the newest generation
  cfg,           \* cfg[g]: the config of generation g
  plugs,         \* plugs[g]: m.runtimes of its PluginManager
  started,       \* started[g]: m.started of its TransportManager
  up,            \* up[g]: transports that were started and not stopped since
  dead,          \* history: dead[g], the transports of g of which a Stop failed
  faults         \* history: the kinds of calls that failed

diskVars  == <<file, writes, missed, notices>>
watchVars == <<loop, timer, waiting>>
genVars   == <<made, cfg>>
partVars  == <<plugs, started, up, dead>>
vars == <<diskVars, watchVars, rpc, ctxDone, mu, job, current, genVars, partVars, faults>>

Gens == 0..MaxWrites

\* A start is made for Run, to switch to a new config, or to restore the old one;
\* a stop to retire the old generation, to discard a failed one, or to shut down.
Starts == {"run", "switch", "restore"}
Stops  == {"retire", "discard", "shutdown"}
Idle   == [goal |-> "none", gen |-> 0, call |-> "none", err |-> FALSE]

\* Variant: plugins first in both directions.
FirstCallPlugins(goal) == "plugins"

\* runtimeGeneration.Start starts transports, then plugins; Stop goes backwards.
FirstCall(goal) == IF goal \in Starts THEN "transports" ELSE "plugins"

Job(goal, g) == [goal |-> goal, gen |-> g, call |-> FirstCall(goal), err |-> FALSE]

\* The first config was loaded and validated before NewRuntime.
Init ==
  /\ file \in Configs /\ writes = 0 /\ notices = 0 /\ missed = FALSE
  /\ loop = "off" /\ timer = FALSE /\ waiting = 0
  /\ rpc = "watch" /\ ctxDone = FALSE
  /\ mu = "free" /\ job = Idle
  /\ current = 0 /\ made = 0
  /\ cfg = [g \in Gens |-> file]
  /\ plugs   = [g \in Gens |-> {}]
  /\ started = [g \in Gens |-> {}]
  /\ up      = [g \in Gens |-> {}]
  /\ dead    = [g \in Gens |-> {}]
  /\ faults = {}
-----------------------------------------------------------------------------
(* The disk and the watcher *)

\* Somebody writes the file; an editor may leave anything there for a while.
Write(c) ==
  /\ writes < MaxWrites
  /\ file' = c
  /\ writes' = writes + 1
  /\ missed' = (loop = "off")
  /\ notices' = IF loop = "on" THEN notices + 1 ELSE notices
  /\ UNCHANGED <<watchVars, rpc, ctxDone, mu, job, current, genVars, partVars, faults>>

\* Variant: events are ignored while a reload is at work.
NotifyIfQuiet ==
  /\ loop \in {"on", "closing"}
  /\ notices > 0
  /\ notices' = notices - 1
  /\ timer' = (timer \/ mu # "reload")
  /\ UNCHANGED <<file, writes, missed, loop, waiting, rpc, ctxDone, mu, job, current,
                 genVars, partVars, faults>>

\* notify: the timer is stopped, which does nothing if it has fired, and a new
\* one takes its place.  After Close the loop may still take an event first.
Notify ==
  /\ loop \in {"on", "closing"}
  /\ notices > 0
  /\ notices' = notices - 1
  /\ timer' = TRUE
  /\ UNCHANGED <<file, writes, missed, loop, waiting, rpc, ctxDone, mu, job, current,
                 genVars, partVars, faults>>

\* 500 ms after the last event: a goroutine that calls reloadFromDisk.
Fire ==
  /\ timer
  /\ timer' = FALSE
  /\ waiting' = waiting + 1
  /\ UNCHANGED <<diskVars, loop, rpc, ctxDone, mu, job, current, genVars, partVars, faults>>

\* The loop ends: on w.done it stops the timer, on a closed channel of fsnotify
\* (both are ready after Close) it does not.
LoopExit ==
  /\ loop = "closing"
  /\ loop' = "gone"
  /\ timer' \in {FALSE, timer}
  /\ UNCHANGED <<diskVars, waiting, rpc, ctxDone, mu, job, current, genVars, partVars, faults>>
-----------------------------------------------------------------------------
(* Run *)

RunWatch ==
  /\ rpc = "watch"
  /\ loop' = "on"
  /\ rpc' = "start"
  /\ UNCHANGED <<diskVars, timer, waiting, ctxDone, mu, job, current, genVars, partVars, faults>>

RunStart ==
  /\ rpc = "start"
  /\ mu = "free"
  /\ mu' = "run"
  /\ job' = Job("run", current)
  /\ UNCHANGED <<diskVars, watchVars, rpc, ctxDone, current, genVars, partVars, faults>>

\* The signal that ends the agent.
Cancel ==
  /\ ~ctxDone
  /\ ctxDone' = TRUE
  /\ UNCHANGED <<diskVars, watchVars, rpc, mu, job, current, genVars, partVars, faults>>

RunStop ==
  /\ rpc = "serving" /\ ctxDone
  /\ mu = "free"
  /\ mu' = "run"
  /\ job' = Job("shutdown", current)
  /\ UNCHANGED <<diskVars, watchVars, rpc, ctxDone, current, genVars, partVars, faults>>

\* The deferred Close of the watcher, with r.mu unlocked.
RunClose ==
  /\ rpc = "close" /\ mu # "run"
  /\ loop' = "closing"
  /\ rpc' = "returned"
  /\ UNCHANGED <<diskVars, timer, waiting, ctxDone, mu, job, current, genVars, partVars, faults>>
-----------------------------------------------------------------------------
(* reloadFromDisk, up to its first call of a generation *)

\* Variant: r.mu is not taken.
ReloadUnlocked ==
  /\ waiting > 0
  /\ waiting' = waiting - 1
  /\ file \in Configs
  /\ made' = made + 1
  /\ cfg' = [cfg EXCEPT ![made + 1] = file]
  /\ job' = Job("retire", current)
  /\ UNCHANGED <<diskVars, loop, timer, rpc, ctxDone, mu, current, partVars, faults>>

\* Variant: a config that is refused leaves r.mu locked.
ReloadKeepsLock ==
  /\ waiting > 0 /\ mu = "free"
  /\ waiting' = waiting - 1
  /\ mu' = "reload"
  /\ \/ /\ file \notin Configs
        /\ UNCHANGED <<job, genVars>>
     \/ /\ file \in Configs
        /\ made' = made + 1
        /\ cfg' = [cfg EXCEPT ![made + 1] = file]
        /\ job' = Job("retire", current)
  /\ UNCHANGED <<diskVars, loop, timer, rpc, ctxDone, current, partVars, faults>>

\* Variant: the new generation is started before the old one is stopped.
ReloadStartFirst ==
  /\ waiting > 0 /\ mu = "free"
  /\ waiting' = waiting - 1
  /\ file \in Configs
  /\ mu' = "reload"
  /\ made' = made + 1
  /\ cfg' = [cfg EXCEPT ![made + 1] = file]
  /\ job' = Job("switch", made + 1)
  /\ UNCHANGED <<diskVars, loop, timer, rpc, ctxDone, current, partVars, faults>>

\* Lock r.mu, load, validate; skip what is refused, else make a generation.
Reload ==
  /\ waiting > 0 /\ mu = "free"
  /\ waiting' = waiting - 1
  /\ \/ /\ file \notin Configs
        /\ UNCHANGED <<mu, job, genVars>>
     \/ /\ file \in Configs
        /\ mu' = "reload"
        /\ made' = made + 1
        /\ cfg' = [cfg EXCEPT ![made + 1] = file]
        /\ job' = Job("retire", current)
  /\ UNCHANGED <<diskVars, loop, timer, rpc, ctxDone, current, partVars, faults>>
-----------------------------------------------------------------------------
(* The end of a call of a generation *)

Then(goal, g) == /\ job' = Job(goal, g)
                 /\ UNCHANGED <<mu, rpc, current>>

Unlock(pc, g) == /\ mu' = "free" /\ job' = Idle
                 /\ rpc' = pc /\ current' = g

\* Variant: r.current is the candidate whether or not it started.
FinishAnyway(err) ==
  \/ job.goal = "run"      /\ Unlock(IF err THEN "close" ELSE "serving", current)
  \/ job.goal = "shutdown" /\ Unlock("close", current)
  \/ job.goal = "retire"   /\ err  /\ Then("restore", current)
  \/ job.goal = "retire"   /\ ~err /\ Then("switch", made)
  \/ job.goal = "switch"   /\ Unlock(rpc, made)
  \/ job.goal = "discard"  /\ Then("restore", current)
  \/ job.goal = "restore"  /\ Unlock(rpc, current)

\* What Run and reloadFromDisk do with the result: a generation that does not stop
\* is started again, one that does not start gives way to the old one.
Finish(err) ==
  \/ job.goal = "run"      /\ Unlock(IF err THEN "close" ELSE "serving", current)
  \/ job.goal = "shutdown" /\ Unlock("close", current)
  \/ job.goal = "retire"   /\ err  /\ Then("restore", current)
  \/ job.goal = "retire"   /\ ~err /\ Then("switch", made)
  \/ job.goal = "switch"   /\ err  /\ Then("discard", made)
  \/ job.goal = "switch"   /\ ~err /\ Unlock(rpc, made)
  \/ job.goal = "discard"  /\ Then("restore", current)
  \/ job.goal = "restore"  /\ Unlock(rpc, current)

Call(call, err) == /\ job' = [job EXCEPT !.call = call, !.err = err]
                   /\ UNCHANGED <<mu, rpc, current>>

At(calls, call) == job.goal \in calls /\ job.call = call

\* The fault of a Start in this job, and of a Stop.
StartFault == IF job.goal = "restore" THEN {"restore"} ELSE {"start"}
StopFault(set) == IF set = {} THEN {} ELSE {"stop"}

jobFrame == <<diskVars, watchVars, ctxDone, genVars>>
-----------------------------------------------------------------------------
(* TransportManager and PluginManager *)

\* Stop: one that fails stays in m.started, but it no longer serves.
StopTransports(g, failing) ==
  /\ started' = [started EXCEPT ![g] = failing]
  /\ up' = [up EXCEPT ![g] = {}]
  /\ dead' = [dead EXCEPT ![g] = @ \cup failing]

\* Start: those in m.started are skipped; after the first failure all are stopped.
TransportManagerStart ==
  /\ At(Starts, "transports")
  /\ LET g    == job.gen
         todo == Transports \ started[g]
     IN  \/ /\ started' = [started EXCEPT ![g] = Transports]
            /\ up' = [up EXCEPT ![g] = @ \cup todo]
            /\ Call("plugins", FALSE)
            /\ UNCHANGED <<dead, faults>>
         \/ \E t \in todo :
            \E failing \in SUBSET (started[g] \cup {i \in todo : i < t}) :
              /\ StopTransports(g, failing)
              /\ Finish(TRUE)
              /\ faults' = faults \cup StartFault \cup StopFault(failing)
  /\ UNCHANGED <<plugs, jobFrame>>

\* Start: a plugin that is running already ends the loop at once; one that cannot
\* be made or started is closed, and with it every plugin (failing: those whose
\* Stop or Close returned an error).
PluginManagerStart ==
  /\ At(Starts, "plugins")
  /\ LET g     == job.gen
         on    == Enabled[cfg[g]]
         upTo(p) == {q \in on : q < p}
     IN  \/ /\ on \cap plugs[g] = {}
            /\ plugs' = [plugs EXCEPT ![g] = @ \cup on]
            /\ Finish(FALSE)
            /\ UNCHANGED faults
         \/ \E p \in on :
              /\ upTo(p) \cap plugs[g] = {}
              /\ Call("undo", TRUE)
              /\ \/ /\ p \in plugs[g]
                    /\ plugs' = [plugs EXCEPT ![g] = @ \cup upTo(p)]
                    /\ UNCHANGED faults
                 \/ /\ p \notin plugs[g]
                    /\ plugs' = [plugs EXCEPT ![g] = {}]
                    /\ \E failing \in SUBSET (plugs[g] \cup upTo(p) \cup {p}) :
                         faults' = faults \cup StartFault \cup StopFault(failing)
  /\ UNCHANGED <<started, up, dead, jobFrame>>

\* runtimeGeneration.Start after a plugin failed.
UndoTransports ==
  /\ At(Starts, "undo")
  /\ \E failing \in SUBSET started[job.gen] :
       /\ StopTransports(job.gen, failing)
       /\ faults' = faults \cup StopFault(failing)
  /\ Finish(TRUE)
  /\ UNCHANGED <<plugs, jobFrame>>

\* Stop: whether or not it fails, the plugin is deleted from m.runtimes.
PluginManagerStop ==
  /\ At(Stops, "plugins")
  /\ \E failing \in SUBSET plugs[job.gen] :
       /\ plugs' = [plugs EXCEPT ![job.gen] = {}]
       /\ Call("transports", failing # {})
       /\ faults' = faults \cup StopFault(failing)
  /\ UNCHANGED <<started, up, dead, jobFrame>>

TransportManagerStop ==
  /\ At(Stops, "transports")
  /\ \E failing \in SUBSET started[job.gen] :
       /\ StopTransports(job.gen, failing)
       /\ Finish(job.err \/ failing # {})
       /\ faults' = faults \cup StopFault(failing)
  /\ UNCHANGED <<plugs, jobFrame>>

JobStep == \/ TransportManagerStart \/ PluginManagerStart \/ UndoTransports
           \/ PluginManagerStop \/ TransportManagerStop
-----------------------------------------------------------------------------
Next == \/ \E c \in Configs \cup {Bad} : Write(c)
        \/ Notify \/ Fire \/ LoopExit
        \/ RunWatch \/ RunStart \/ Cancel \/ RunStop \/ RunClose
        \/ Reload
        \/ JobStep

Spec == Init /\ [][Next]_vars

\* Goroutines that can run do, the timer fires, and every call of a plugin or a
\* transport returns (Stop and Close have 30 seconds; New and Start are assumed
\* to).  Nobody need write the file or end the agent.
Fairness == /\ WF_vars(Notify) /\ WF_vars(Fire) /\ WF_vars(LoopExit)
            /\ WF_vars(RunWatch) /\ WF_vars(RunStart) /\ WF_vars(RunStop)
            /\ WF_vars(RunClose) /\ WF_vars(Reload) /\ WF_vars(JobStep)

FairSpec == Spec /\ Fairness
-----------------------------------------------------------------------------
(* Properties *)

\* Besides the types: r.mu is held exactly while there is a job, and there are
\* never more generations than writes.
TypeOK ==
  /\ file \in Configs \cup {Bad} /\ writes \in 0..MaxWrites
  /\ {missed, timer, ctxDone} \subseteq BOOLEAN
  /\ loop \in {"off", "on", "closing", "gone"}
  /\ {notices, waiting} \subseteq 0..MaxWrites
  /\ rpc \in {"watch", "start", "serving", "close", "returned"}
  /\ mu \in {"free", "run", "reload"}
  /\ job \in [goal : Starts \cup Stops \cup {"none"}, gen : Gens,
              call : {"transports", "plugins", "undo", "none"}, err : BOOLEAN]
  /\ mu = "free" <=> job = Idle
  /\ made \in Gens /\ current \in 0..made
  /\ made + waiting + notices + (IF timer THEN 1 ELSE 0) <= writes
  /\ cfg \in [Gens -> Configs]
  /\ plugs \in [Gens -> SUBSET Plugins]
  /\ {started, up, dead} \subseteq [Gens -> SUBSET Transports]
  /\ faults \subseteq {"start", "stop", "restore"}

complete(g) == plugs[g] = Enabled[cfg[g]] /\ started[g] = Transports /\ up[g] = Transports
busy(g) == plugs[g] \cup started[g] # {}

\* A reload is all or nothing: between jobs the agent runs all of r.current and
\* nothing else, however many candidates did not start, unless a Stop failed or
\* the old generation could not be started again.
RollbackRestores ==
  mu = "free" /\ rpc = "serving" /\ faults \subseteq {"start"} =>
    complete(current) /\ \A g \in Gens \ {current} : ~busy(g)

\* Two generations are never at work together: the plugins of the old config let
\* go of the hardware, its transports of the broker, before the new ones start.
OneGeneration ==
  "stop" \notin faults => \A g, h \in Gens : busy(g) /\ busy(h) => g = h

\* A plugin runs only while every transport of its generation is up to hear of its
\* entities, through switches, rollbacks and the shutdown.  Two exceptions: a transport
\* whose Stop failed has stopped to serve and is still in m.started, so the Start that
\* restores the generation skips it and goes on to the plugins; and when a reload has
\* come before Run's own start, that start finds the plugins running, fails, and stops
\* the transports alone.
TransportsFirst ==
  \A g \in Gens : plugs[g] # {} =>
    Transports \ up[g] \subseteq dead[g] \/ job.goal = "run" \/ rpc \in {"close", "returned"}

\* No change of the config is lost: if the agent goes on and no call fails, it ends
\* up with what is on disk, however the writes fall relative to the debounce
\* timer and to reloads that are waiting or running.  A write between the first
\* load and the watch goes unnoticed until the next one.
AppliesLastConfig ==
  (<>[](rpc = "serving" /\ ~missed /\ faults = {} /\ file \in Configs))
    => <>[](cfg[current] = file)

\* The agent can be ended at any time, also in the middle of a reload.
RunReturns == ctxDone ~> rpc = "returned"
=============================================================================
