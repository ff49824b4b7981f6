--------------------------- MODULE Runtime_proofs ---------------------------
(***************************************************************************)
(* Proofs about Runtime: a reload is all or nothing, two generations are   *)
(* never at work together, and plugins run only over their transports, for *)
(* any plugins, transports and configs and however often the file is       *)
(* written.                                                                *)
(***************************************************************************)
EXTENDS Runtime, TLAPS

\* The generation that is at work, or that the job is about.
Working == IF job.goal = "none" THEN current ELSE job.gen

\* Which generation each goal is about.
JobInv ==
  /\ job.goal \in {"run", "retire", "restore", "shutdown"} => job.gen = current
  /\ job.goal \in {"switch", "discard"} => job.gen = made

\* Plugins run in one generation only, and in none once they are being or have
\* been stopped, up to the end of the start of a new one.
PlugInv ==
  \A g \in Gens :
    /\ plugs[g] \subseteq Enabled[cfg[g]]
    /\ plugs[g] # {} =>
         /\ g = Working
         /\ \/ job.goal \in {"none", "run"}
            \/ job.goal \in {"retire", "shutdown"} /\ job.call = "plugins"

\* So do transports, unless one could not be stopped.
StartedInv ==
  "stop" \notin faults =>
    \A g \in Gens : /\ up[g] = started[g]
                    /\ started[g] # {} => g = Working

\* By the manager's map every transport is started before a plugin runs ...
StartedFirst ==
  \A g \in Gens : plugs[g] # {} =>
    started[g] = Transports \/ job.goal = "run" \/ rpc \in {"close", "returned"}

FirstInv ==
  /\ job.goal \in Starts /\ job.call = "plugins" => started[job.gen] = Transports
  /\ StartedFirst

\* ... and what is in the map and does not serve has failed to stop.
DeadInv == \A g \in Gens : started[g] \ up[g] \subseteq dead[g]

RestoreInv ==
  /\ job.goal = "restore" /\ job.call = "undo" => "restore" \in faults
  /\ job.goal = "none" /\ rpc = "serving" /\ faults \subseteq {"start"} =>
       complete(current)

IInv == TypeOK /\ JobInv /\ PlugInv /\ StartedInv /\ FirstInv /\ DeadInv /\ RestoreInv

-----------------------------------------------------------------------------
(* What the steps do to the generations *)

\* Steps that leave jobs and generations alone.
Quiet == /\ UNCHANGED <<job, mu, current, made, cfg, plugs, started, up, dead, faults>>
         /\ rpc' = "serving" => rpc = "serving"
         /\ rpc \in {"close", "returned"} => rpc' \in {"close", "returned"}

\* A job begins: the start of Run, the shutdown, or a reload.
Begins == /\ job.goal = "none" /\ job.call = "none"
          /\ job'.goal \in {"run", "shutdown", "retire"}
          /\ job' = Job(job'.goal, current)
          /\ UNCHANGED <<current, plugs, started, up, dead, rpc, faults>>
          /\ \/ UNCHANGED <<made, cfg>>
             \/ /\ made' = made + 1 /\ made + 1 \in Gens
                /\ \E c \in Configs : cfg' = [cfg EXCEPT ![made + 1] = c]

\* Every step is one of three kinds.
LEMMA StepKinds == TypeOK /\ [Next]_vars => Quiet \/ Begins \/ JobStep
<1> SUFFICES ASSUME TypeOK, [Next]_vars PROVE Quiet \/ Begins \/ JobStep
  OBVIOUS
<1> USE DEF diskVars, watchVars, genVars, partVars
<1>1. ASSUME NEW c \in Configs \cup {Bad}, Write(c) PROVE Quiet
  BY <1>1 DEF Write, Quiet
<1>2. CASE Notify
  BY <1>2 DEF Notify, Quiet
<1>3. CASE Fire
  BY <1>3 DEF Fire, Quiet
<1>4. CASE LoopExit
  BY <1>4 DEF LoopExit, Quiet
<1>5. CASE RunWatch
  BY <1>5 DEF RunWatch, Quiet
<1>6. CASE RunStart
  BY <1>6 DEF RunStart, Begins, Job, Idle, TypeOK
<1>7. CASE Cancel
  BY <1>7 DEF Cancel, Quiet
<1>8. CASE RunStop
  BY <1>8 DEF RunStop, Begins, Job, Idle, TypeOK
<1>9. CASE RunClose
  BY <1>9 DEF RunClose, Quiet
<1>10. CASE Reload
  <2>1. CASE file \notin Configs
    BY <1>10, <2>1 DEF Reload, Quiet
  <2>2. CASE file \in Configs
    <3>1. made + 1 \in Gens
      BY <1>10, ConstantsAssumption DEF Reload, TypeOK, Gens
    <3>2. QED
      BY <1>10, <2>2, <3>1 DEF Reload, Begins, Job, Idle, TypeOK
  <2>3. QED
    BY <2>1, <2>2
<1>11. CASE UNCHANGED vars
  BY <1>11 DEF vars, Quiet
<1>12. QED
  BY <1>1, <1>2, <1>3, <1>4, <1>5, <1>6, <1>7, <1>8, <1>9, <1>10, <1>11 DEF Next

-----------------------------------------------------------------------------
(* Types *)

Jobs == [goal : Starts \cup Stops \cup {"none"}, gen : Gens,
         call : {"transports", "plugins", "undo", "none"}, err : BOOLEAN]

LEMMA JobTyped ==
  ASSUME NEW goal \in Starts \cup Stops, NEW g \in Gens
  PROVE  Job(goal, g) \in Jobs /\ Job(goal, g) # Idle
BY DEF Job, Jobs, FirstCall, Idle, Starts, Stops

LEMMA IdleTyped == Idle \in Jobs
BY ConstantsAssumption DEF Idle, Jobs, Gens

\* The variables that the end of a call of a generation changes.
JobTypeOK == /\ job \in Jobs /\ mu \in {"free", "run", "reload"}
             /\ mu = "free" <=> job = Idle
             /\ rpc \in {"watch", "start", "serving", "close", "returned"}
             /\ current \in 0..made

LEMMA FinishTyped ==
  ASSUME TypeOK, NEW err, job.goal \in Starts \cup Stops, Finish(err), made' = made
  PROVE  JobTypeOK'
<1>1. made \in Gens /\ current \in 0..made /\ current \in Gens /\ mu # "free"
  BY ConstantsAssumption DEF TypeOK, Gens, Idle, Starts, Stops
<1>2. /\ mu \in {"free", "run", "reload"}
      /\ rpc \in {"watch", "start", "serving", "close", "returned"}
  BY DEF TypeOK
<1>3. ASSUME NEW pc \in {"close", "serving", rpc}, NEW g \in 0..made, Unlock(pc, g)
      PROVE  JobTypeOK'
  BY <1>1, <1>2, <1>3, IdleTyped DEF Unlock, JobTypeOK
<1>4. ASSUME NEW goal \in Starts \cup Stops, NEW g \in Gens, Then(goal, g)
      PROVE  JobTypeOK'
  BY <1>1, <1>2, <1>4, JobTyped DEF Then, JobTypeOK
<1>5. QED
  BY <1>1, <1>3, <1>4 DEF Finish, Starts, Stops

LEMMA CallTyped ==
  ASSUME TypeOK, job.goal \in Starts \cup Stops, made' = made,
         NEW call \in {"transports", "plugins", "undo"}, NEW err \in BOOLEAN, Call(call, err)
  PROVE  JobTypeOK'
<1>1. job \in Jobs /\ job # Idle /\ mu # "free"
  BY DEF TypeOK, Jobs, Idle, Starts, Stops
<1>2. job' \in Jobs /\ job'.goal = job.goal
  BY <1>1 DEF Call, Jobs
<1>3. job' # Idle
  BY <1>2 DEF Idle, Starts, Stops
<1>4. QED
  BY <1>1, <1>2, <1>3 DEF Call, JobTypeOK, TypeOK

\* A call of a manager keeps the types.
LEMMA JobStepTypeOK == TypeOK /\ JobStep => TypeOK'
<1> SUFFICES ASSUME TypeOK, JobStep PROVE TypeOK'
  OBVIOUS
<1> USE DEF jobFrame, diskVars, watchVars, genVars
<1>1. ASSUME JobTypeOK', UNCHANGED jobFrame,
             plugs' \in [Gens -> SUBSET Plugins],
             {started', up', dead'} \subseteq [Gens -> SUBSET Transports],
             faults' \subseteq {"start", "stop", "restore"}
      PROVE  TypeOK'
  BY <1>1 DEF TypeOK, JobTypeOK, Jobs
<1>2. /\ job.gen \in Gens /\ job \in Jobs
      /\ plugs \in [Gens -> SUBSET Plugins]
      /\ started \in [Gens -> SUBSET Transports] /\ up \in [Gens -> SUBSET Transports]
      /\ dead \in [Gens -> SUBSET Transports]
      /\ faults \subseteq {"start", "stop", "restore"}
  BY DEF TypeOK, Jobs
<1>3. StartFault \subseteq {"start", "stop", "restore"}
  BY DEF StartFault
<1>4. \A set : StopFault(set) \subseteq {"start", "stop", "restore"}
  BY DEF StopFault
<1>5. ASSUME NEW failing \in SUBSET Transports, StopTransports(job.gen, failing)
      PROVE  {started', up', dead'} \subseteq [Gens -> SUBSET Transports]
  BY <1>2, <1>5 DEF StopTransports
<1>6. CASE TransportManagerStart
  <2> DEFINE missing == Transports \ started[job.gen]
  <2>1. job.goal \in Starts \cup Stops /\ UNCHANGED <<plugs, jobFrame>>
    BY <1>6 DEF TransportManagerStart, At
  <2>2. CASE /\ started' = [started EXCEPT ![job.gen] = Transports]
             /\ up' = [up EXCEPT ![job.gen] = @ \cup missing]
             /\ Call("plugins", FALSE)
             /\ UNCHANGED <<dead, faults>>
    <3>1. JobTypeOK'
      BY <2>1, <2>2, CallTyped
    <3>2. {started', up', dead'} \subseteq [Gens -> SUBSET Transports]
      BY <1>2, <2>2
    <3>3. QED
      BY <1>1, <1>2, <2>1, <2>2, <3>1, <3>2
  <2>3. ASSUME NEW t \in missing, NEW failing \in SUBSET (started[job.gen] \cup {i \in missing : i < t}),
               StopTransports(job.gen, failing), Finish(TRUE),
               faults' = faults \cup StartFault \cup StopFault(failing)
        PROVE  TypeOK'
    <3>1. JobTypeOK'
      BY <2>1, <2>3, FinishTyped
    <3>2. failing \in SUBSET Transports
      BY <1>2
    <3>3. QED
      BY <1>1, <1>2, <1>3, <1>4, <1>5, <2>1, <2>3, <3>1, <3>2
  <2>4. QED
    BY <1>6, <2>2, <2>3 DEF TransportManagerStart
<1>7. CASE PluginManagerStart
  <2> DEFINE on == Enabled[cfg[job.gen]]
             upTo(p) == {q \in on : q < p}
  <2>1. job.goal \in Starts \cup Stops /\ UNCHANGED <<started, up, dead, jobFrame>>
    BY <1>7 DEF PluginManagerStart, At
  <2>2. on \in SUBSET Plugins
    BY <1>2, ConstantsAssumption DEF TypeOK
  <2>3. CASE /\ plugs' = [plugs EXCEPT ![job.gen] = @ \cup on]
             /\ Finish(FALSE)
             /\ UNCHANGED faults
    <3>1. JobTypeOK'
      BY <2>1, <2>3, FinishTyped
    <3>2. plugs' \in [Gens -> SUBSET Plugins]
      BY <1>2, <2>2, <2>3
    <3>3. QED
      BY <1>1, <1>2, <2>1, <2>3, <3>1, <3>2
  <2>4. ASSUME NEW p \in on, Call("undo", TRUE),
               \/ /\ plugs' = [plugs EXCEPT ![job.gen] = @ \cup upTo(p)]
                  /\ UNCHANGED faults
               \/ /\ plugs' = [plugs EXCEPT ![job.gen] = {}]
                  /\ \E failing \in SUBSET (plugs[job.gen] \cup upTo(p) \cup {p}) :
                       faults' = faults \cup StartFault \cup StopFault(failing)
        PROVE  TypeOK'
    <3>1. JobTypeOK'
      BY <2>1, <2>4, CallTyped
    <3>2. plugs' \in [Gens -> SUBSET Plugins]
      BY <1>2, <2>2, <2>4
    <3>3. faults' \subseteq {"start", "stop", "restore"}
      BY <1>2, <1>3, <1>4, <2>4
    <3>4. QED
      BY <1>1, <1>2, <2>1, <3>1, <3>2, <3>3
  <2>5. QED
    BY <1>7, <2>3, <2>4 DEF PluginManagerStart
<1>8. CASE UndoTransports
  <2>1. job.goal \in Starts \cup Stops /\ UNCHANGED <<plugs, jobFrame>> /\ Finish(TRUE)
    BY <1>8 DEF UndoTransports, At
  <2>2. JobTypeOK'
    BY <2>1, FinishTyped
  <2>3. PICK failing \in SUBSET started[job.gen] :
          /\ StopTransports(job.gen, failing)
          /\ faults' = faults \cup StopFault(failing)
    BY <1>8 DEF UndoTransports
  <2>4. failing \in SUBSET Transports
    BY <1>2
  <2>5. QED
    BY <1>1, <1>2, <1>4, <1>5, <2>1, <2>2, <2>3, <2>4
<1>9. CASE PluginManagerStop
  <2>1. job.goal \in Starts \cup Stops /\ UNCHANGED <<started, up, dead, jobFrame>>
    BY <1>9 DEF PluginManagerStop, At
  <2>2. PICK failing \in SUBSET plugs[job.gen] :
          /\ plugs' = [plugs EXCEPT ![job.gen] = {}]
          /\ Call("transports", failing # {})
          /\ faults' = faults \cup StopFault(failing)
    BY <1>9 DEF PluginManagerStop
  <2>3. JobTypeOK'
    BY <2>1, <2>2, CallTyped
  <2>4. QED
    BY <1>1, <1>2, <1>4, <2>1, <2>2, <2>3
<1>10. CASE TransportManagerStop
  <2>1. job.goal \in Starts \cup Stops /\ UNCHANGED <<plugs, jobFrame>>
    BY <1>10 DEF TransportManagerStop, At
  <2>2. PICK failing \in SUBSET started[job.gen] :
          /\ StopTransports(job.gen, failing)
          /\ Finish(job.err \/ failing # {})
          /\ faults' = faults \cup StopFault(failing)
    BY <1>10 DEF TransportManagerStop
  <2>3. JobTypeOK'
    BY <2>1, <2>2, FinishTyped
  <2>4. failing \in SUBSET Transports
    BY <1>2
  <2>5. QED
    BY <1>1, <1>2, <1>4, <1>5, <2>1, <2>2, <2>3, <2>4
<1>11. QED
  BY <1>6, <1>7, <1>8, <1>9, <1>10 DEF JobStep
-----------------------------------------------------------------------------
(* Jobs *)

LEMMA Calling ==
  ASSUME job \in Jobs, NEW call, NEW err, Call(call, err)
  PROVE  /\ job'.goal = job.goal /\ job'.gen = job.gen /\ job'.call = call
         /\ UNCHANGED <<mu, rpc, current>>
BY DEF Call, Jobs

\* Whatever a job ends with, what it was about is current then.
LEMMA Finishing ==
  ASSUME JobInv, NEW err, job.goal \in Starts \cup Stops, Finish(err), made' = made
  PROVE  /\ JobInv'
         /\ job'.goal \in {"none", "restore", "switch", "discard"}
         /\ job'.goal = "none" => current' = job.gen /\ job.goal \in {"run", "shutdown", "switch", "restore"}
         /\ job'.goal \in {"restore", "switch"} => job.goal \in Stops /\ job'.call = "transports"
         /\ job'.goal = "discard" => job.goal = "switch" /\ err /\ job'.gen = job.gen
                                      /\ job'.call = "plugins"
         /\ job'.goal = "none" /\ job.goal = "switch" => ~err
         /\ job.goal = "run" =>
              job'.goal = "none" /\ rpc' = IF err THEN "close" ELSE "serving"
         /\ job.goal = "shutdown" => job'.goal = "none" /\ rpc' = "close"
         /\ job.goal \notin {"run", "shutdown"} => rpc' = rpc
BY DEF Finish, Unlock, Then, Job, Idle, FirstCall, JobInv, Starts, Stops

LEMMA JobStepKinds ==
  TypeOK /\ JobStep =>
    /\ UNCHANGED <<made, cfg>> /\ job.goal \in Starts \cup Stops
    /\ job \in Jobs /\ job.gen \in Gens
BY DEF JobStep, TransportManagerStart, PluginManagerStart, UndoTransports, PluginManagerStop,
       TransportManagerStop, jobFrame, genVars, At, TypeOK, Jobs

LEMMA JobInvStep == TypeOK /\ JobInv /\ JobStep => JobInv'
<1> SUFFICES ASSUME TypeOK, JobInv, JobStep PROVE JobInv'
  OBVIOUS
<1>1. job \in Jobs /\ job.goal \in Starts \cup Stops /\ made' = made
  BY JobStepKinds
<1>2. ASSUME NEW err, Finish(err) PROVE JobInv'
  BY <1>1, <1>2, Finishing
<1>3. ASSUME NEW call, NEW err, Call(call, err) PROVE JobInv'
  BY <1>1, <1>3, Calling DEF JobInv
<1>4. QED
  BY <1>2, <1>3 DEF JobStep, TransportManagerStart, PluginManagerStart, UndoTransports,
                    PluginManagerStop, TransportManagerStop

-----------------------------------------------------------------------------
(* Plugins *)

LEMMA PlugInvStep == TypeOK /\ JobInv /\ PlugInv /\ JobStep => PlugInv'
<1> SUFFICES ASSUME TypeOK, JobInv, PlugInv, JobStep PROVE PlugInv'
  OBVIOUS
<1>1. /\ job \in Jobs /\ job.goal \in Starts \cup Stops /\ job.gen \in Gens
      /\ made' = made /\ cfg' = cfg
      /\ plugs \in [Gens -> SUBSET Plugins]
  BY JobStepKinds DEF TypeOK
<1>2. job.goal # "none" /\ Working = job.gen
  BY <1>1 DEF Working, Starts, Stops
<1>3. ASSUME \A g \in Gens : plugs'[g] = {} PROVE PlugInv'
  BY <1>3 DEF PlugInv
<1>4. ASSUME job.goal \notin {"run", "retire", "shutdown"} PROVE \A g \in Gens : plugs[g] = {}
  BY <1>2, <1>4 DEF PlugInv
<1>5. ASSUME job.call # "plugins", job.goal # "run" PROVE \A g \in Gens : plugs[g] = {}
  BY <1>2, <1>5 DEF PlugInv
<1>6. ASSUME NEW err, Finish(err), job.goal = "run", UNCHANGED plugs PROVE PlugInv'
  <2>1. job'.goal = "none" /\ current' = job.gen
    BY <1>1, <1>6, Finishing
  <2>2. Working' = job.gen
    BY <2>1 DEF Working
  <2>3. QED
    BY <1>1, <1>2, <1>6, <2>1, <2>2 DEF PlugInv
<1>7. CASE TransportManagerStart
  <2>1. UNCHANGED plugs /\ job.goal \in Starts /\ job.call = "transports"
    BY <1>7 DEF TransportManagerStart, At
  <2>2. CASE job.goal # "run"
    BY <1>3, <1>5, <2>1, <2>2
  <2>3. CASE job.goal = "run" /\ \E err : Finish(err)
    BY <1>6, <2>1, <2>3
  <2>4. CASE job.goal = "run" /\ Call("plugins", FALSE)
    <3>1. job'.goal = "run" /\ Working' = job.gen
      BY <1>1, <2>4, Calling DEF Working
    <3>2. QED
      BY <1>1, <1>2, <2>1, <3>1 DEF PlugInv
  <2>5. QED
    BY <1>7, <2>2, <2>3, <2>4 DEF TransportManagerStart
<1>8. CASE PluginManagerStart
  <2> DEFINE on == Enabled[cfg[job.gen]]
             upTo(p) == {q \in on : q < p}
  <2>1. job.goal \in Starts
    BY <1>8 DEF PluginManagerStart, At
  <2>2. CASE plugs' = [plugs EXCEPT ![job.gen] = @ \cup on] /\ Finish(FALSE)
    <3>1. job'.goal = "none" /\ current' = job.gen
      BY <1>1, <2>1, <2>2, Finishing DEF Starts, Stops
    <3>2. Working' = job.gen
      BY <3>1 DEF Working
    <3>3. \A g \in Gens : /\ plugs'[g] \subseteq Enabled[cfg[g]]
                          /\ plugs'[g] # {} => g = job.gen
      BY <1>1, <1>2, <2>2 DEF PlugInv
    <3>4. QED
      BY <1>1, <3>1, <3>2, <3>3 DEF PlugInv
  <2>3. ASSUME NEW p \in on, p \in plugs[job.gen], Call("undo", TRUE),
               plugs' = [plugs EXCEPT ![job.gen] = @ \cup upTo(p)]
        PROVE  PlugInv'
    <3>1. job.goal = "run"
      BY <1>1, <1>4, <2>1, <2>3 DEF Starts
    <3>2. job'.goal = "run" /\ Working' = job.gen
      BY <1>1, <2>3, <3>1, Calling DEF Working
    <3>3. \A g \in Gens : /\ plugs'[g] \subseteq Enabled[cfg[g]]
                          /\ plugs'[g] # {} => g = job.gen
      BY <1>1, <1>2, <2>3 DEF PlugInv
    <3>4. QED
      BY <1>1, <3>2, <3>3 DEF PlugInv
  <2>4. CASE plugs' = [plugs EXCEPT ![job.gen] = {}]
    BY <1>1, <1>2, <1>3, <2>4 DEF PlugInv
  <2>5. QED
    BY <1>8, <2>2, <2>3, <2>4 DEF PluginManagerStart
<1>9. CASE UndoTransports
  <2>1. UNCHANGED plugs /\ job.call = "undo" /\ Finish(TRUE)
    BY <1>9 DEF UndoTransports, At
  <2>2. QED
    BY <1>3, <1>5, <1>6, <2>1
<1>10. CASE PluginManagerStop
  <2>1. plugs' = [plugs EXCEPT ![job.gen] = {}]
    BY <1>10 DEF PluginManagerStop
  <2>2. QED
    BY <1>1, <1>2, <1>3, <2>1 DEF PlugInv
<1>11. CASE TransportManagerStop
  <2>1. UNCHANGED plugs /\ job.call = "transports" /\ job.goal \in Stops
    BY <1>11 DEF TransportManagerStop, At
  <2>2. QED
    BY <1>3, <1>5, <2>1 DEF Stops
<1>12. QED
  BY <1>7, <1>8, <1>9, <1>10, <1>11 DEF JobStep
-----------------------------------------------------------------------------
(* Transports *)

\* Without a fault no Stop has failed.
LEMMA NoStopFault == \A set : "stop" \notin StopFault(set) => set = {}
BY DEF StopFault

LEMMA StartedInvStep == TypeOK /\ JobInv /\ StartedInv /\ JobStep => StartedInv'
<1> SUFFICES ASSUME TypeOK, JobInv, StartedInv, JobStep, "stop" \notin faults'
             PROVE  \A g \in Gens : /\ up'[g] = started'[g]
                                    /\ started'[g] # {} => g = Working'
  BY DEF StartedInv
<1>1. /\ job \in Jobs /\ job.goal \in Starts \cup Stops /\ job.gen \in Gens /\ made' = made
      /\ started \in [Gens -> SUBSET Transports] /\ up \in [Gens -> SUBSET Transports]
  BY JobStepKinds DEF TypeOK
<1>2. job.goal # "none" /\ Working = job.gen
  BY <1>1 DEF Working, Starts, Stops
<1>3. "stop" \notin faults
  BY DEF JobStep, TransportManagerStart, PluginManagerStart, UndoTransports, PluginManagerStop,
         TransportManagerStop
<1>4. \A g \in Gens : up[g] = started[g] /\ (started[g] # {} => g = job.gen)
  BY <1>2, <1>3 DEF StartedInv
<1>5. ASSUME NEW call, NEW err, Call(call, err) PROVE Working' = job.gen
  BY <1>1, <1>2, <1>5, Calling DEF Working
<1>6. ASSUME StopTransports(job.gen, {})
      PROVE  \A g \in Gens : up'[g] = {} /\ started'[g] = {}
  BY <1>1, <1>4, <1>6 DEF StopTransports
<1>7. CASE TransportManagerStart
  <2> DEFINE missing == Transports \ started[job.gen]
  <2>1. CASE /\ started' = [started EXCEPT ![job.gen] = Transports]
             /\ up' = [up EXCEPT ![job.gen] = @ \cup missing]
             /\ Call("plugins", FALSE)
    <3>1. Working' = job.gen
      BY <1>5, <2>1
    <3>2. up'[job.gen] = Transports /\ started'[job.gen] = Transports
      BY <1>1, <1>4, <2>1
    <3>3. \A g \in Gens \ {job.gen} : up'[g] = up[g] /\ started'[g] = started[g]
      BY <1>1, <2>1
    <3>4. QED
      BY <1>1, <1>4, <3>1, <3>2, <3>3
  <2>2. ASSUME NEW failing, StopTransports(job.gen, failing),
               faults' = faults \cup StartFault \cup StopFault(failing)
        PROVE  \A g \in Gens : up'[g] = {} /\ started'[g] = {}
    BY <1>6, <2>2, NoStopFault
  <2>3. QED
    BY <1>7, <2>1, <2>2 DEF TransportManagerStart
<1>8. CASE PluginManagerStart
  <2>1. UNCHANGED <<started, up>> /\ job.goal \in Starts
    BY <1>8 DEF PluginManagerStart, At
  <2>2. ASSUME Finish(FALSE) PROVE Working' = job.gen
    BY <1>1, <2>1, <2>2, Finishing DEF Working, Starts, Stops
  <2>3. Working' = job.gen
    BY <1>5, <1>8, <2>2 DEF PluginManagerStart
  <2>4. QED
    BY <1>4, <2>1, <2>3
<1>9. CASE UndoTransports
  BY <1>6, <1>9, NoStopFault DEF UndoTransports
<1>10. CASE PluginManagerStop
  <2>1. UNCHANGED <<started, up>> /\ Working' = job.gen
    BY <1>5, <1>10 DEF PluginManagerStop
  <2>2. QED
    BY <1>4, <2>1
<1>11. CASE TransportManagerStop
  BY <1>6, <1>11, NoStopFault DEF TransportManagerStop
<1>12. QED
  BY <1>7, <1>8, <1>9, <1>10, <1>11 DEF JobStep

LEMMA FirstInvStep == TypeOK /\ JobInv /\ PlugInv /\ FirstInv /\ JobStep => FirstInv'
<1> SUFFICES ASSUME TypeOK, JobInv, PlugInv, FirstInv, JobStep PROVE FirstInv'
  OBVIOUS
<1> DEFINE Placed == job.goal \in Starts /\ job.call = "plugins" => started[job.gen] = Transports
<1>1. /\ job \in Jobs /\ job.goal \in Starts \cup Stops /\ job.gen \in Gens /\ made' = made
      /\ started \in [Gens -> SUBSET Transports]
      /\ plugs \in [Gens -> SUBSET Plugins]
  BY JobStepKinds DEF TypeOK
<1>2. /\ Working = job.gen
      /\ \A g \in Gens : plugs[g] # {} => g = job.gen
  BY <1>1 DEF Working, PlugInv, Starts, Stops
<1>3. ASSUME job.goal # "run", job.call # "plugins" PROVE \A g \in Gens : plugs[g] = {}
  BY <1>1, <1>3 DEF PlugInv, Starts, Stops
<1>4. ASSUME NEW err, Finish(err) PROVE Placed'
  <2>1. job'.goal \notin Starts \/ job'.call = "transports"
    BY <1>1, <1>4, Finishing DEF Starts
  <2>2. QED
    BY <2>1
<1>5. ASSUME Finish(TRUE), job.goal = "run" PROVE rpc' = "close"
  BY <1>1, <1>5, Finishing
<1>6. CASE TransportManagerStart
  <2>1. UNCHANGED plugs /\ job.goal \in Starts /\ job.call = "transports"
    BY <1>6 DEF TransportManagerStart, At
  <2>2. CASE Finish(TRUE)
    BY <1>3, <1>4, <1>5, <2>1, <2>2 DEF FirstInv, StartedFirst
  <2>3. CASE /\ started' = [started EXCEPT ![job.gen] = Transports]
             /\ Call("plugins", FALSE)
    <3>1. job'.gen = job.gen /\ started'[job.gen] = Transports
      BY <1>1, <2>3, Calling
    <3>2. QED
      BY <1>2, <2>1, <3>1 DEF FirstInv, StartedFirst
  <2>4. QED
    BY <1>6, <2>2, <2>3 DEF TransportManagerStart
<1>7. CASE PluginManagerStart
  <2>1. started' = started /\ started[job.gen] = Transports /\ job.goal \in Starts
    BY <1>7 DEF PluginManagerStart, At, FirstInv
  <2>2. \A g \in Gens : plugs'[g] # {} => g = job.gen
    BY <1>1, <1>2, <1>7 DEF PluginManagerStart
  <2>3. CASE Finish(FALSE)
    BY <1>4, <2>1, <2>2, <2>3 DEF FirstInv, StartedFirst
  <2>4. CASE Call("undo", TRUE)
    <3>1. job'.call = "undo"
      BY <1>1, <2>4, Calling
    <3>2. QED
      BY <2>1, <2>2, <3>1 DEF FirstInv, StartedFirst
  <2>5. QED
    BY <1>7, <2>3, <2>4 DEF PluginManagerStart
<1>8. CASE UndoTransports
  <2>1. UNCHANGED plugs /\ job.call = "undo" /\ Finish(TRUE)
    BY <1>8 DEF UndoTransports, At
  <2>2. QED
    BY <1>3, <1>4, <1>5, <2>1 DEF FirstInv, StartedFirst
<1>9. CASE PluginManagerStop
  <2>1. plugs' = [plugs EXCEPT ![job.gen] = {}] /\ \E err : Call("transports", err)
    BY <1>9 DEF PluginManagerStop
  <2>2. \A g \in Gens : plugs'[g] = {}
    BY <1>1, <1>2, <2>1
  <2>3. job'.call = "transports"
    BY <1>1, <2>1, Calling
  <2>4. QED
    BY <2>2, <2>3 DEF FirstInv, StartedFirst
<1>10. CASE TransportManagerStop
  <2>1. /\ UNCHANGED plugs /\ job.call = "transports" /\ job.goal \in Stops
        /\ \E err : Finish(err)
    BY <1>10 DEF TransportManagerStop, At
  <2>2. \A g \in Gens : plugs'[g] = {}
    BY <1>3, <2>1 DEF Stops
  <2>3. QED
    BY <1>4, <2>1, <2>2 DEF FirstInv, StartedFirst
<1>11. QED
  BY <1>6, <1>7, <1>8, <1>9, <1>10 DEF JobStep

LEMMA DeadInvStep == TypeOK /\ DeadInv /\ JobStep => DeadInv'
<1> SUFFICES ASSUME TypeOK, DeadInv, JobStep PROVE DeadInv'
  OBVIOUS
<1>1. /\ job.gen \in Gens
      /\ {started, up, dead} \subseteq [Gens -> SUBSET Transports]
  BY JobStepKinds DEF TypeOK
<1>2. ASSUME NEW failing, StopTransports(job.gen, failing) PROVE DeadInv'
  BY <1>1, <1>2 DEF StopTransports, DeadInv
<1>3. CASE TransportManagerStart
  <2>1. CASE /\ started' = [started EXCEPT ![job.gen] = Transports]
             /\ up' = [up EXCEPT ![job.gen] = @ \cup (Transports \ started[job.gen])]
             /\ UNCHANGED dead
    BY <1>1, <2>1 DEF DeadInv
  <2>2. QED
    BY <1>2, <1>3, <2>1 DEF TransportManagerStart
<1>4. CASE PluginManagerStart \/ PluginManagerStop
  BY <1>4 DEF PluginManagerStart, PluginManagerStop, DeadInv
<1>5. CASE UndoTransports \/ TransportManagerStop
  BY <1>2, <1>5 DEF UndoTransports, TransportManagerStop
<1>6. QED
  BY <1>3, <1>4, <1>5 DEF JobStep

-----------------------------------------------------------------------------
(* Rollback *)

LEMMA RestoreInvStep ==
  TypeOK /\ JobInv /\ PlugInv /\ StartedInv /\ FirstInv /\ RestoreInv /\ JobStep => RestoreInv'
<1> SUFFICES ASSUME TypeOK, JobInv, PlugInv, StartedInv, FirstInv, RestoreInv, JobStep
             PROVE  RestoreInv'
  OBVIOUS
<1>1. /\ job \in Jobs /\ job.goal \in Starts \cup Stops /\ job.gen \in Gens
      /\ made' = made /\ cfg' = cfg
      /\ started \in [Gens -> SUBSET Transports] /\ up \in [Gens -> SUBSET Transports]
      /\ plugs \in [Gens -> SUBSET Plugins]
  BY JobStepKinds DEF TypeOK
<1>2. faults \subseteq faults'
  BY DEF JobStep, TransportManagerStart, PluginManagerStart, UndoTransports, PluginManagerStop,
         TransportManagerStop
<1>4. ASSUME NEW err, Finish(err), job'.goal = "none" => rpc' # "serving" \/ "restore" \in faults'
      PROVE  RestoreInv'
  <2>1. ~(job'.goal = "restore" /\ job'.call = "undo")
    BY <1>1, <1>4, Finishing
  <2>2. QED
    BY <1>4, <2>1 DEF RestoreInv
<1>5. ASSUME NEW call, NEW err, Call(call, err), call # "undo" PROVE RestoreInv'
  <2>1. job'.goal = job.goal /\ job'.call = call
    BY <1>1, <1>5, Calling
  <2>2. QED
    BY <1>1, <1>5, <2>1 DEF RestoreInv, Starts, Stops
<1>6. CASE TransportManagerStart
  <2>1. ASSUME Finish(TRUE), StartFault \subseteq faults' PROVE RestoreInv'
    <3>1. job.goal \in Starts
      BY <1>6 DEF TransportManagerStart, At
    <3>2. job'.goal = "none" => job.goal \in {"run", "restore"}
      BY <1>1, <2>1, <3>1, Finishing DEF Starts
    <3>3. job.goal = "run" => rpc' = "close"
      BY <1>1, <2>1, Finishing
    <3>4. job.goal = "restore" => "restore" \in faults'
      BY <2>1 DEF StartFault
    <3>5. QED
      BY <1>4, <2>1, <3>2, <3>3, <3>4
  <2>2. QED
    BY <1>5, <1>6, <2>1 DEF TransportManagerStart
<1>7. CASE PluginManagerStart
  <2> DEFINE on == Enabled[cfg[job.gen]]
  <2>1. job.goal \in Starts /\ job.call = "plugins" /\ UNCHANGED <<started, up>>
    BY <1>7 DEF PluginManagerStart, At
  <2>2. CASE /\ on \cap plugs[job.gen] = {}
             /\ plugs' = [plugs EXCEPT ![job.gen] = @ \cup on]
             /\ Finish(FALSE)
             /\ UNCHANGED faults
    <3>1. job'.goal = "none" /\ current' = job.gen
      BY <1>1, <2>1, <2>2, Finishing DEF Starts, Stops
    <3>2. plugs[job.gen] = {}
      BY <1>1, <2>2 DEF PlugInv
    <3>3. plugs'[job.gen] = on
      BY <1>1, <2>2, <3>2
    <3>4. started'[job.gen] = Transports
      BY <2>1 DEF FirstInv
    <3>5. faults' \subseteq {"start"} => up'[job.gen] = Transports
      BY <1>1, <2>1, <2>2, <3>4 DEF StartedInv
    <3>6. QED
      BY <1>1, <3>1, <3>3, <3>4, <3>5 DEF RestoreInv, complete
  <2>3. ASSUME Call("undo", TRUE),
               plugs[job.gen] = {} => StartFault \subseteq faults'
        PROVE  RestoreInv'
    <3>1. job'.goal = job.goal /\ job'.call = "undo"
      BY <1>1, <2>3, Calling
    <3>2. job.goal = "restore" => plugs[job.gen] = {}
      BY <1>1 DEF PlugInv
    <3>3. QED
      BY <1>1, <2>1, <2>3, <3>1, <3>2 DEF RestoreInv, StartFault, Starts
  <2>4. QED
    BY <1>7, <2>2, <2>3 DEF PluginManagerStart
<1>8. CASE UndoTransports
  <2>1. Finish(TRUE) /\ job.call = "undo" /\ job.goal \in Starts
    BY <1>8 DEF UndoTransports, At
  <2>2. job'.goal = "none" => job.goal \in {"run", "restore"}
    BY <1>1, <2>1, Finishing DEF Starts
  <2>3. job.goal = "run" => rpc' = "close"
    BY <1>1, <2>1, Finishing
  <2>4. job.goal = "restore" => "restore" \in faults'
    BY <1>2, <2>1 DEF RestoreInv
  <2>5. QED
    BY <1>4, <2>1, <2>2, <2>3, <2>4
<1>9. CASE PluginManagerStop
  BY <1>5, <1>9 DEF PluginManagerStop
<1>10. CASE TransportManagerStop
  <2>1. job.goal \in Stops /\ \E err : Finish(err)
    BY <1>10 DEF TransportManagerStop, At
  <2>2. PICK err : Finish(err)
    BY <2>1
  <2>3. job'.goal = "none" => rpc' # "serving"
    BY <1>1, <2>1, <2>2, Finishing DEF Stops
  <2>4. QED
    BY <1>4, <2>2, <2>3
<1>11. QED
  BY <1>6, <1>7, <1>8, <1>9, <1>10 DEF JobStep
-----------------------------------------------------------------------------
(* The other steps *)

LEMMA InitIInv == Init => IInv
<1> SUFFICES ASSUME Init PROVE IInv
  OBVIOUS
<1> USE ConstantsAssumption DEF Init, Gens
<1>1. TypeOK
  <2> {missed, timer, ctxDone} \subseteq BOOLEAN
    BY Zenon
  <2>1. /\ file \in Configs \cup {Bad} /\ writes \in 0..MaxWrites
        /\ loop \in {"off", "on", "closing", "gone"}
        /\ {notices, waiting} \subseteq 0..MaxWrites
        /\ rpc \in {"watch", "start", "serving", "close", "returned"}
        /\ mu \in {"free", "run", "reload"} /\ job = Idle /\ mu = "free"
    OBVIOUS
  <2>2. job \in Jobs
    BY IdleTyped
  <2>3. made + waiting + notices + (IF timer THEN 1 ELSE 0) <= writes
    OBVIOUS
  <2>4. /\ made \in Gens /\ current \in 0..made /\ cfg \in [Gens -> Configs]
        /\ plugs \in [Gens -> SUBSET Plugins]
        /\ {started, up, dead} \subseteq [Gens -> SUBSET Transports]
        /\ faults \subseteq {"start", "stop", "restore"}
    OBVIOUS
  <2>5. QED
    BY <2>1, <2>2, <2>3, <2>4 DEF TypeOK, Jobs
<1>2. JobInv /\ PlugInv /\ StartedInv /\ DeadInv
  BY DEF JobInv, PlugInv, StartedInv, DeadInv, Idle
<1>3. FirstInv /\ RestoreInv
  BY DEF FirstInv, StartedFirst, RestoreInv, Idle, Starts
<1>4. QED
  BY <1>1, <1>2, <1>3 DEF IInv

\* A job that begins finds the generation that has been at work.
LEMMA BeginsIInv ==
  ASSUME TypeOK, JobInv, PlugInv, StartedInv, FirstInv, DeadInv, Begins
  PROVE  JobInv' /\ PlugInv' /\ StartedInv' /\ FirstInv' /\ DeadInv' /\ RestoreInv'
<1>1. /\ current \in Gens /\ current \in 0..made /\ made \in Nat
      /\ cfg \in [Gens -> Configs]
      /\ \A c \in Configs : Enabled[c] \subseteq Plugins
  BY ConstantsAssumption DEF TypeOK, Gens
<1>2. /\ job'.goal \in {"run", "shutdown", "retire"} /\ job'.gen = current
      /\ job'.call = FirstCall(job'.goal)
      /\ job.goal = "none"
      /\ UNCHANGED <<current, plugs, started, up, dead, rpc, faults>>
  <2>1. \A goal, g : /\ Job(goal, g).goal = goal /\ Job(goal, g).gen = g
                     /\ Job(goal, g).call = FirstCall(goal)
    BY DEF Job
  <2>2. QED
    BY <2>1 DEF Begins
<1>3. Working' = current /\ Working = current
  BY <1>2 DEF Working
<1>4. job'.goal = "run" => job'.call = "transports"
  BY <1>2 DEF FirstCall, Starts
<1>5. job'.goal \in {"shutdown", "retire"} => job'.call = "plugins"
  BY <1>2 DEF FirstCall, Starts
<1>6. \A g \in Gens : plugs[g] # {} => g = current
  BY <1>3 DEF PlugInv
<1>7. \A g \in Gens : plugs[g] # {} => cfg'[g] = cfg[g]
  BY <1>1, <1>6 DEF Begins
<1>8. JobInv'
  BY <1>2 DEF JobInv
<1>9. PlugInv'
  BY <1>2, <1>3, <1>5, <1>6, <1>7 DEF PlugInv
<1>10. StartedInv' /\ DeadInv'
  BY <1>2, <1>3 DEF StartedInv, DeadInv
<1>11. FirstInv'
  BY <1>2, <1>4 DEF FirstInv, StartedFirst, Starts
<1>12. RestoreInv'
  BY <1>2 DEF RestoreInv
<1>13. QED
  BY <1>8, <1>9, <1>10, <1>11, <1>12

LEMMA QuietIInv ==
  ASSUME JobInv, PlugInv, StartedInv, FirstInv, DeadInv, RestoreInv, Quiet
  PROVE  JobInv' /\ PlugInv' /\ StartedInv' /\ FirstInv' /\ DeadInv' /\ RestoreInv'
<1>1. JobInv' /\ PlugInv' /\ StartedInv' /\ DeadInv'
  BY DEF Quiet, JobInv, PlugInv, StartedInv, DeadInv, Working
<1>2. FirstInv'
  BY DEF Quiet, FirstInv, StartedFirst
<1>3. RestoreInv'
  BY DEF Quiet, RestoreInv, complete
<1>4. QED
  BY <1>1, <1>2, <1>3

\* Steps of the disk, the watcher and Run, and the begin of a reload keep the types:
\* every write is one notice, timer or waiting reload until it is a generation.
LEMMA StepTypeOK == TypeOK /\ [Next]_vars => TypeOK'
<1> SUFFICES ASSUME TypeOK, [Next]_vars PROVE TypeOK'
  OBVIOUS
<1> DEFINE late == made + waiting + notices + (IF timer THEN 1 ELSE 0)
           Disk == /\ file \in Configs \cup {Bad} /\ writes \in 0..MaxWrites
                   /\ {missed, timer, ctxDone} \subseteq BOOLEAN
                   /\ loop \in {"off", "on", "closing", "gone"}
                   /\ {notices, waiting} \subseteq 0..MaxWrites
                   /\ late <= writes
                   /\ made \in Gens /\ cfg \in [Gens -> Configs]
           Parts == /\ plugs \in [Gens -> SUBSET Plugins]
                    /\ {started, up, dead} \subseteq [Gens -> SUBSET Transports]
                    /\ faults \subseteq {"start", "stop", "restore"}
<1> USE ConstantsAssumption DEF diskVars, watchVars, genVars, partVars
<1>1. Disk /\ Parts /\ JobTypeOK
  BY DEF TypeOK, JobTypeOK, Jobs
<1>2. ASSUME Disk', Parts', JobTypeOK' PROVE TypeOK'
  BY <1>2 DEF TypeOK, JobTypeOK, Jobs
<1> HIDE DEF Parts
<1>3. ASSUME UNCHANGED <<partVars, faults>> PROVE Parts'
  BY <1>1, <1>3 DEF Parts
<1>4. ASSUME UNCHANGED <<job, mu, rpc, current, made>> PROVE JobTypeOK'
  BY <1>1, <1>4 DEF JobTypeOK
<1>5. ASSUME NEW c \in Configs \cup {Bad}, Write(c) PROVE TypeOK'
  BY <1>1, <1>2, <1>3, <1>4, <1>5 DEF Write, Gens
<1>6. CASE Notify
  BY <1>1, <1>2, <1>3, <1>4, <1>6 DEF Notify, Gens
<1>7. CASE Fire
  <2>1. timer = TRUE /\ timer' = FALSE
    BY <1>1, <1>7 DEF Fire
  <2>2. /\ waiting' \in 0..MaxWrites
        /\ made' + waiting' + notices' + (IF timer' THEN 1 ELSE 0) <= writes'
    BY <1>1, <1>7, <2>1 DEF Fire, Gens
  <2>3. Disk'
    BY <1>1, <1>7, <2>1, <2>2 DEF Fire
  <2>4. QED
    BY <1>2, <1>3, <1>4, <1>7, <2>3 DEF Fire
<1>8. CASE LoopExit
  <2>1. timer' \in BOOLEAN /\ (timer' = FALSE \/ timer' = timer)
    BY <1>1, <1>8 DEF LoopExit
  <2>2. late' <= writes'
    <3>1. CASE timer' = timer
      BY <1>1, <1>8, <3>1 DEF LoopExit
    <3>2. CASE timer' = FALSE
      BY <1>1, <1>8, <3>2 DEF LoopExit, Gens
    <3>3. QED
      BY <2>1, <3>1, <3>2
  <2>3. Disk'
    BY <1>1, <1>8, <2>1, <2>2 DEF LoopExit
  <2>4. QED
    BY <1>2, <1>3, <1>4, <1>8, <2>3 DEF LoopExit
<1>9. ASSUME UNCHANGED <<diskVars, timer, waiting, genVars>>,
             loop' \in {"off", "on", "closing", "gone"}, ctxDone' \in BOOLEAN
      PROVE  Disk'
  BY <1>1, <1>9
<1>10. CASE RunWatch
  <2>1. JobTypeOK'
    BY <1>1, <1>10 DEF RunWatch, JobTypeOK
  <2>2. QED
    BY <1>1, <1>2, <1>3, <1>9, <1>10, <2>1 DEF RunWatch
<1>11. CASE RunClose
  <2>1. JobTypeOK'
    BY <1>1, <1>11 DEF RunClose, JobTypeOK
  <2>2. QED
    BY <1>1, <1>2, <1>3, <1>9, <1>11, <2>1 DEF RunClose
<1>12. CASE Cancel
  BY <1>1, <1>2, <1>3, <1>4, <1>9, <1>12 DEF Cancel
<1>13. current \in Gens
  BY <1>1 DEF JobTypeOK, Gens
<1>14. ASSUME NEW goal \in {"run", "shutdown", "retire"}, job' = Job(goal, current),
              mu' \in {"run", "reload"}, UNCHANGED <<rpc, current>>, made' >= made,
              made' \in Gens
       PROVE  JobTypeOK'
  <2>1. Job(goal, current) \in Jobs /\ Job(goal, current) # Idle
    BY <1>13, JobTyped DEF Starts, Stops
  <2>2. QED
    BY <1>1, <1>14, <2>1 DEF JobTypeOK, Gens
<1>15. CASE RunStart
  <2>1. JobTypeOK'
    BY <1>1, <1>14, <1>15 DEF RunStart, Gens
  <2>2. QED
    BY <1>1, <1>2, <1>3, <1>9, <1>15, <2>1 DEF RunStart
<1>16. CASE RunStop
  <2>1. JobTypeOK'
    BY <1>1, <1>14, <1>16 DEF RunStop, Gens
  <2>2. QED
    BY <1>1, <1>2, <1>3, <1>9, <1>16, <2>1 DEF RunStop
<1>17. CASE Reload
  <2>1. CASE file \notin Configs
    BY <1>1, <1>2, <1>3, <1>4, <1>17, <2>1 DEF Reload, Gens
  <2>2. CASE file \in Configs
    <3>1. made' = made + 1 /\ made' \in Gens /\ waiting' = waiting - 1
      BY <1>1, <1>17, <2>2 DEF Reload, Gens
    <3>2. JobTypeOK'
      BY <1>1, <1>14, <1>17, <2>2, <3>1 DEF Reload, Gens
    <3>3. Disk'
      BY <1>1, <1>17, <2>2, <3>1 DEF Reload, Gens
    <3>4. QED
      BY <1>2, <1>3, <1>17, <3>2, <3>3 DEF Reload
  <2>3. QED
    BY <2>1, <2>2
<1>18. CASE JobStep
  BY <1>18, JobStepTypeOK
<1>19. CASE UNCHANGED vars
  BY <1>1, <1>2, <1>3, <1>4, <1>9, <1>19 DEF vars
<1>20. QED
  BY <1>5, <1>6, <1>7, <1>8, <1>10, <1>11, <1>12, <1>15, <1>16, <1>17, <1>18, <1>19 DEF Next

-----------------------------------------------------------------------------
(* Theorems *)

LEMMA StepIInv == IInv /\ [Next]_vars => IInv'
<1> SUFFICES ASSUME IInv, [Next]_vars PROVE IInv'
  OBVIOUS
<1>1. TypeOK /\ JobInv /\ PlugInv /\ StartedInv /\ FirstInv /\ RestoreInv
  BY DEF IInv
<1>2. TypeOK'
  BY <1>1, StepTypeOK
<1>3. CASE Quiet
  BY <1>1, <1>2, <1>3, QuietIInv DEF IInv
<1>4. CASE Begins
  BY <1>1, <1>2, <1>4, BeginsIInv DEF IInv
<1>5. CASE JobStep
  BY <1>1, <1>2, <1>5, JobInvStep, PlugInvStep, StartedInvStep, FirstInvStep, DeadInvStep, RestoreInvStep
     DEF IInv
<1>6. QED
  BY <1>1, <1>3, <1>4, <1>5, StepKinds

LEMMA Invariant == Spec => []IInv
<1>1. Init => IInv
  BY InitIInv
<1>2. IInv /\ [Next]_vars => IInv'
  BY StepIInv
<1>3. QED
  BY <1>1, <1>2, PTL DEF Spec

\* Types; r.mu is held exactly while a job is at work, and every generation goes back
\* to a write (Runtime.reloadFromDisk, Watcher.loop).
THEOREM TypeCorrect == Spec => []TypeOK
<1>1. IInv => TypeOK
  BY DEF IInv
<1>2. QED
  BY <1>1, Invariant, PTL

\* Between jobs the agent runs all of r.current and nothing else, however many
\* candidates failed to start (Runtime.reloadFromDisk).
THEOREM ReloadsRollBack == Spec => []RollbackRestores
<1>1. IInv => RollbackRestores
  <2> SUFFICES ASSUME IInv, mu = "free", rpc = "serving", faults \subseteq {"start"}
               PROVE  complete(current) /\ \A g \in Gens \ {current} : ~busy(g)
    BY DEF RollbackRestores
  <2>1. job.goal = "none"
    BY DEF IInv, TypeOK, Idle
  <2>2. complete(current)
    BY <2>1 DEF IInv, RestoreInv
  <2>3. Working = current
    BY <2>1 DEF Working
  <2>4. \A g \in Gens \ {current} : plugs[g] = {} /\ started[g] = {}
    BY <2>3 DEF IInv, PlugInv, StartedInv
  <2>5. QED
    BY <2>2, <2>4 DEF busy
<1>2. QED
  BY <1>1, Invariant, PTL

\* As long as no Stop fails, no two generations have plugins or transports at work
\* (runtimeGeneration.Start, Stop).
THEOREM OneGenerationAtWork == Spec => []OneGeneration
<1>1. IInv => OneGeneration
  BY DEF IInv, PlugInv, StartedInv, OneGeneration, busy
<1>2. QED
  BY <1>1, Invariant, PTL

\* Plugins run only while every transport of their generation is up, but for those a
\* Stop of which has failed (runtimeGeneration.Start, Stop, TransportManager.Start).
THEOREM TransportsComeFirst == Spec => []TransportsFirst
<1>1. IInv => TransportsFirst
  BY DEF IInv, FirstInv, StartedFirst, DeadInv, TransportsFirst
<1>2. QED
  BY <1>1, Invariant, PTL
=============================================================================
