----------------------------- MODULE FanControl -----------------------------
(***************************************************************************)
(* The fan control plugin (src/internal/plugins/fancontrol): it lists the  *)
(* configs of FanControl over a named pipe, starting FanControl if there   *)
(* is no pipe, merges them with the configured profiles, loads the config  *)
(* of a chosen profile and shows the current one.                          *)
(*                                                                         *)
(* Two routines share the pipe, each with a connection of its own: "poll", *)
(* which is Start and then its refresh, and "cmd", the command handler     *)
(* (one at a time, see MqttCommands). The frames of a call (encodeUnary-   *)
(* Request, readUnaryResponse) are one request and one reply.              *)
(***************************************************************************)
EXTENDS Entity

CONSTANTS
  Installs,   \* [configured, listed, folder, current, fc]: profiles by key,
              \* what FanControl lists, whether it tells its folder, the config
              \* it has loaded, and whether it runs
  Friendly,   \* of a config name: friendlyProfileName
  Fold,       \* of a config name or key: its lower case
  Content,    \* of the config file and of each source path: its bytes
  ConfigPath,
  MaxFaults,  \* bound on errors of Windows, FanControl or a deadline
  MaxMoves    \* bound on commands and on the user's own loads

Actors == {"poll", "cmd"}
None   == [is |-> "none"]
Lost   == [is |-> "lost"]

VARIABLES
  fanPhase,   \* starting, registering, running, failed
  install, profiles,
  fanOptions, \* profileOptions, of the registered entity
  fc,         \* FanControl: "stopped", "up" without its pipe, "served"
  current,    \* the config it has loaded
  goal,       \* of each actor: "none", or the call it is in: "list", "load",
              \* "ask" (activeProfile), "publish"
  at,         \* where in the call: "open", "start", "wait", "sent"
  reply,      \* [is]: "none" yet, "lost", or "here" with [to, ok, current]
  profile,    \* the profile a command is for, or the one to publish
  fanState, fanAvail,
  faults, moves

setup   == <<fanPhase, install, profiles, fanOptions>>
device  == <<fc, current>>
calls   == <<goal, at, reply, profile>>
fanVars == <<setup, device, calls, fanState, fanAvail, faults, moves>>

-----------------------------------------------------------------------------
\* Profiles: [name, config, source], each <<>> if empty

\* Profile.configName
ConfigOf(p, key) ==
  IF p.config # <<>> THEN p.config
  ELSE IF p.source # <<>> THEN p.source[2] ELSE key

Normalized(configured) ==
  [k \in DOMAIN configured |->
     LET p == configured[k]
         config == IF p.source = <<>> THEN p.config ELSE ConfigOf(p, k)
     IN  [p EXCEPT !.config = config,
                   !.name = IF @ = <<>> THEN Friendly[ConfigOf(p, k)] ELSE @]]

\* profileKeyByConfigName searches a map in any order: these may be found.
KeysOf(ps, config) ==
  {k \in DOMAIN ps : Fold[config] = Fold[ConfigOf(ps[k], k)]
                       \/ Fold[k] = Slug[config]}

SourceOf(config) == IF install.folder THEN <<"folder", config>> ELSE <<>>

\* The results of merging one listed config, one for each key found.
MergeConfig(ps, config) ==
  LET filled(p) == [p EXCEPT !.config = IF @ = <<>> THEN config ELSE @,
                             !.source = IF @ = <<>> THEN SourceOf(config) ELSE @]
      added == [name |-> Friendly[config], config |-> config,
                source |-> SourceOf(config)]
      keys == KeysOf(ps, config)
  IN  IF keys # {} THEN {[ps EXCEPT ![k] = filled(@)] : k \in keys}
      ELSE {Put(ps, FreeKey(DOMAIN ps, Slug[config], "hash"), added)}

MergeDiscovered(ps, listed) ==
  LET merged[n \in 0..Len(listed)] ==
        IF n = 0 THEN {ps}
        ELSE UNION {MergeConfig(r, listed[n]) : r \in merged[n - 1]}
  IN  merged[Len(listed)]

\* activeProfile without an answer: the first profile, by key, whose file is
\* the same as the config file; {} if there is none.
ByHash ==
  LET same == {k \in DOMAIN profiles :
                 /\ profiles[k].source \in DOMAIN Content
                 /\ ConfigPath \in DOMAIN Content
                 /\ Content[profiles[k].source] = Content[ConfigPath]}
  IN  {k \in same : \A l \in same \ {k} : KeyBefore(k, l)}

\* activeProfile with an answer.
ByCurrent(config) ==
  IF config # <<>> /\ KeysOf(profiles, config) # {}
  THEN KeysOf(profiles, config) ELSE ByHash

-----------------------------------------------------------------------------
FanInit ==
  /\ install \in Installs
  /\ fc = install.fc /\ current = install.current
  /\ fanPhase = "starting" /\ profiles = <<>> /\ fanOptions = <<>>
  /\ goal = [a \in Actors |-> IF a = "poll" THEN "list" ELSE "none"]
  /\ at = [a \in Actors |-> "open"]
  /\ reply = [a \in Actors |-> None]
  /\ profile = [a \in Actors |-> <<>>]
  /\ fanState = <<>> /\ fanAvail = "none"
  /\ faults = 0 /\ moves = 0

Fault == faults < MaxFaults /\ faults' = faults + 1

To(a, g, k) ==
  /\ goal' = [goal EXCEPT ![a] = g] /\ at' = [at EXCEPT ![a] = "open"]
  /\ reply' = [reply EXCEPT ![a] = None]
  /\ profile' = [profile EXCEPT ![a] = k]

Goes(a, place) ==
  /\ at' = [at EXCEPT ![a] = place]
  /\ UNCHANGED <<goal, reply, profile>>

\* activeProfile ends: what it found is published, a command falls back on
\* the profile it has set, a poll on nothing.
Known(a, keys) ==
  /\ IF keys # {} THEN \E k \in keys : To(a, "publish", k)
     ELSE IF a = "cmd" THEN To(a, "publish", profile[a]) ELSE To(a, "none", <<>>)
  /\ UNCHANGED <<setup, fanAvail>>

Resolved(ps) ==
  /\ profiles' = ps /\ fanOptions' = OptionsOf(ps)
  /\ fanPhase' = IF ps = <<>> THEN "failed" ELSE "registering"
  /\ To("poll", "none", <<>>)
  /\ UNCHANGED <<install, fanAvail>>

\* The call of a fails: Start makes do with the configured profiles, a
\* command is refused, activeProfile compares files.
Fails(a) ==
  CASE goal[a] = "list" -> Resolved(Normalized(install.configured))
    [] goal[a] = "load" -> /\ To(a, "none", <<>>) /\ fanAvail' = "unavailable"
                           /\ UNCHANGED setup
    [] OTHER            -> Known(a, ByHash)

(* openFanControlIPC, also for each tick of waitForIPC *)

Open(a) ==
  /\ goal[a] \in {"list", "load", "ask"} /\ at[a] \in {"open", "wait"}
  /\ fc = "served" /\ Goes(a, "sent")
  /\ UNCHANGED <<setup, device, fanState, fanAvail, faults, moves>>

NoPipe(a) ==
  /\ goal[a] \in {"list", "load", "ask"} /\ at[a] = "open" /\ fc # "served"
  /\ IF goal[a] = "ask" THEN Fails(a)
     ELSE Goes(a, "start") /\ UNCHANGED <<setup, fanAvail>>
  /\ UNCHANGED <<device, fanState, faults, moves>>

\* Any other error than a missing pipe.
OpenFails(a) ==
  /\ goal[a] \in {"list", "load", "ask"} /\ at[a] \in {"open", "wait"}
  /\ Fault /\ Fails(a)
  /\ UNCHANGED <<device, fanState, moves>>

\* startFanControl. A tasklist that fails counts as not running; FanControl
\* itself does nothing when it is started twice.
StartFanControl(a) ==
  /\ at[a] = "start"
  /\ fc' = IF fc = "stopped" THEN "up" ELSE fc
  /\ Goes(a, "wait")
  /\ UNCHANGED <<setup, current, fanState, fanAvail, faults, moves>>

StartFails(a) ==
  /\ at[a] = "start" /\ Fault /\ Fails(a)
  /\ UNCHANGED <<device, fanState, moves>>

\* FanControl answers: it loads a config it has and tells its current one.
Serve(a) ==
  /\ at[a] = "sent" /\ reply[a] = None /\ fc = "served"
  /\ LET config == ConfigOf(profiles[profile[a]], profile[a])
         ok == goal[a] = "load" => config \in Range(install.listed)
         now == IF goal[a] = "load" /\ ok THEN config ELSE current
     IN  /\ current' = now
         /\ reply' = [reply EXCEPT ![a] = [is |-> "here", to |-> goal[a],
                                       ok |-> ok, current |-> now]]
  /\ UNCHANGED <<setup, fc, goal, at, profile, fanState, fanAvail, faults, moves>>

Answered(a) == at[a] = "sent" /\ reply[a].is = "here"

ListReply ==
  /\ goal["poll"] = "list" /\ Answered("poll")
  /\ \E ps \in MergeDiscovered(Normalized(install.configured), install.listed) :
        Resolved(ps)
  /\ UNCHANGED <<device, fanState, faults, moves>>

LoadReply ==
  /\ goal["cmd"] = "load" /\ Answered("cmd")
  /\ IF reply["cmd"].to = "load" /\ reply["cmd"].ok
     THEN To("cmd", "ask", profile["cmd"]) /\ fanAvail' = "online" /\ UNCHANGED setup
     ELSE Fails("cmd")
  /\ UNCHANGED <<device, fanState, faults, moves>>

AskReply(a) ==
  /\ goal[a] = "ask" /\ Answered(a)
  /\ Known(a, IF reply[a].to = "load" THEN ByHash ELSE ByCurrent(reply[a].current))
  /\ UNCHANGED <<device, fanState, faults, moves>>

\* FanControl hangs in a call, or the call ends early: an error of the pipe,
\* or the deadline, at which a goroutine of CallUnary closes the handle.
NoAnswer(a) ==
  /\ at[a] = "sent" /\ reply[a] # Lost /\ Fault
  /\ \/ reply' = [reply EXCEPT ![a] = Lost]
        /\ UNCHANGED <<setup, goal, at, profile, fanAvail>>
     \/ Fails(a)
  /\ UNCHANGED <<device, fanState, moves>>

\* Mutant: waitForIPC does not look at its context.
DeadlineOfCalls(a) ==
  /\ goal[a] \in {"load", "ask"} /\ at[a] = "sent" /\ reply[a] = Lost
  /\ Fails(a)
  /\ UNCHANGED <<device, fanState, faults, moves>>

\* The deadline of a wait that is in vain. Start's own list has none.
Deadline(a) ==
  /\ goal[a] \in {"load", "ask"}
  /\ \/ at[a] = "wait" /\ fc # "served"
     \/ at[a] = "sent" /\ reply[a] = Lost
  /\ Fails(a)
  /\ UNCHANGED <<device, fanState, faults, moves>>

\* After a deadline has closed the handle of a, the other actor is given the
\* same handle, and the read of a takes the reply the other one waits for.
HandleReused(a, b) ==
  /\ a # b /\ goal[a] \in {"load", "ask"} /\ at[a] = "sent" /\ Answered(b)
  /\ Fault
  /\ reply' = [reply EXCEPT ![a] = reply[b], ![b] = Lost]
  /\ UNCHANGED <<setup, device, goal, at, profile, fanState, fanAvail, moves>>

(* The rest of Start, the refresh and handleCommand *)

RegisterAndSubscribe ==
  /\ fanPhase = "registering"
  /\ IF ValidSelect(fanOptions)
     THEN /\ fanPhase' = "running" /\ fanAvail' = "online"
          /\ To("poll", "ask", <<>>)
     ELSE fanPhase' = "failed" /\ UNCHANGED <<calls, fanAvail>>
  /\ UNCHANGED <<install, profiles, fanOptions, device, fanState, faults, moves>>

Tick ==
  /\ fanPhase = "running" /\ goal["poll"] = "none" /\ To("poll", "ask", <<>>)
  /\ UNCHANGED <<setup, device, fanState, fanAvail, faults, moves>>

Command(input) ==
  /\ fanPhase = "running" /\ goal["cmd"] = "none"
  /\ moves < MaxMoves /\ moves' = moves + 1
  /\ OptionValue(fanOptions, input) # <<>>
  /\ To("cmd", "load", OptionValue(fanOptions, input))
  /\ UNCHANGED <<setup, device, fanState, fanAvail, faults>>

Publish(a) ==
  /\ goal[a] = "publish"
  /\ fanState' = OptionName(fanOptions, profile[a])
  /\ To(a, "none", <<>>)
  /\ UNCHANGED <<setup, device, fanAvail, faults, moves>>

(* FanControl and its user *)

PipeAppears ==
  /\ fc = "up" /\ fc' = "served"
  /\ UNCHANGED <<setup, current, calls, fanState, fanAvail, faults, moves>>

\* It ends: every call on the pipe fails.
FanControlEnds ==
  /\ fc # "stopped" /\ Fault /\ fc' = "stopped"
  /\ reply' = [a \in Actors |-> IF at[a] = "sent" THEN Lost ELSE reply[a]]
  /\ UNCHANGED <<setup, current, goal, at, profile, fanState, fanAvail, moves>>

UserLoads ==
  /\ fc # "stopped" /\ moves < MaxMoves /\ moves' = moves + 1
  /\ current' \in Range(install.listed) \ {current}
  /\ UNCHANGED <<setup, fc, calls, fanState, fanAvail, faults>>

Steps(a) ==
  \/ Open(a) \/ NoPipe(a) \/ StartFanControl(a)
  \/ AskReply(a) \/ Publish(a) \/ Deadline(a)

FanNext ==
  \/ \E a \in Actors : \/ Steps(a) \/ Serve(a)
                       \/ OpenFails(a) \/ StartFails(a) \/ NoAnswer(a)
                       \/ \E b \in Actors : HandleReused(a, b)
  \/ ListReply \/ LoadReply \/ RegisterAndSubscribe \/ Tick
  \/ \E i \in DOMAIN fanOptions :
        \E input \in {fanOptions[i].value, fanOptions[i].name} : Command(input)
  \/ PipeAppears \/ FanControlEnds \/ UserLoads

\* Goroutines are scheduled, their timers and deadlines fire, and FanControl
\* answers a call while it serves. That its pipe ever appears, or that Start
\* gets through, is not assumed.
FanFairness ==
  /\ \A a \in Actors : WF_fanVars(Steps(a)) /\ WF_fanVars(Serve(a))
  /\ WF_fanVars(LoadReply) /\ WF_fanVars(Tick)

FanSpec == FanInit /\ [][FanNext]_fanVars /\ FanFairness

-----------------------------------------------------------------------------
\* Every variable has its type, and an actor has a profile exactly when its
\* call needs one.
FanTypeOK ==
  /\ fanPhase \in {"starting", "registering", "running", "failed", "off"}
  /\ fc \in {"stopped", "up", "served"}
  /\ goal["poll"] \in {"none", "list", "ask", "publish"}
  /\ goal["cmd"] \in {"none", "load", "ask", "publish"}
  /\ \A a \in Actors :
       /\ at[a] \in {"open", "start", "wait", "sent"}
       /\ at[a] \in {"start", "wait"} => goal[a] \in {"list", "load"}
       /\ profile[a] \in DOMAIN profiles \cup {<<>>}
       /\ profile["cmd"] = <<>> <=> goal["cmd"] = "none"
  /\ goal["poll"] = "list" <=> fanPhase = "starting"
  /\ fanAvail \in {"none", "online", "unavailable"}
  /\ faults \in 0..MaxFaults /\ moves \in 0..MaxMoves

\* Once the select is registered, the fields the user configured are as they
\* were written, and every config FanControl listed can be loaded by some
\* option, unless a profile is keyed by its name (mergeDiscoveredProfiles).
FanSelectable ==
  fanPhase = "running" =>
    /\ \A k \in DOMAIN install.configured : \A f \in {"name", "config", "source"} :
         install.configured[k][f] \in {<<>>, profiles[k][f]}
    /\ \A k \in DOMAIN profiles :
         profiles[k].name \notin DOMAIN profiles \ {k} =>
           OptionValue(fanOptions, profiles[k].name) = k
    /\ profiles # Normalized(install.configured) =>
         \A i \in DOMAIN install.listed : KeysOf(profiles, install.listed[i]) # {}

\* A command always ends, whatever FanControl does: every wait of the handler
\* has a deadline, and after it nothing waits (openFanControlIPC, waitForIPC,
\* CallUnary). Start has no such property: it waits for the pipe forever.
FanCommandReturns == goal["cmd"] # "none" ~> goal["cmd"] = "none"

\* If FanControl comes to serve its pipe for good, the state settles on a
\* profile of its current config, if there is one (startStateRefresh).
FanSettles ==
  <>[](fanPhase = "running" /\ fc = "served") =>
    <>[](current # <<>> /\ KeysOf(profiles, current) # {} =>
           \E k \in KeysOf(profiles, current) :
             fanState = OptionName(fanOptions, k))
=============================================================================
