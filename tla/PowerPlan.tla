----------------------------- MODULE PowerPlan ------------------------------
(***************************************************************************)
(* The power plan plugin (src/internal/plugins/powerplan): it enumerates   *)
(* the power schemes of Windows, merges them with the configured modes,    *)
(* offers them as one select entity, switches schemes with powercfg and    *)
(* shows the active one after every command and every refresh.             *)
(*                                                                         *)
(* A GUID is [id, form]: EqualFold ignores the form it is written in.      *)
(* Stop only ends the refresh (PluginScope) and is left out; the delays    *)
(* of 3 s, 15 s and one minute are one tick.                               *)
(***************************************************************************)
EXTENDS Entity

CONSTANTS
  Setups,     \* [conf, schemes, active]: configured modes by key, what
              \* Windows enumerates, and the scheme active at the start
  Short,      \* of a scheme: the first 8 digits of its GUID
  MaxActs     \* bound on commands and on what the user does beside them

VARIABLES
  planPhase,  \* enumerating, registering, subscribed, running, failed
  conf, schemes, active,
  found,      \* the modes discoverPowerPlans has collected
  modes,      \* p.modes
  planOptions, \* p.options(), which Start hands to all it calls
  planReader, \* publishActiveState: "wait", "read", "publish"
  held,       \* the mode a read found, until it is published
  planCmd,    \* handleCommand: "idle", "set", "failed", "done", "publish"
  target,     \* the mode being set
  planState,  \* the state last published, <<>> before
  planAvail,
  acts

serverVars == <<planPhase, conf, found, modes, planOptions>>
readVars   == <<planReader, held>>
cmdVars    == <<planCmd, target>>
windows    == <<schemes, active, acts>>
planVars   == <<serverVars, readVars, cmdVars, windows, planState, planAvail>>

-----------------------------------------------------------------------------
\* Merging

HasGUID(ms, guid) == \E k \in DOMAIN ms : ms[k].guid.id = guid.id

\* Mutant: the slug of the name is the key, taken or not.
UniqueKeyBySlug(ms, mode) ==
  IF Slug[mode.name] = <<>> THEN <<"plan", Short[mode.guid.id]>> ELSE Slug[mode.name]

UniqueKey(ms, mode) ==
  LET short == Short[mode.guid.id]
      slug  == Slug[mode.name]
  IN  FreeKey(DOMAIN ms, IF slug = <<>> THEN <<"plan", short>> ELSE slug, short)

AddMode(ms, mode) ==
  IF HasGUID(ms, mode.guid) THEN ms ELSE Put(ms, UniqueKey(ms, mode), mode)

MergeDiscovered(ms, discovered) ==
  LET merged[n \in 0..Len(discovered)] ==
        IF n = 0 THEN ms ELSE AddMode(merged[n - 1], discovered[n])
  IN  merged[Len(discovered)]

-----------------------------------------------------------------------------
PlanInit ==
  /\ \E s \in Setups : conf = s.conf /\ schemes = s.schemes /\ active = s.active
  /\ planPhase = "enumerating" /\ found = <<>>
  /\ modes = <<>> /\ planOptions = <<>>
  /\ planReader = "wait" /\ held = <<>>
  /\ planCmd = "idle" /\ target = <<>>
  /\ planState = <<>> /\ planAvail = "none"
  /\ acts = 0

(* Start *)

\* powerFriendlyName: a scheme without a name goes by its GUID.
FriendlyName(scheme) == IF scheme.name = <<>> THEN <<scheme.guid.id>> ELSE scheme.name

Enumerate ==
  /\ planPhase = "enumerating" /\ Len(found) < Len(schemes)
  /\ LET s == schemes[Len(found) + 1]
     IN  found' = Append(found, [s EXCEPT !.name = FriendlyName(s)])
  /\ UNCHANGED <<planPhase, conf, modes, planOptions, readVars, cmdVars, windows,
                 planState, planAvail>>

Resolved(ms) ==
  /\ modes' = ms /\ planOptions' = OptionsOf(ms)
  /\ planPhase' = IF ms = <<>> THEN "failed" ELSE "registering"
  /\ UNCHANGED <<conf, found, readVars, cmdVars, windows, planState, planAvail>>

EnumerateDone ==
  /\ planPhase = "enumerating" /\ Len(found) >= Len(schemes) /\ found # <<>>
  /\ Resolved(MergeDiscovered(conf, found))

\* PowerEnumerate, a name or the context fails, or there is no scheme at all:
\* the configured modes serve alone.
DiscoveryFails == planPhase = "enumerating" /\ Resolved(conf)

RegisterAndSubscribe ==
  /\ planPhase = "registering"
  /\ planPhase' = IF ValidSelect(planOptions) THEN "subscribed" ELSE "failed"
  /\ UNCHANGED <<conf, found, modes, planOptions, readVars, cmdVars, windows, planState,
                 planAvail>>

\* Start goes on to its own publishActiveState; the refresh follows it.
StartOnline ==
  /\ planPhase = "subscribed"
  /\ planPhase' = "running" /\ planAvail' = "online" /\ planReader' = "read"
  /\ UNCHANGED <<conf, found, modes, planOptions, held, cmdVars, windows, planState>>

(* publishActiveState, of Start and then of the refresh *)

\* Mutant: once a state is published nothing is refreshed.
TickUntilKnown ==
  /\ planPhase = "running" /\ planReader = "wait" /\ planState = <<>>
  /\ planReader' = "read"
  /\ UNCHANGED <<serverVars, held, cmdVars, windows, planState, planAvail>>

Tick ==
  /\ planPhase = "running" /\ planReader = "wait"
  /\ planReader' = "read"
  /\ UNCHANGED <<serverVars, held, cmdVars, windows, planState, planAvail>>

\* A map is searched in any order: any mode with the active GUID may be found.
ReadActive ==
  /\ planReader = "read"
  /\ \E k \in DOMAIN modes : modes[k].guid.id = active /\ held' = k
  /\ planReader' = "publish"
  /\ UNCHANGED <<serverVars, cmdVars, windows, planState, planAvail>>

\* powercfg fails, or the active scheme is none of the modes.
ReadNothing ==
  /\ planReader = "read" /\ planReader' = "wait"
  /\ UNCHANGED <<serverVars, held, cmdVars, windows, planState, planAvail>>

PublishActive ==
  /\ planReader = "publish" /\ planReader' = "wait"
  /\ planState' = OptionName(planOptions, held)
  /\ held' = <<>>
  /\ UNCHANGED <<serverVars, cmdVars, windows, planAvail>>

(* handleCommand; an input that is no option changes nothing *)

Command(input) ==
  /\ planPhase \in {"subscribed", "running"} /\ planCmd = "idle"
  /\ acts < MaxActs /\ acts' = acts + 1
  /\ target' = OptionValue(planOptions, input) /\ target' # <<>>
  /\ planCmd' = "set"
  /\ UNCHANGED <<serverVars, readVars, schemes, active, planState, planAvail>>

Installed(id) == \E i \in DOMAIN schemes : schemes[i].guid.id = id

SetScheme ==
  /\ planCmd = "set" /\ Installed(modes[target].guid.id)
  /\ active' = modes[target].guid.id
  /\ planCmd' \in {"done", "failed"}   \* a timeout may kill it after the switch
  /\ UNCHANGED <<serverVars, readVars, target, schemes, acts, planState,
                 planAvail>>

SetFails ==
  /\ planCmd = "set" /\ planCmd' = "failed"
  /\ UNCHANGED <<serverVars, readVars, target, windows, planState, planAvail>>

ReportFailed ==
  /\ planCmd = "failed" /\ planCmd' = "idle" /\ target' = <<>>
  /\ planAvail' = "unavailable"
  /\ UNCHANGED <<serverVars, readVars, windows, planState>>

ReportOnline ==
  /\ planCmd = "done" /\ planCmd' = "publish"
  /\ planAvail' = "online"
  /\ UNCHANGED <<serverVars, readVars, target, windows, planState>>

PublishTarget ==
  /\ planCmd = "publish" /\ planCmd' = "idle" /\ target' = <<>>
  /\ planState' = OptionName(planOptions, target)
  /\ UNCHANGED <<serverVars, readVars, windows, planAvail>>

(* The user of Windows, who can delete any scheme but the active one *)

UserSwitches ==
  /\ acts < MaxActs /\ acts' = acts + 1
  /\ \E i \in DOMAIN schemes : active' = schemes[i].guid.id /\ active' # active
  /\ UNCHANGED <<serverVars, readVars, cmdVars, schemes, planState, planAvail>>

UserDeletes ==
  /\ acts < MaxActs /\ acts' = acts + 1
  /\ \E i \in DOMAIN schemes :
        schemes[i].guid.id # active /\ schemes' = RemoveAt(schemes, i)
  /\ UNCHANGED <<serverVars, readVars, cmdVars, active, planState, planAvail>>

Starting == Enumerate \/ EnumerateDone \/ RegisterAndSubscribe \/ StartOnline
Handling == SetScheme \/ SetFails \/ ReportFailed \/ ReportOnline \/ PublishTarget

PlanNext ==
  \/ Starting \/ DiscoveryFails
  \/ Tick \/ ReadActive \/ ReadNothing \/ PublishActive
  \/ \E i \in DOMAIN planOptions :
        \E input \in {planOptions[i].value, planOptions[i].name} : Command(input)
  \/ Handling
  \/ UserSwitches \/ UserDeletes

\* Once Start is through, goroutines are scheduled and every powercfg ends within
\* its timeout; one that keeps being asked for the active scheme answers some time.
PlanFairness ==
  /\ WF_planVars(Tick)
  /\ WF_planVars(ReadNothing) /\ SF_planVars(ReadActive)
  /\ WF_planVars(PublishActive) /\ WF_planVars(Handling)

PlanSpec == PlanInit /\ [][PlanNext]_planVars /\ PlanFairness

-----------------------------------------------------------------------------
\* Every variable has its type: keys of modes in held and target, or none.
PlanTypeOK ==
  /\ planPhase \in {"enumerating", "registering", "subscribed", "running",
                    "failed", "off"}
  /\ planReader \in {"wait", "read", "publish"}
  /\ held \in DOMAIN modes \cup {<<>>}
  /\ (held # <<>>) <=> (planReader = "publish")
  /\ planCmd \in {"idle", "set", "failed", "done", "publish"}
  /\ target \in DOMAIN modes \cup {<<>>}
  /\ (target = <<>>) <=> (planCmd = "idle")
  /\ planAvail \in {"none", "online", "unavailable"}
  /\ acts \in 0..MaxActs

\* Once the select is registered, merging has kept every configured mode and
\* given every enumerated scheme an option, and Home Assistant can choose it:
\* sending back the shown name selects that very mode, unless the name is
\* another option's key (mergeDiscoveredModes, options, entity.Validate and
\* entity.OptionValue together).
PlanSelectable ==
  planPhase \in {"subscribed", "running"} =>
    /\ \A k \in DOMAIN conf : modes[k] = conf[k]
    /\ modes # conf => \A i \in DOMAIN found : HasGUID(modes, found[i].guid)
    /\ \A k \in DOMAIN modes :
         modes[k].name \notin DOMAIN modes \ {k} =>
           OptionValue(planOptions, modes[k].name) = k

\* When commands and the user come to rest, the state shown settles on a mode
\* of the active scheme, whatever failed and whichever read of powercfg was
\* overtaken by a command (startStateRefresh).
PlanSettles ==
  <>[](planPhase = "running" /\ HasGUID(modes, [id |-> active]) =>
         \E k \in DOMAIN modes :
           modes[k].guid.id = active /\ planState = OptionName(planOptions, k))
=============================================================================
