------------------------------- MODULE Catalog -------------------------------
(***************************************************************************)
(* From a config file to the entities of the agent: the built-in plugins   *)
(* (src/internal/plugins/catalog), what validation asks of the sections of *)
(* a file, and the start of the enabled plugins one after the other        *)
(* (src/internal/core/plugin_manager.go). Plugins and entities are named   *)
(* as in the program.                                                      *)
(***************************************************************************)
EXTENDS Naturals, Sequences, Functions

CONSTANTS
  Systems,    \* values of runtime.GOOS
  Files       \* config files: by plugin, [enabled, flaw, entities, optional]:
              \* what is written for enabled, "none" or what is wrong with the
              \* section, and of a runner its entities and the optional ones

\* The names of a runner's actions.
ASSUME FilesAssumption ==
  \A f \in Files : "runner" \in DOMAIN f => f["runner"].entities \in Seq(STRING)

VARIABLES
  catPhase,   \* read, rejected, next, starting, running, failed; off
  goos,
  sections,   \* the file: its section for each plugin
  place,      \* the place in Order the start has come to
  todo,       \* what the plugin that is being started has still to register
  registry,   \* the plugin of each registered entity
  refused     \* the entity whose registration was refused, "" if none

catalogVars == <<catPhase, goos, sections, place, todo, registry, refused>>

-----------------------------------------------------------------------------
\* Factories. Besides what its descriptor declares, a plugin may register
\* entities it leaves out there.

Plugin(systems, declared, more) ==
  [systems |-> systems, declared |-> declared, registers |-> declared \o more]

Session == <<"session.lock", "session.sleep">>

Builtin ==
  [display_darwin |-> Plugin({"darwin"}, <<"display.off">>, <<>>),
   display_kscreen |-> Plugin({"linux"}, <<"display.off">>, <<>>),
   display_windows |-> Plugin({"windows"}, <<"display.off">>, <<>>),
   fancontrol_windows |-> Plugin({"windows"}, <<"fancontrol.profile">>, <<>>),
   inhibit_freedesktop |->
     Plugin({"linux"}, <<"session.lock_inhibited", "display.dim_inhibited">>, <<>>),
   powerplan_windows |-> Plugin({"windows"}, <<"powerplan.mode">>, <<>>),
   powerprofile_ppd |-> Plugin({"linux"}, <<"powerprofile.profile">>, <<>>),
   runner |-> Plugin({"darwin", "linux", "windows"}, <<>>, <<>>),
   session_darwin |-> Plugin({"darwin"}, Append(Session, "session.locked"), <<>>),
   session_loginctl |-> Plugin({"linux"}, Session, <<"session.locked">>),
   session_windows |-> Plugin({"windows"}, Session, <<"session.locked">>)]

\* The ids of the factories, sorted.
Order == <<"display_darwin", "display_kscreen", "display_windows", "fancontrol_windows",
           "inhibit_freedesktop", "powerplan_windows", "powerprofile_ppd", "runner",
           "session_darwin", "session_loginctl", "session_windows">>

SupportedOn(id) == goos \in Builtin[id].systems

\* Config.PluginEnabled reads what is written itself; a plugin's own config is
\* decoded, and takes 1 for true, but only some spellings of true.
PluginEnabled(id) == id \in DOMAIN sections /\ sections[id].enabled \in {"true", "TRUE", "tRUE"}
Decodes(written)  == written \in {"true", "TRUE", "false", "1"}
DecodedOn(written) == written \in {"true", "TRUE", "1"}

\* Factory.New. Flaws: "unknown" is a key that the section does not have,
\* "invalid" what Config.Validate of the plugin refuses, "files" a missing file.
New(id) ==
  LET section == sections[id]
  IN  /\ Decodes(section.enabled) /\ section.flaw # "unknown"
      /\ DecodedOn(section.enabled) => section.flaw # "invalid"

EntityIDs(id) == IF id = "runner" THEN sections[id].entities ELSE Builtin[id].declared

Registers(id) == IF id = "runner" THEN sections[id].entities ELSE Builtin[id].registers

EnabledIDs == {id \in DOMAIN Builtin : PluginEnabled(id)}

ValidSection(id) ==
  /\ id \in DOMAIN Builtin /\ New(id)
  /\ PluginEnabled(id) => SupportedOn(id) /\ sections[id].flaw \notin {"invalid", "files"}

\* Mutant: every section is valid by itself.
ValidEach == \A id \in DOMAIN sections : ValidSection(id)

\* ValidatePlugins: and no entity has two providers.
Valid ==
  /\ \A id \in DOMAIN sections : ValidSection(id)
  /\ \A a, b \in EnabledIDs :
       \A i \in DOMAIN EntityIDs(a), j \in DOMAIN EntityIDs(b) :
         EntityIDs(a)[i] = EntityIDs(b)[j] => a = b /\ i = j

-----------------------------------------------------------------------------
CatalogInit ==
  /\ goos \in Systems /\ sections \in Files
  /\ catPhase = "read" /\ place = 0
  /\ todo = <<>> /\ registry = <<>> /\ refused = ""

Validate ==
  /\ catPhase = "read"
  /\ catPhase' = IF Valid THEN "next" ELSE "rejected"
  /\ UNCHANGED <<goos, sections, place, todo, registry, refused>>

\* PluginManager.Start: the loop goes on to the next plugin that is switched on.
Ahead == {i \in DOMAIN Order : i > place /\ PluginEnabled(Order[i])}

StartNext ==
  /\ catPhase = "next"
  /\ \/ Ahead = {} /\ catPhase' = "running" /\ UNCHANGED <<place, todo>>
     \/ \E i \in Ahead :
          /\ \A j \in Ahead : i <= j
          /\ catPhase' = "starting" /\ place' = i /\ todo' = Registers(Order[i])
  /\ UNCHANGED <<goos, sections, registry, refused>>

\* Start fails: the scope of the plugin and those of all others are closed.
Fail(entity) ==
  /\ catPhase' = "failed" /\ refused' = entity
  /\ todo' = <<>> /\ registry' = <<>>
  /\ UNCHANGED <<goos, sections, place>>

Register ==
  /\ catPhase = "starting" /\ todo # <<>> /\ Head(todo) \notin DOMAIN registry
  /\ registry' = [e \in DOMAIN registry \cup {Head(todo)} |->
                    IF e = Head(todo) THEN Order[place] ELSE registry[e]]
  /\ todo' = Tail(todo)
  /\ UNCHANGED <<catPhase, goos, sections, place, refused>>

Refuse ==
  /\ catPhase = "starting" /\ todo # <<>> /\ Head(todo) \in DOMAIN registry
  /\ Fail(Head(todo))

\* An optional action of the runner whose options cannot be found.
LeaveOut ==
  /\ catPhase = "starting" /\ todo # <<>> /\ Order[place] = "runner"
  /\ Head(todo) \in sections["runner"].optional
  /\ todo' = Tail(todo)
  /\ UNCHANGED <<catPhase, goos, sections, place, registry, refused>>

\* A tool, a service or anything else the plugin needs is not there.
StartFails == catPhase = "starting" /\ Fail("")

Started ==
  /\ catPhase = "starting" /\ todo = <<>> /\ catPhase' = "next"
  /\ UNCHANGED <<goos, sections, place, todo, registry, refused>>

CatalogNext ==
  \/ Validate \/ StartNext \/ Register \/ Refuse \/ LeaveOut \/ StartFails \/ Started

CatalogSpec == CatalogInit /\ [][CatalogNext]_catalogVars

-----------------------------------------------------------------------------
\* Every variable has its type.
CatalogTypeOK ==
  /\ catPhase \in {"read", "rejected", "next", "starting", "running", "failed", "off"}
  /\ place \in 0..Len(Order)
  /\ \A e \in DOMAIN registry : registry[e] \in DOMAIN Builtin

\* What validation promises holds of the agent that is started: the entities are
\* those of sections that are switched on and supported; each entity of such a
\* section is there, of its own plugin, unless it is an optional one that was
\* left out, which another plugin then has at most without declaring it; a start
\* never fails over an entity that descriptors declare, and one that fails leaves
\* nothing (ValidatePlugins and PluginManager.Start agree).
AcceptedRuns ==
  /\ catPhase \in {"rejected", "failed"} => registry = <<>>
  /\ \A e \in DOMAIN registry :
       PluginEnabled(registry[e]) /\ SupportedOn(registry[e])
  /\ catPhase = "running" =>
       \A id \in EnabledIDs : \A e \in Range(EntityIDs(id)) :
         \/ e \in DOMAIN registry /\ registry[e] = id
         \/ /\ id = "runner" /\ e \in sections[id].optional
            /\ e \in DOMAIN registry => e \notin Range(EntityIDs(registry[e]))
  /\ refused # "" =>
       \E id \in EnabledIDs : refused \in Range(Registers(id)) \ Range(EntityIDs(id))

\* "Config validation rejects [...] conflicting providers for the same entity"
\* (src/README.md:24): after it no registration is refused.
NoConflict == refused = ""
=============================================================================
