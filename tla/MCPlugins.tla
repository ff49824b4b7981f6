----------------------------- MODULE MCPlugins ------------------------------
EXTENDS Catalog, Entity, Integers, TLC

----
\* Names and keys of power plans. b and c share the digits that Short takes.
Gaming == <<"Gaming">>   gaming == <<"gaming">>   Office == <<"Office">>
Dots == <<"...">>        scheme(n, id) == [name |-> n, guid |-> [id |-> id, form |-> "lower"]]
MCShort == [id \in {"a", "b", "c"} |-> IF id = "a" THEN "a" ELSE "bc"]
MCSetups == {
  [conf |-> <<>>, active |-> "a",
   schemes |-> <<scheme(Gaming, "a"), scheme(Dots, "b"), scheme(<<"..">>, "c")>>],
  [conf |-> gaming :> [name |-> Office, guid |-> [id |-> "a", form |-> "upper"]],
   active |-> "a",
   schemes |-> <<scheme(Office, "a"), scheme(gaming, "b"), scheme(Gaming, "c")>>],
  [conf |-> gaming :> scheme(Gaming, "b") @@ <<"eco">> :> scheme(<<"Eco">>, "b"),
   active |-> "b", schemes |-> <<scheme(<<>>, "c"), scheme(Office, "b")>>],
  [conf |-> <<>>, active |-> "a",
   schemes |-> <<scheme(Gaming, "a"), scheme(Gaming, "b")>>]}

\* Names of FanControl configs and their keys.
json(stem) == <<stem, ".json">>
Game1 == json("game-1")     game1 == json("game_1")    Quiet == json("quiet")
GameOne == json("gameOne")  game_one == json("game-one")
Inches == <<"27\"">>     Folder == <<"C:\\t">>
MCSlug ==
  Gaming :> <<"gaming">> @@ gaming :> <<"gaming">> @@ Office :> <<"office">>
  @@ Dots :> <<>> @@ <<"..">> :> <<>> @@ <<"c">> :> <<"c">>
  @@ Game1 :> <<"game", "1">> @@ game1 :> <<"game", "1">> @@ Quiet :> <<"quiet">>
  @@ GameOne :> <<"gameone">> @@ game_one :> <<"game", "one">>
  @@ <<"60 Hz">> :> <<"60", "hz">> @@ <<"60 hz">> :> <<"60", "hz">> @@ Inches :> <<"27">>
MCFriendly ==
  Game1 :> <<"Game", "1">> @@ game1 :> <<"Game", "1">> @@ Quiet :> <<"Quiet">>
  @@ GameOne :> <<"Game", "One">> @@ game_one :> <<"Game", "One">>
MCNameRank ==
  <<"..">> :> 1 @@ Dots :> 2 @@ <<"c">> :> 3 @@ <<"Eco">> :> 4
  @@ <<"Game", "1">> :> 5 @@ <<"Game", "One">> :> 6 @@ Gaming :> 7 @@ gaming :> 7
  @@ <<"Loud">> :> 8 @@ Office :> 9 @@ <<"Quiet">> :> 10
MCWords ==
  <<"0", "1", "2", "27", "3", "4", "5", "59", "6", "60", "FORCE", "a", "action", "bc", "c",
    "eco", "force", "game", "gameone", "gaming", "hash", "hz", "level", "loud", "max",
    "office", "one", "opt", "other", "plan", "quiet", "refresh", "scale", "value">>
MCWordRank == [w \in Range(MCWords) |-> CHOOSE i \in DOMAIN MCWords : MCWords[i] = w]
MCNumeral  == [n \in 0..6 |-> ToString(n)]
MCFold == [k \in {Game1, game1, Quiet, GameOne, game_one, <<"loud">>, <<"quiet">>,
                  <<"game", "1">>, <<"gameone">>, <<"game", "one">>} |->
             IF k = GameOne THEN json("gameone") ELSE k]
in(config) == <<"folder", config>>
MCContent == in(Game1) :> 1 @@ in(Quiet) :> 2 @@ in(game_one) :> 1
MCInstalls == {
  [configured |-> <<>>, listed |-> <<Game1, game1, Quiet>>, folder |-> TRUE,
   current |-> Quiet, fc |-> "served"],
  [configured |-> <<"loud">> :> [name |-> <<"Loud">>, config |-> Quiet, source |-> <<>>]
               @@ <<"quiet">> :> [name |-> <<"Quiet">>, config |-> game1, source |-> <<>>],
   listed |-> <<Quiet, game1>>, folder |-> FALSE, current |-> <<>>, fc |-> "stopped"],
  [configured |-> <<"loud">> :> [name |-> <<>>, config |-> <<>>, source |-> in(Quiet)],
   listed |-> <<Quiet, game_one>>, folder |-> TRUE, current |-> Quiet, fc |-> "up"],
  [configured |-> <<>>, listed |-> <<GameOne, game_one>>, folder |-> TRUE,
   current |-> GameOne, fc |-> "served"]}
MCConfigPath == in(Game1)

\* Runner actions. The text "60" reads as 60.00, "59_94" as 59.94.
str(word) == <<"str", <<word>>>>
Script == [path |-> "file", command |-> "", interpreter |-> "sh"]
Setter(input, schema) ==
  Script @@ [input |-> input, delivery |-> "", maxBytes |-> 0, strict |-> FALSE,
             schema |-> schema, on |-> <<>>, off |-> <<>>]
Action(kind, setter, opts) ==
  [name |-> <<"A">>, kind |-> kind, source |-> "", after |-> "", setter |-> setter,
   getter |-> Script, lister |-> <<>>, options |-> opts]
Schema(type, required) ==
  [type |-> type, required |-> required, enum |-> {}, min |-> 0, max |-> 100]
Level == "level" :> Schema("integer", TRUE) @@ "force" :> Schema("boolean", FALSE)
Rates ==
  <<"59">> :> [name |-> <<"59.94 Hz">>, params |-> "refresh" :> str("59_94")]
  @@ <<"60">> :> [name |-> <<"60 Hz">>, params |-> "refresh" :> str("60")]
  @@ <<"max">> :> [name |-> <<"60">>, params |-> "scale" :> str("100")]
Rate == "refresh" :> [Schema("string", TRUE) EXCEPT !.enum = {<<"60">>}]
OnOff(setter) == [setter EXCEPT !.on = "level" :> <<"num", 10000>>,
                                !.off = "level" :> str("0")]
MCActions == {
  [Action("select", Setter("", <<>>), Rates) EXCEPT !.source = "getter"],
  [Action("select", Setter("structured", Rate), Rates) EXCEPT
     !.source = "none", !.setter.interpreter = "pwsh"],
  Action("select", Setter("", <<>>), [Rates EXCEPT ![<<"max">>].name = <<"60 Hz">>]),
  Action("select", Setter("", <<>>), [Rates EXCEPT ![<<"max">>].name = Folder,
                                                   ![<<"60">>].name = Inches]),
  [Action("select", Setter("", <<>>), <<>>) EXCEPT !.lister = <<Script>>, !.source = "getter"],
  [Action("select", Setter("", <<>>), Rates) EXCEPT
     !.lister = <<[Script EXCEPT !.interpreter = "zsh"]>>, !.after = "last_success"],
  [Action("switch", OnOff(Setter("structured", Level)), <<>>) EXCEPT
     !.source = "getter", !.setter.delivery = "env"],
  Action("switch", [OnOff(Setter("", <<>>)) EXCEPT !.interpreter = "cmd"], <<>>),
  Action("switch", [OnOff(Setter("structured", Level)) EXCEPT !.off = "force" :> str("no")],
         <<>>),
  Action("switch", Setter("", <<>>), <<>>),
  Action("button", Setter("", Level), <<>>),
  Action("button", [Setter("structured", Level) EXCEPT !.interpreter = "exe"], <<>>),
  Action("button", [Setter("json", Level) EXCEPT !.maxBytes = 100, !.delivery = "env"], <<>>),
  Action("button", [Setter("json", <<>>) EXCEPT !.maxBytes = 100], <<>>),
  [Action("button", [Setter("json", Level) EXCEPT
     !.maxBytes = 100, !.delivery = "stdin_json"], <<>>) EXCEPT !.source = "getter"],
  Action("button", [Setter("json", Level) EXCEPT
     !.maxBytes = 100, !.strict = TRUE, !.command = "file"], <<>>),
  Action("button", [Setter("", <<>>) EXCEPT !.path = "missing"], <<>>)}
item(value, name, params) == [value |-> value, name |-> name, params |-> params]
MCListings == {
  <<>>, <<item(<<>>, <<>>, <<>>)>>,
  <<item(<<>>, <<"60 Hz">>, "refresh" :> str("60")),
    item(<<>>, <<"60 hz">>, "refresh" :> str("60")),
    item(<<"60">>, <<"60 Hz">>, <<>>)>>,
  <<item(<<>>, <<"60 Hz">>, "refresh" :> <<"num", 6000>>),
    item(<<"60", "hz", "1">>, <<"60 hz">>, "refresh" :> str("60"))>>,
  <<item(<<"1">>, <<"60 Hz">>, "scale" :> str("100")), item(<<>>, Inches, <<>>)>>,
  <<item(<<>>, <<"60 Hz">>, "refresh" :> str("60")), item(<<"1">>, <<"..">>, <<>>),
    item(<<"60", "hz", "3">>, <<"Third">>, <<>>),
    item(<<"60", "hz">>, <<"Last">>, "scale" :> str("100"))>>}
object(f) == <<"map", f>>
MCForeign ==
  {<<"bad">>, <<"null">>, str("60"), str("on"), <<"bool", TRUE>>,
   object("value" :> str("60 Hz")), object("value" :> str("60")),
   object("value" :> str("maybe")), object("action" :> str("off")),
   object("level" :> <<"num", 500>>), object("level" :> <<"num", 550>>),
   object("level" :> <<"num", 20000>>), object("force" :> str("yes")),
   object("level" :> str("60") @@ "force" :> str("yes")),
   object("level" :> str("60") @@ "force" :> str("maybe")),
   object("level" :> <<"num", 500>> @@ "FORCE" :> str("maybe")),
   object("level" :> <<"num", 500>> @@ "FORCE" :> str("maybe") @@ "force" :> <<"bool", FALSE>>),
   object("level" :> <<"num", 500>> @@ "other" :> <<"null">>)}
MCPrints == {<<>>, <<"60">>, <<"100">>, <<"59.94">>, <<"on">>, <<"off">>, <<"maybe">>}
MCReading == <<"60">> :> 6000 @@ <<"100">> :> 10000 @@ <<"59.94">> :> 5994
             @@ <<"59_94">> :> 5994 @@ <<"0">> :> 0
MCWritten == 500 :> <<"5">> @@ 550 :> <<"5.5">> @@ 6000 :> <<"60">> @@ 10000 :> <<"100">>
             @@ 20000 :> <<"200">>
MCUpper ==
  "force" :> "FORCE" @@ "FORCE" :> "FORCE" @@ "level" :> "LEVEL" @@ "other" :> "OTHER"
  @@ "refresh" :> "REFRESH" @@ "scale" :> "SCALE" @@ "action" :> "ACTION" @@ "value" :> "VALUE"
MCUnescaped == Inches :> <<"bad">> @@ Folder :> object("value" :> <<"str", <<"C:", "tab">>>>)

\* Config files for the three systems: sections that are switched on in each
\* way, with a runner whose entities may be those of others.
section(enabled, flaw) ==
  [enabled |-> enabled, flaw |-> flaw, entities |-> <<>>, optional |-> {}]
On == section("true", "none")
MCRunners ==
  {[section(e, "none") EXCEPT !.entities = ids, !.optional = {"runner.b", "session.locked"}] :
     e \in {"TRUE", "1", "false"},
     ids \in {<<"runner.a", "runner.b">>, <<"runner.b", "session.locked">>,
              <<"session.sleep">>, <<"runner.a", "runner.a">>, <<"display.off">>}}
MCSections ==
  UNION {[d -> {On, section("1", "none"), section("tRUE", "none")}] :
           d \in SUBSET {"session_loginctl", "display_kscreen", "session_darwin"}}
MCFiles ==
  {s @@ "runner" :> r : s \in MCSections, r \in MCRunners}
  \cup {("session_windows" :> On @@ "runner" :> r) @@ ("fancontrol_windows" :> section(e, flaw)) :
          r \in MCRunners, e \in {"true", "1", "false"},
          flaw \in {"none", "unknown", "invalid", "files"}}
  \cup {s @@ "nosuch" :> On : s \in MCSections}

----
CONSTANTS Setups, Short, MaxActs, Installs, Friendly, Fold, Content, ConfigPath,
          MaxFaults, MaxMoves, Actions, Listings, Foreign, Prints, Reading, Written, Upper,
          Unescaped

VARIABLES
  planPhase, conf, schemes, active, found, modes, planOptions, planReader, held, planCmd,
  target, planState, planAvail, acts,
  fanPhase, install, profiles, fanOptions, fc, current, goal, at, reply, profile, fanState,
  fanAvail, faults, moves,
  cmdPhase, action, discovered, announced, sent, run, read, shown

Plan == INSTANCE PowerPlan
Fan  == INSTANCE FanControl
Cmd  == INSTANCE RunnerCommands

\* Keys of the configuration are keys and its names, required by validation, are
\* not empty; what is listed has a name with a slug, the options of a script have
\* one or a key; there are numerals for all of them; names of parameters are words.
ASSUME BoundsAssumption == MaxActs \in Nat /\ MaxFaults \in Nat /\ MaxMoves \in Nat

ASSUME SetupsAssumption ==
  /\ "plan" \in Words /\ Short \in [DOMAIN Short -> Words]
  /\ \A s \in Setups :
       /\ IsFiniteSet(DOMAIN s.conf) /\ DOMAIN s.conf \subseteq Keys
       /\ \A k \in DOMAIN s.conf : s.conf[k].name \in DOMAIN NameRank \ {<<>>}
       /\ s.schemes \in Seq(Range(s.schemes))
       /\ \A x \in Range(s.schemes) :
            /\ {"name", "guid"} \subseteq DOMAIN x /\ x.guid.id \in DOMAIN Short
            /\ Plan!FriendlyName(x) \in DOMAIN NameRank \cap DOMAIN Slug
       /\ Cardinality(DOMAIN s.conf) + Len(s.schemes) <= MaxNumber

ASSUME InstallsAssumption ==
  /\ "hash" \in Words
  /\ \A c \in DOMAIN Friendly : Friendly[c] \in DOMAIN NameRank \ {<<>>}
  /\ \A s \in Installs :
       /\ s.fc \in {"stopped", "up", "served"}
       /\ IsFiniteSet(DOMAIN s.configured) /\ DOMAIN s.configured \subseteq Keys
       /\ \A k \in DOMAIN s.configured :
            LET p == s.configured[k]
            IN  /\ DOMAIN p = {"name", "config", "source"}
                /\ p.name \in DOMAIN NameRank \cup {<<>>}
                /\ p.name = <<>> => Fan!ConfigOf(p, k) \in DOMAIN Friendly
       /\ s.listed \in Seq((DOMAIN Slug \cap DOMAIN Friendly) \ {<<>>})
       /\ Cardinality(DOMAIN s.configured) + Len(s.listed) <= MaxNumber

\* Parameters by name.
Params(q) == IsFiniteSet(DOMAIN q) /\ DOMAIN q \subseteq Words

ASSUME ActionsAssumption ==
  /\ {"opt", "action"} \subseteq Words
  /\ \A a \in Actions :
       /\ {"options", "setter"} \subseteq DOMAIN a /\ {"on", "off"} \subseteq DOMAIN a.setter
       /\ IsFiniteSet(DOMAIN a.options) /\ DOMAIN a.options \subseteq Keys
       /\ \A k \in DOMAIN a.options : Params(a.options[k].params)
       /\ Params(a.setter.on) /\ Params(a.setter.off)
  /\ \A listing \in Listings :
       /\ DOMAIN listing = 1..Len(listing) /\ Len(listing) \in 0..(MaxNumber + 1)
       /\ \A i \in DOMAIN listing :
            /\ listing[i].value \in Keys /\ Params(listing[i].params)
            /\ listing[i].value = <<>> => listing[i].name \in DOMAIN Slug \cup {<<>>}
  /\ \A payload \in Foreign :
       Params(Cmd!Fields(payload)) /\ Params(Cmd!Fields(Cmd!Decoded(payload)))

planVars == <<planPhase, conf, schemes, active, found, modes, planOptions, planReader,
              held, planCmd, target, planState, planAvail, acts>>
fanVars  == <<fanPhase, install, profiles, fanOptions, fc, current, goal, at, reply, profile,
              fanState, fanAvail, faults, moves>>
commandVars == <<cmdPhase, action, discovered, announced, sent, run, read, shown>>
vars == <<planVars, fanVars, commandVars, catalogVars>>

\* Each behaviour has one plugin; the others, or the catalog, are off.
PlanOff ==
  /\ planPhase = "off" /\ conf = <<>> /\ schemes = <<>> /\ active = "none"
  /\ found = <<>> /\ modes = <<>> /\ planOptions = <<>> /\ planReader = "wait" /\ held = <<>>
  /\ planCmd = "idle" /\ target = <<>> /\ planState = <<>> /\ planAvail = "none"
  /\ acts = 0

FanOff ==
  /\ fanPhase = "off" /\ profiles = <<>> /\ fanOptions = <<>> /\ fc = "stopped" /\ current = <<>>
  /\ install = [configured |-> <<>>, listed |-> <<>>]
  /\ goal = [a \in {"poll", "cmd"} |-> "none"]
  /\ at = [a \in {"poll", "cmd"} |-> "open"]
  /\ reply = [a \in {"poll", "cmd"} |-> Fan!None]
  /\ profile = [a \in {"poll", "cmd"} |-> <<>>]
  /\ fanState = <<>> /\ fanAvail = "none" /\ faults = 0 /\ moves = 0

CommandOff ==
  /\ cmdPhase = "off" /\ discovered = <<>> /\ announced = <<>> /\ sent = [by |-> "nobody"]
  /\ action = [kind |-> "none", options |-> <<>>] /\ run = Cmd!Nothing /\ read = {}
  /\ shown = <<>>

CatalogOff ==
  /\ catPhase = "off" /\ goos = "linux" /\ sections = <<>> /\ place = 0
  /\ todo = <<>> /\ registry = <<>> /\ refused = ""

Init == \/ Plan!PlanInit /\ FanOff /\ CommandOff /\ CatalogOff
        \/ PlanOff /\ Fan!FanInit /\ CommandOff /\ CatalogOff
        \/ PlanOff /\ FanOff /\ Cmd!CommandInit /\ CatalogOff
        \/ PlanOff /\ FanOff /\ CommandOff /\ CatalogInit

Next ==
  \/ planPhase # "off" /\ Plan!PlanNext /\ UNCHANGED <<fanVars, commandVars, catalogVars>>
  \/ fanPhase # "off" /\ Fan!FanNext /\ UNCHANGED <<planVars, commandVars, catalogVars>>
  \/ cmdPhase # "off" /\ Cmd!CommandNext /\ UNCHANGED <<planVars, fanVars, catalogVars>>
  \/ catPhase # "off" /\ CatalogNext /\ UNCHANGED <<planVars, fanVars, commandVars>>

Spec == Init /\ [][Next]_vars /\ Plan!PlanFairness /\ Fan!FanFairness

----
\* Every variable of the plugins and the catalog has its type.
TypeOK == Plan!PlanTypeOK /\ Fan!FanTypeOK /\ Cmd!CommandTypeOK /\ CatalogTypeOK
\* Plans and profiles that were found can all be chosen in Home Assistant, and
\* what the user configured is kept (mergeDiscoveredModes, -Profiles).
Selectable == Plan!PlanSelectable /\ Fan!FanSelectable
\* A command of the fan control plugin always ends.
CommandReturns == Fan!FanCommandReturns
\* The state shown comes to agree with the active scheme of Windows and with
\* the current config of FanControl (the state-refresh tasks).
StateSettles == Plan!PlanSettles /\ Fan!FanSettles
\* What Home Assistant is offered by a runner action starts its script with the
\* parameters of the choice, also after its options were listed again, and a
\* select comes to show only what was one of its options when it was matched.
ChoicesWork == [][Cmd!ChoicesWork /\ Cmd!ShownIsOffered]_vars
\* No command makes a runner script read, by any way of delivery, a declared
\* parameter that the command does not have as it is declared.
OnlyDeclared == [][Cmd!OnlyDeclared]_vars
=============================================================================
