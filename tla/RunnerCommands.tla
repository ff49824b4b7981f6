--------------------------- MODULE RunnerCommands ---------------------------
(***************************************************************************)
(* One action of the runner plugin from its configuration to the script    *)
(* and back: what validation accepts, which options it has and when they   *)
(* are listed again, what discovery has Home Assistant send, how a command *)
(* becomes the arguments, environment or input of the script               *)
(* (src/internal/plugins/runner), and the state shown.  Refreshes of one   *)
(* action that overlap each other are the subject of Runner.               *)
(*                                                                         *)
(* A value is <<"str", s>>, <<"num", hundredths>>, <<"bool", b>>,          *)
(* <<"map", fields>> or <<"null">>; s is a string in the sense of Entity;  *)
(* names of parameters and fields are words.                               *)
(***************************************************************************)
EXTENDS Entity, Integers

CONSTANTS
  Actions,    \* the configured actions, as the file has them
  Listings,   \* what an options script may print: sequences of
              \* [value, name, params], <<>> strings if left out
  Foreign,    \* payloads of other clients than Home Assistant; <<"bad">> is
              \* no JSON
  Prints,     \* what a getter may print
  Reading,    \* of a string that is a number: its hundredths
  Written,    \* of a number: the text it is handed over as
  Upper,      \* of the name of a parameter: in upper case
  Unescaped   \* of an option's name in which JSON escapes a character: what
              \* the command template makes of it

VARIABLES
  cmdPhase,   \* loading, listing, registering, serving, called (a command is on
              \* its way), running, off; refused: no entity
  action,
  discovered, \* actionRuntime.discoveredOptions: [name, params] by key
  announced,  \* the options of the entity in the registry
  sent,       \* a command on its way: what was chosen, and its payload
  run,        \* the script it runs: [ran, value, params, program, args, env,
              \* stdin]
  read,       \* the state a refresh has made of a text, until it is shown
  shown       \* the state topic

commandVars ==
  <<cmdPhase, action, discovered, announced, sent, run, read, shown>>

Served == {"serving", "called", "running"}

-----------------------------------------------------------------------------
\* Configuration. A path is "file", "missing" or "".

Interpreters ==
  {"pwsh", "powershell", "powershell.exe", "cmd", "exe", "sh", "bash"}

Default(value, default) == IF value = "" THEN default ELSE value

WithDefaults(a) ==
  [a EXCEPT !.source = Default(@, "last_success"), !.after = Default(@, "refresh"),
            !.setter.input = Default(@, "none"),
            !.setter.delivery = Default(@, "args")]

RunsFile(script) ==
  /\ script.path = "file"
  /\ IF script.command # "" THEN script.command = "file"
     ELSE script.interpreter \in Interpreters

ValidSetter(s) ==
  /\ RunsFile(s)
  /\ s.input \in {"none", "structured", "json"}
  /\ s.delivery \in {"args", "stdin_json", "env"}
  /\ s.input = "json" => s.maxBytes > 0
  /\ \A p \in DOMAIN s.schema :
        s.schema[p].type \in {"string", "integer", "number", "boolean"}

ValidAction(a) ==
  /\ a.name # <<>> /\ a.kind \in {"button", "select", "switch"}
  /\ a.source \in {"none", "last_success", "getter"}
  /\ a.after \in {"refresh", "last_success"}
  /\ ValidSetter(a.setter)
  /\ a.source = "getter" => RunsFile(a.getter)
  /\ a.lister # <<>> => a.lister[1].path = "file"   \* not its interpreter
  /\ a.kind = "select" =>
       /\ a.options # <<>> \/ a.lister # <<>>
       /\ \A k \in DOMAIN a.options : a.options[k].name # <<>>
  /\ a.kind = "switch" => a.setter.on # <<>> /\ a.setter.off # <<>>

\* parseOptionsGetterJSON: the options of a listing, later names of the same
\* text dropped; a key that is taken gets the index, and may still be taken.
OptionsFrom(listing) ==
  LET dropped(i) == \E j \in 1..(i - 1) : listing[j].name = listing[i].name
      key(i) ==
        IF listing[i].value # <<>> THEN listing[i].value
        ELSE IF Slug[listing[i].name] # <<>> THEN Slug[listing[i].name]
        ELSE <<"opt", Numeral[i - 1]>>
      add(map, i) ==
        Put(map, IF key(i) \in DOMAIN map THEN Append(key(i), Numeral[i - 1]) ELSE key(i),
            [name |-> listing[i].name, params |-> listing[i].params])
      first[n \in 0..Len(listing)] ==
        IF n = 0 THEN <<>>
        ELSE IF dropped(n) THEN first[n - 1] ELSE add(first[n - 1], n)
  IN  first[Len(listing)]

\* optionMap
Options == IF discovered # <<>> THEN discovered ELSE action.options

OptionList ==
  LET keys == Sorted(DOMAIN Options, ByKey(DOMAIN Options))
  IN  [i \in DOMAIN keys |-> [value |-> keys[i], name |-> Options[keys[i]].name]]

-----------------------------------------------------------------------------
\* Values and parameters

Yes == {<<"true">>, <<"on">>, <<"1">>, <<"yes">>}
No  == {<<"false">>, <<"off">>, <<"0">>, <<"no">>}

\* normalizeSwitchState accepts these; IsOn is what it returns for them.
IsSwitch(v) == v[1] = "bool" \/ (v[1] = "str" /\ v[2] \in Yes \cup No)
IsOn(v)     == IF v[1] = "bool" THEN v[2] ELSE v[2] \in Yes

\* fmt.Sprint and formatFlatArgValue; what is nested is not told apart.
Plain(v) ==
  CASE v[1] = "str"  -> v[2]
    [] v[1] = "num"  -> Written[v[2]]
    [] v[1] = "bool" -> IF v[2] THEN <<"true">> ELSE <<"false">>
    [] OTHER         -> <<v[1]>>

\* optionsEqual
SameOptions(a, b) ==
  /\ DOMAIN a = DOMAIN b
  /\ \A k \in DOMAIN a :
       /\ a[k].name = b[k].name /\ DOMAIN a[k].params = DOMAIN b[k].params
       /\ \A p \in DOMAIN a[k].params : Plain(a[k].params[p]) = Plain(b[k].params[p])

\* The number that asInt64 and asFloat64 make of a value.
Numbers(v) == IF v[1] = "num" THEN {v[2]}
              ELSE IF v[1] = "str" /\ v[2] \in DOMAIN Reading THEN {Reading[v[2]]}
              ELSE {}

Conforms(s, v) ==
  CASE s.type = "string"  -> v[1] = "str" /\ (s.enum # {} => v[2] \in s.enum)
    [] s.type = "boolean" -> IsSwitch(v)
    [] OTHER -> \E n \in Numbers(v) : /\ s.type = "integer" => n % 100 = 0
                                      /\ s.min * 100 <= n /\ n <= s.max * 100

Missing(schema, params) ==
  {p \in DOMAIN schema : schema[p].required} \ DOMAIN params

\* Mutant: unknown parameters pass.
ValidParamsKnown(schema, params, strict) ==
  \/ schema = <<>>
  \/ /\ \A p \in DOMAIN params \cap DOMAIN schema : Conforms(schema[p], params[p])
     /\ Missing(schema, params) = {}

\* validateStructuredParameters; strict is FALSE for loose JSON.
ValidParams(schema, params, strict) ==
  \/ schema = <<>>
  \/ /\ strict => DOMAIN params \subseteq DOMAIN schema
     /\ \A p \in DOMAIN params \cap DOMAIN schema : Conforms(schema[p], params[p])
     /\ Missing(schema, params) = {}

-----------------------------------------------------------------------------
\* From a payload to the parameters of the script

\* decodeCommandPayload
Decoded(payload) ==
  IF payload[1] # "map" THEN payload
  ELSE IF "value" \in DOMAIN payload[2] THEN payload[2].value
  ELSE IF "action" \in DOMAIN payload[2] THEN payload[2].action
  ELSE payload

Fields(value) == IF value[1] = "map" THEN value[2] ELSE <<>>

\* resolveButtonParams, resolveSelectParams, resolveSwitchParams: the runs a
\* payload leads to, none if it is refused. size is the length of the payload.
ButtonRuns(payload, size) ==
  LET s == action.setter
      params == IF s.input = "structured" THEN Fields(Decoded(payload))
                ELSE IF s.input = "json" THEN Fields(payload) ELSE <<>>
      accepted ==
        CASE s.input = "none" -> TRUE
          [] s.input = "structured" -> /\ Decoded(payload)[1] \in {"map", "null"}
                                       /\ ValidParams(s.schema, params, TRUE)
          [] s.input = "json" -> /\ payload[1] \in {"map", "null"}
                                 /\ size <= s.maxBytes
                                 /\ ValidParams(s.schema, params, s.strict)
  IN  IF accepted THEN {[value |-> <<"null">>, params |-> params]} ELSE {}

Configured(params) ==
  action.setter.input = "structured" => ValidParams(action.setter.schema, params, TRUE)

\* Mutant: the state after a run is the key of the option.
SelectRunsKeyed(payload) ==
  LET input == Decoded(payload)
      key == IF input[1] = "str" THEN OptionValue(OptionList, input[2]) ELSE <<>>
  IN  IF key = <<>> \/ ~Configured(Options[key].params) THEN {}
      ELSE {[value |-> <<"str", key>>, params |-> Options[key].params]}

SelectRuns(payload) ==
  LET input == Decoded(payload)
      key == IF input[1] = "str" THEN OptionValue(OptionList, input[2]) ELSE <<>>
  IN  IF key = <<>> \/ input[2] = <<>> \/ ~Configured(Options[key].params) THEN {}
      ELSE {[value |-> <<"str", OptionName(OptionList, key)>>,
             params |-> Options[key].params]}

SwitchRuns(payload) ==
  LET input == Decoded(payload)
      on == IsOn(input)
      params == IF on THEN action.setter.on ELSE action.setter.off
  IN  IF IsSwitch(input) /\ Configured(params)
      THEN {[value |-> <<"bool", on>>, params |-> params]} ELSE {}

Runs(payload, size) ==
  CASE payload[1] = "bad"        -> {}
    [] action.kind = "button" -> ButtonRuns(payload, size)
    [] action.kind = "select" -> SelectRuns(payload)
    [] action.kind = "switch" -> SwitchRuns(payload)

\* Parameters in the order of their names, sortedParamKeys.
InOrder(names) ==
  Sorted(names, {p \in names \X names : WordRank[p[1]] < WordRank[p[2]]})

\* PowerShell, or a command, is given each parameter after its name.
Flagged(s) ==
  s.command # "" \/ s.interpreter \in {"pwsh", "powershell", "powershell.exe"}

\* How a value is handed over: formatPowerShellArgValue, formatFlatArgValue, or
\* as JSON.
Form(s, v) ==
  IF s.delivery = "stdin_json" THEN v
  ELSE IF s.delivery = "args" /\ Flagged(s) /\ v[1] = "bool"
  THEN IF v[2] THEN <<"$true">> ELSE <<"$false">>
  ELSE Plain(v)

\* buildInvocation, without what is the same for every command. Of variables
\* with one name the last counts.
Invocation(r) ==
  LET s == action.setter
      names == InOrder(DOMAIN r.params)
      args == [i \in DOMAIN names |->
                 [flag |-> IF Flagged(s) THEN names[i] ELSE "",
                  text |-> Form(s, r.params[names[i]])]]
      called(x) == {p \in DOMAIN r.params : Upper[p] = x}
      last(x) == CHOOSE p \in called(x) :
                   \A q \in called(x) \ {p} : WordRank[q] < WordRank[p]
      env == [x \in {Upper[p] : p \in DOMAIN r.params} |-> Form(s, r.params[last(x)])]
  IN  [ran |-> TRUE, value |-> r.value, params |-> r.params,
       program |-> IF s.command # "" THEN s.command ELSE s.interpreter,
       args |-> IF s.delivery = "args" THEN args ELSE <<>>,
       env |-> IF s.delivery = "env" THEN env ELSE <<>>,
       stdin |-> IF s.delivery = "stdin_json" THEN r.params ELSE <<>>]

Nothing == [ran |-> FALSE, value |-> <<"null">>, params |-> <<>>]

-----------------------------------------------------------------------------
\* From a value to what is shown

\* mapGetterToOptionName: the option with the text as name or key, else the
\* first, by key, with a parameter that matches; refresh rates are rounded.
Matches(text, params) ==
  LET near(m, n) == (m - n) \in -4..4 \/ (m + 50) \div 100 = (n + 50) \div 100
  IN  \/ "scale" \in DOMAIN params /\ params.scale = <<"str", text>>
      \/ /\ "refresh" \in DOMAIN params
         /\ \/ params.refresh = <<"str", text>>
            \/ \E m \in Numbers(<<"str", text>>), n \in Numbers(params.refresh) :
                 near(m, n)

OptionFor(text) ==
  LET list == OptionList
      exact == SelectInSeq(list, LAMBDA o : text \in {o.name, o.value})
      near  == SelectInSeq(list, LAMBDA o : Matches(text, Options[o.value].params))
  IN  IF exact # 0 THEN {<<"str", Shown(list[exact])>>}
      ELSE IF near # 0 THEN {<<"str", Shown(list[near])>>} ELSE {}

\* runGetter: its value, none if the text does not parse.
Got(text) ==
  CASE text = <<>>               -> {}
    [] action.kind = "select" -> OptionFor(text)
    [] action.kind = "switch" -> {<<"bool", IsOn(<<"str", text>>)>> :
                                    t \in {text} \cap (Yes \cup No)}
    [] OTHER                     -> {<<"str", text>>}

\* formatHAState and statePlainText
Text(value) ==
  CASE value[1] = "bool" -> IF value[2] THEN <<"true">> ELSE <<"false">>
    [] value[1] = "str"  -> value[2]
    [] OTHER             -> <<>>

\* resolveStateAfterRun: the values that may be published.
AfterRun(value) ==
  IF action.source = "getter" /\ action.after = "refresh" /\ action.kind # "select"
  THEN {value} \cup UNION {Got(text) : text \in Prints}
  ELSE IF action.source = "none" /\ action.kind # "select" THEN {<<"null">>}
  ELSE {value}

-----------------------------------------------------------------------------
CommandInit ==
  /\ action \in Actions /\ cmdPhase = "loading"
  /\ discovered = <<>> /\ announced = <<>> /\ sent = [by |-> "nobody"]
  /\ run = Nothing /\ read = {} /\ shown = <<>>

\* Validate
Load ==
  /\ cmdPhase = "loading"
  /\ action' = WithDefaults(action)
  /\ cmdPhase' = IF ~ValidAction(action') THEN "refused"
                 ELSE IF action.lister # <<>> THEN "listing" ELSE "registering"
  /\ UNCHANGED <<discovered, announced, sent, run, read, shown>>

\* runOptionsGetter: a script that cannot be run, fails or prints an option
\* without a name gives none.
List ==
  /\ action.lister # <<>> /\ action.lister[1].interpreter \in Interpreters
  /\ \E listing \in Listings :
       /\ \A i \in DOMAIN listing : listing[i].name # <<>>
       /\ discovered' = OptionsFrom(listing)

\* discoverOptions; when it fails the static options are used, and without any
\* the action, or the plugin, does not start.
Listed ==
  /\ cmdPhase = "listing" /\ cmdPhase' = "registering" /\ List
  /\ UNCHANGED <<action, announced, sent, run, read, shown>>

ListFails ==
  /\ cmdPhase = "listing"
  /\ cmdPhase' = IF action.options = <<>> THEN "refused" ELSE "registering"
  /\ UNCHANGED <<action, discovered, announced, sent, run, read, shown>>

\* Mutant: the select is announced without Validate.
RegisterUnchecked ==
  /\ cmdPhase = "registering" /\ cmdPhase' = "serving" /\ announced' = OptionList
  /\ UNCHANGED <<action, discovered, sent, run, read, shown>>

\* publishInitialState
Register ==
  /\ cmdPhase = "registering"
  /\ \/ /\ action.kind = "select" /\ ~ValidSelect(OptionList)
        /\ cmdPhase' = "refused" /\ UNCHANGED <<announced, shown>>
     \/ /\ action.kind = "select" => ValidSelect(OptionList)
        /\ cmdPhase' = "serving"
        /\ announced' = IF action.kind = "select" THEN OptionList ELSE <<>>
        /\ shown' \in IF action.source = "getter"
                      THEN {<<>>} \cup {Text(v) : v \in UNION {Got(t) : t \in Prints}}
                      ELSE IF action.source = "none" /\ action.kind = "select"
                      THEN {<<"unknown">>} ELSE {<<>>}
  /\ UNCHANGED <<action, discovered, sent, run, read>>

\* refreshDiscoveredOptions, by its ticker or by tags: what it lists is stored,
\* also when UpdateEntity then refuses it.
Relist ==
  /\ cmdPhase \in Served /\ List /\ ~SameOptions(discovered, discovered')
  /\ UNCHANGED <<cmdPhase, action, sent, run, read, shown>>
  /\ announced' = IF action.kind = "select" /\ ValidSelect(OptionList')
                  THEN OptionList' ELSE announced

\* A client chooses something and publishes a payload of a size.
Send(by, choice, payload, size) ==
  /\ cmdPhase = "serving" /\ cmdPhase' = "called"
  /\ sent' = [by |-> by, choice |-> choice, payload |-> payload, size |-> size]
  /\ UNCHANGED <<action, discovered, announced, run, read, shown>>

Field(name, value) == <<"map", [n \in {name} |-> value]>>

\* The template {"value":"{{ value }}"} takes a name as it is.
Templated(name) ==
  IF name \in DOMAIN Unescaped THEN Unescaped[name] ELSE Field("value", <<"str", name>>)

\* What DiscoveryPayload has Home Assistant send: a choice and its payload.
Offers ==
  CASE action.kind = "select" ->
         {[choice |-> <<"str", Shown(o)>>, payload |-> Templated(Shown(o))] :
            o \in Range(announced)}
    [] action.kind = "switch" ->
         {[choice |-> <<"bool", b>>, payload |-> Field("value", <<"bool", b>>)] :
            b \in BOOLEAN}
    [] action.kind = "button" ->
         {[choice |-> <<"null">>,
           payload |-> Field("action", <<"str", <<"press">>>>)]}

HomeAssistantSends == \E c \in Offers : Send("ha", c.choice, c.payload, 20)

ForeignSends ==
  \E payload \in Foreign, size \in {20, 2000} : Send("other", <<"null">>, payload, size)

\* handleCommand up to the start of the script.
Receive ==
  /\ cmdPhase = "called" /\ sent' = [by |-> "nobody"]
  /\ LET runs == Runs(sent.payload, sent.size)
     IN  /\ run' \in IF runs = {} THEN {Nothing} ELSE {Invocation(r) : r \in runs}
         /\ cmdPhase' = IF runs = {} THEN "serving" ELSE "running"
  /\ UNCHANGED <<action, discovered, announced, read, shown>>

\* The script exits with 0 and the state is published, or it fails.
ScriptEnds ==
  /\ cmdPhase = "running" /\ cmdPhase' = "serving" /\ run' = Nothing
  /\ shown' \in {Text(v) : v \in AfterRun(run.value)} \cup {shown}
  /\ UNCHANGED <<action, discovered, announced, sent, read>>

\* refreshGetterState, by its ticker or by tags
Refresh ==
  /\ cmdPhase \in Served /\ action.source = "getter" /\ read = {}
  /\ \E text \in Prints : \E v \in Got(text) : read' = {v}
  /\ UNCHANGED <<cmdPhase, action, discovered, announced, sent, run, shown>>

Refreshed ==
  /\ \E v \in read : shown' = Text(v)
  /\ read' = {}
  /\ UNCHANGED <<cmdPhase, action, discovered, announced, sent, run>>

CommandNext ==
  \/ Load \/ Listed \/ ListFails \/ Register \/ Relist
  \/ HomeAssistantSends \/ ForeignSends \/ Receive \/ ScriptEnds
  \/ Refresh \/ Refreshed

CommandSpec == CommandInit /\ [][CommandNext]_commandVars

-----------------------------------------------------------------------------
\* Every variable has its type; an entity is registered with options that
\* Validate accepts, and nothing runs without a command.
CommandTypeOK ==
  /\ cmdPhase \in {"loading", "listing", "registering", "refused", "off"} \cup Served
  /\ cmdPhase \in Served /\ action.kind = "select" => ValidSelect(announced)
  /\ run.ran <=> cmdPhase = "running"
  /\ IF cmdPhase = "called" THEN sent.by \in {"ha", "other"} ELSE sent.by = "nobody"

Received == cmdPhase = "called" /\ cmdPhase' # "called"

RunsWith(params, value) == run'.ran /\ run'.params = params /\ run'.value = value

\* Whatever Home Assistant offers works when it is received: a choice starts
\* the script with the parameters configured for it, and the option or switch
\* position that is shown for the run is the choice. A choice may be from an
\* earlier list, if it is in the present one. Not so:
\*   - for an option while a list is stored that Validate refused to announce;
\*   - for a name in which JSON escapes a character: the template does not;
\*   - for a name that is the key of an option listed before it;
\*   - where the configuration is accepted although it cannot work: option
\*     parameters against the schema, a button whose input needs parameters.
ChoicesWork ==
  Received /\ sent.by = "ha" =>
    CASE action.kind = "select" ->
           \A i \in DOMAIN announced :
             LET name == Shown(announced[i])
                 params == Options[announced[i].value].params
             IN  /\ announced = OptionList /\ sent.choice = <<"str", name>>
                 /\ name \notin DOMAIN Unescaped
                 /\ \A j \in 1..(i - 1) : announced[j].value # name
                 /\ Configured(params)
                 => RunsWith(params, sent.choice)
      [] action.kind = "switch" ->
           LET side == IF sent.choice = <<"bool", TRUE>> THEN action.setter.on
                       ELSE action.setter.off
           IN  Configured(side) => RunsWith(side, sent.choice)
      [] action.kind = "button" -> action.setter.input = "none" => run'.ran

\* A select comes to show only what it knows: a text or a payload is matched
\* to an option there is at that time, and this, or nothing or unknown, is what
\* is shown afterwards. The list may change in between and after it: then the
\* option shown is one that has gone, until the next refresh or command.
ShownIsOffered ==
  action.kind = "select" =>
    LET names == {Shown(o) : o \in Range(OptionList)}
    IN  /\ Received /\ run'.ran => Text(run'.value) \in names
        /\ read' # read => \A v \in read' : Text(v) \in names
        /\ shown' # shown => shown' \in {<<>>, <<"unknown">>} \cup names
                                       \cup {Text(v) : v \in read \cup {run.value}}

\* What the script reads for a declared parameter: of the environment the
\* variable of this name, of stdin the field, of arguments what follows the
\* name (in PowerShell, upper and lower case are the same) or has its place.
ReadAs(p, declared) ==
  LET s == action.setter
      place(i) == IF Flagged(s) THEN Upper[run'.args[i].flag] = Upper[p]
                  ELSE InOrder(declared)[i] = p
  IN  CASE s.delivery = "env" -> {run'.env[x] : x \in {Upper[p]} \cap DOMAIN run'.env}
        [] s.delivery = "stdin_json" -> {run'.stdin[x] : x \in {p} \cap DOMAIN run'.stdin}
        [] s.delivery = "args" -> {run'.args[i].text : i \in {i \in DOMAIN run'.args : place(i)}}

\* A command never makes the script see anything that was not declared ("MQTT
\* cannot invoke arbitrary commands"). A select or switch passes one of its
\* configured sets of parameters, a button those that its schema admits (loose
\* JSON: others besides, but none that is declared with another type; without a
\* schema: any). However they are delivered, the script reads for a declared
\* name the value the command has under that name, and nothing if it has none.
\* Not so:
\*   - in the environment and after names: where the command has two names, of
\*     which one may be undeclared, that differ in case only;
\*   - arguments by place: where an optional parameter is missing or another
\*     one is there besides, so that the places shift.
OnlyDeclared ==
  Received /\ run'.ran =>
    LET s == action.setter
        params == run'.params
        declared == IF s.schema = <<>> THEN DOMAIN params ELSE DOMAIN s.schema
        apart(p) ==
          CASE s.delivery = "stdin_json" -> TRUE
            [] s.delivery = "args" /\ ~Flagged(s) -> DOMAIN params = declared
            [] OTHER -> \A n \in DOMAIN params \ {p} : Upper[n] # Upper[p]
    IN  /\ action.kind = "select" => \E k \in DOMAIN Options : Options[k].params = params
        /\ action.kind = "switch" => params \in {s.on, s.off}
        /\ s.input = "none" /\ action.kind = "button" => params = <<>>
        /\ s.schema # <<>> /\ s.input # "none" /\ action.kind = "button" =>
             /\ Missing(s.schema, params) = {}
             /\ \A p \in DOMAIN params :
                  IF p \in DOMAIN s.schema THEN Conforms(s.schema[p], params[p])
                  ELSE s.input = "json" /\ ~s.strict
        /\ \A p \in declared :
             apart(p) => ReadAs(p, declared) = {Form(s, params[n]) : n \in {p} \cap DOMAIN params}
=============================================================================
