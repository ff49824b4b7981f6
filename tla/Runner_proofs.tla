--------------------------- MODULE Runner_proofs ---------------------------
(***************************************************************************)
(* What TLAPS proves of Runner, for every configuration and number of      *)
(* commands: TypeOK, by which the actions that are registered when Start   *)
(* is done are those it has not left out, and RefreshRepairs.              *)
(***************************************************************************)
EXTENDS Runner, SequenceTheorems, TLAPS
-----------------------------------------------------------------------------
(* The inductive invariant *)

\* What a getter of options finds is one of the lists, never nothing.
WorldInv ==
  \A a \in Actions :
    /\ IF a \in Discovers THEN opts[a] \in Lists ELSE opts[a] = Static[a]
    /\ found[a] # {} => a \in Discovers /\ found[a] \in Lists

\* A job that has to do with options is about an action with a getter of them and never
\* holds nothing; jobs run only while the one who launched them waits for them.
JobOK(j) ==
  /\ job[j] \in {"list", "listed", "stored", "built"} => Of(j) \in Discovers
  /\ job[j] = "listed" => got[j] \in Lists
  /\ job[j] = "stored" => found[Of(j)] # {}
  /\ job[j] = "built" => got[j] # {}
  /\ job[j] # "off" /\ j[1] = "start" =>
       spc = "initial" /\ Of(j) = Here /\ job[j] \in {"read", "read?", "mapped"}
  /\ job[j] # "off" /\ j[1] = "post" => post[j[2]] \in {"options", "states"}
JobInv == \A j \in Jobs : JobOK(j)

\* Tickers of an action begin when Start leaves it.
TickInv ==
  spc \notin {"done", "failed"} =>
    \A j \in Jobs : \A i \in DOMAIN Order :
      j[1] \in {"options", "states"} /\ Of(j) = Order[i] /\ i >= at => job[j] = "off"

\* Start has left the actions before the one it is at either registered or out, those
\* behind it are not there yet, and the one it is at is there but not registered.
StartInv ==
  /\ spc # "failed" =>
       /\ \A i \in DOMAIN Order : i < at => (Order[i] \in runtimes <=> Order[i] \in Registered)
       /\ \A i \in DOMAIN Order : i > at => Order[i] \notin runtimes \cup Registered
  /\ spc = "add" => Here \notin runtimes \cup Registered
  /\ spc \in {"discover", "store", "build", "register"} =>
       Here \in runtimes /\ Here \notin Registered
  /\ spc = "initial" => Here \in runtimes /\ Here \in Registered
  /\ spc = "done" => at = Len(Order) /\ (Here \in runtimes <=> Here \in Registered)
  /\ spc = "failed" => Registered = {}
  /\ spc \in {"discover", "store"} => Here \in Discovers
  /\ spc = "store" => got[StartJob] \in Lists
  /\ spc = "build" => Offered(Here) # {}
  /\ spc = "register" => got[StartJob] # {}

\* A refresh after a command begins when its handler has returned.
HandInv ==
  \A n \in 1..MaxCommands :
    post[n] # "off" => n <= commands /\ \A a \in Actions : hnum[a] # n

\* An entity offers what is stored, or whoever stored it is about to announce it, or
\* it is outdated.
OldOK(a) ==
  \/ announced[a] = Offered(a)
  \/ \E j \in Jobs : /\ Of(j) = a
                     /\ \/ job[j] = "stored"
                        \/ job[j] = "built" /\ got[j] = Offered(a)
OldInv == \A a \in Registered \ outdated : OldOK(a)

\* The options of a are those there are; a job has read, or is still to read, those and
\* this state.
Known(a)   == a \in Discovers => found[a] = opts[a]
ListDue(j) ==
  \/ job[j] = "list"
  \/ job[j] = "listed" /\ got[j] = opts[Of(j)]
StateDue(j) ==
  \/ job[j] = "read"
  \/ job[j] \in {"read?", "mapped"} /\ got[j] = {val[Of(j)]}

\* The refresh of a by tags after some command is in progress.
Listing(a) ==
  \E j \in Jobs : /\ j[1] = "post" /\ Of(j) = a /\ a \in after[j[2]]
                  /\ post[j[2]] = "options" /\ ListDue(j)
Reading(a) ==
  \E j \in Jobs : /\ j[1] = "post" /\ Of(j) = a /\ a \in after[j[2]]
                  /\ \/ post[j[2]] = "options" /\ (ListDue(j) \/ Known(a))
                     \/ post[j[2]] = "states" /\ StateDue(j) /\ Known(a)

\* What is fresh is as the world is, or will be by the refresh that made it so.
ListOK(a) == Known(a) \/ Listing(a)
ReadOK(a) ==
  \/ a \notin Registered
  \/ shown[a] = val[a]
  \/ \E j \in Jobs : j[1] = "start" /\ Of(j) = a /\ StateDue(j)
  \/ Reading(a)
FreshInv == \A a \in fresh : ListOK(a) /\ (a \in Getters => ReadOK(a))

IInv ==
  TypeOK /\ WorldInv /\ JobInv /\ StartInv /\ TickInv /\ HandInv /\ OldInv /\ FreshInv
-----------------------------------------------------------------------------
(* Lemmas about the constants *)

\* What a job is.
LEMMA JobFacts ==
  ASSUME NEW j \in Jobs
  PROVE  /\ Of(j) \in Actions
         /\ j[1] \in {"start", "options", "states", "post"}
         /\ j[1] = "start" => j = <<"start", 0, Of(j)>>
         /\ j[1] = "post" => j[2] \in 1..MaxCommands /\ j = <<"post", j[2], Of(j)>>
         /\ j[1] = "options" => Of(j) \in Discovers
  BY ConfigAssumption DEF Jobs, Of

\* There is a job of Start for each action, and one of each command.
LEMMA JobsThere ==
  ASSUME NEW a \in Actions
  PROVE  /\ <<"start", 0, a>> \in Jobs /\ Of(<<"start", 0, a>>) = a
         /\ \A n \in 1..MaxCommands :
              <<"post", n, a>> \in Jobs /\ Of(<<"post", n, a>>) = a
  BY DEF Jobs, Of

\* The order names every action once.
LEMMA OrderFacts ==
  /\ Order \in Seq(Actions) /\ Len(Order) \in Nat \ {0} /\ DOMAIN Order = 1..Len(Order)
  /\ \A i \in DOMAIN Order : Order[i] \in Actions
  /\ \A i, k \in DOMAIN Order : Order[i] = Order[k] => i = k
  /\ \A a \in Actions : \E i \in DOMAIN Order : a = Order[i]
<1>1. Order \in Seq(Actions) /\ Order # <<>>
  BY OrderAssumption
<1>2. Len(Order) \in Nat \ {0} /\ DOMAIN Order = 1..Len(Order)
  BY <1>1, EmptySeq, LenProperties
<1>3. \A i \in DOMAIN Order : Order[i] \in Actions
  BY DEF Actions, Range
<1>4. \A i, k \in DOMAIN Order : Order[i] = Order[k] => i = k
  BY OrderAssumption DEF IsInjective
<1>5. \A a \in Actions : \E i \in DOMAIN Order : a = Order[i]
  BY DEF Actions, Range
<1> QED
  BY <1>1, <1>2, <1>3, <1>4, <1>5
-----------------------------------------------------------------------------
(* Types *)

\* TypeOK but for what it says of the end of Start.
Types ==
  /\ opts \in [Actions -> SUBSET Values] /\ val \in [Actions -> Values]
  /\ \A a \in Actions : val[a] \in opts[a]
  /\ runtimes \subseteq Actions
  /\ found \in [Actions -> SUBSET Values] /\ announced \in [Actions -> SUBSET Values]
  /\ shown \in [Actions -> Values \cup {None}]
  /\ at \in DOMAIN Order
  /\ spc \in {"add", "discover", "store", "build", "register", "initial", "done", "failed"}
  /\ job \in [Jobs -> {"off", "list", "listed", "stored", "built", "read", "read?", "mapped"}]
  /\ got \in [Jobs -> SUBSET Values]
  /\ post \in [1..MaxCommands -> {"off", "delay", "options", "states"}]
  /\ after \in [1..MaxCommands -> SUBSET Actions]
  /\ hpc \in [Actions -> {"idle", "set", "get", "publish"}]
  /\ hval \in [Actions -> Values \cup {None}] /\ hnum \in [Actions -> 0..commands]
  /\ events \in 0..MaxEvents /\ commands \in 0..MaxCommands
  /\ fresh \subseteq Actions /\ outdated \subseteq Actions
  /\ \A a \in Actions : hpc[a] # "idle" => hnum[a] # 0
  /\ \A a, b \in Actions : a # b /\ hnum[a] = hnum[b] => hnum[a] = 0

LEMMA TypesSuffice == TypeOK <=> Types /\ (spc = "done" => runtimes = Registered)
  BY DEF TypeOK, Types

\* Where Start is.
LEMMA HereFacts ==
  ASSUME Types
  PROVE  /\ Here \in Actions /\ StartJob \in Jobs /\ Of(StartJob) = Here
         /\ \A a \in Actions : Offered(a) \subseteq Values /\ Offered(a) \in SUBSET Values
<1>1. Here \in Actions
  BY OrderFacts DEF Types, Here
<1>2. StartJob \in Jobs /\ Of(StartJob) = Here
  BY <1>1, JobsThere DEF StartJob
<1>3. \A a \in Actions : Offered(a) \subseteq Values
  BY ConfigAssumption DEF Offered, Types
<1> QED
  BY <1>1, <1>2, <1>3
LEMMA TypesInit == Init => Types
<1> SUFFICES ASSUME Init PROVE Types
  OBVIOUS
<1>1. opts \in [Actions -> SUBSET Values] /\ val \in [Actions -> Values]
  BY DEF Init
<1>2. 1 \in DOMAIN Order
  BY OrderFacts
<1> QED
  BY <1>1, <1>2, BoundsAssumption DEF Init, Types

LEMMA TypesNext ==
  ASSUME Types, [Next]_vars
  PROVE  Types'
<1> USE DEF Types
<1>1. CASE UNCHANGED vars
  BY <1>1 DEF vars, world, shows, starts, jobs, handles, history
<1> USE DEF world, shows, starts, jobs, handles, history
<1>2. ASSUME NEW a \in Actions, WorldChanges(a) PROVE Types'
  <2>1. PICK list \in IF a \in Discovers THEN Lists ELSE {Static[a]} :
          \E v \in list : opts' = [opts EXCEPT ![a] = list] /\ val' = [val EXCEPT ![a] = v]
    BY <1>2, ZenonT(40) DEF WorldChanges
  <2>2. list \in SUBSET Values
    <3>1. CASE a \in Discovers
      BY <2>1, <3>1, ConfigAssumption
    <3>2. CASE a \notin Discovers
      <4>1. list = Static[a]
        BY <2>1, <3>2
      <4> QED
        BY <4>1, ConfigAssumption
    <3> QED
      BY <3>1, <3>2
  <2>3. PICK v \in list : opts' = [opts EXCEPT ![a] = list] /\ val' = [val EXCEPT ![a] = v]
    BY <2>1
  <2>4. /\ opts' \in [Actions -> SUBSET Values] /\ val' \in [Actions -> Values]
        /\ \A b \in Actions : val'[b] \in opts'[b]
    BY <2>2, <2>3
  <2>5. events' \in 0..MaxEvents /\ fresh' \subseteq Actions
    BY <1>2, BoundsAssumption DEF WorldChanges
  <2> QED
    BY <1>2, <2>4, <2>5 DEF WorldChanges
<1>3. ASSUME NEW j \in Jobs, JobStep(j) PROVE Types'
  <2>1. Of(j) \in Actions
    BY JobFacts
  <2>2. Rest(j) \in {"list", "read", "off"}
    BY Zenon DEF Rest
  <2>3. Offered(Of(j)) \in SUBSET Values /\ opts[Of(j)] \in SUBSET Values /\ val[Of(j)] \in Values
    BY <2>1, HereFacts
  <2> HIDE DEF Types
  <2>4. CASE JobFails(j)
    BY <2>2, <2>4 DEF JobFails, JobEnds, JobGoes, Types
  <2>5. CASE OptionsRead(j)
    BY <2>3, <2>5 DEF OptionsRead, JobGoes, Types
  <2>6. CASE OptionsStore(j)
    <3>1. CASE found[Of(j)] = got[j]
      BY <2>2, <2>6, <3>1, ZenonT(40) DEF OptionsStore, JobEnds, JobGoes, Types
    <3>2. CASE found[Of(j)] # got[j]
      <4>1. found' \in [Actions -> SUBSET Values]
        BY <2>6, <3>2 DEF OptionsStore, Types
      <4>2. fresh' \subseteq Actions
        BY <2>6, <3>2 DEF OptionsStore, Late, Types
      <4> QED
        BY <2>6, <3>2, <4>1, <4>2 DEF OptionsStore, JobGoes, Types
    <3> QED
      BY <3>1, <3>2
  <2>7. CASE OptionsBuild(j)
    BY <2>3, <2>7 DEF OptionsBuild, JobGoes, Types
  <2>8. CASE OptionsUpdate(j)
    <3>1. announced' \in [Actions -> SUBSET Values] /\ outdated' \subseteq Actions
      <4>1. CASE Announce(Of(j), got[j])
        BY <2>1, <4>1 DEF Announce, Types
      <4>2. CASE UNCHANGED <<announced, outdated>>
        BY <4>2 DEF Types
      <4> QED
        BY <2>8, <4>1, <4>2 DEF OptionsUpdate
    <3>2. JobEnds(j)
      BY <2>8 DEF OptionsUpdate
    <3> QED
      BY <2>2, <2>8, <3>1, <3>2 DEF OptionsUpdate, JobEnds, JobGoes, Types
  <2>9. CASE StateRead(j)
    BY <2>3, <2>9 DEF StateRead, JobGoes, Types
  <2>10. CASE StateMap(j)
    <3>1. CASE JobGoes(j, "mapped", got[j])
      BY <2>10, <3>1 DEF StateMap, JobGoes, Types
    <3>2. CASE JobEnds(j)
      BY <2>2, <2>10, <3>2 DEF StateMap, JobEnds, JobGoes, Types
    <3> QED
      BY <2>10, <3>1, <3>2 DEF StateMap
  <2>11. CASE StatePublish(j)
    BY <2>1, <2>2, <2>11 DEF StatePublish, JobEnds, JobGoes, Late, Types
  <2> QED
    BY <1>3, <2>4, <2>5, <2>6, <2>7, <2>8, <2>9, <2>10, <2>11 DEF JobStep
<1>4. ASSUME StartStep PROVE Types'
  <2>1. Here \in Actions /\ StartJob \in Jobs
    BY HereFacts
  <2>2. Offered(Here) \in SUBSET Values /\ opts[Here] \in SUBSET Values
    BY <2>1, HereFacts
  <2>3. Rest(StartJob) = "off"
    BY Zenon DEF Rest, StartJob
  <2>4. ASSUME GoOn
        PROVE  at' \in DOMAIN Order /\ spc' \in {"add", "done"}
    BY <2>4, OrderFacts DEF GoOn
  <2> HIDE DEF Types
  <2>5. CASE StartAdd
    BY <2>1, <2>5 DEF StartAdd, Types
  <2>6. CASE StartDiscover
    BY <2>1, <2>2, <2>6 DEF StartDiscover, JobGoes, Types
  <2>7. CASE StartStore
    BY <2>1, <2>7 DEF StartStore, Late, Types
  <2>8. CASE StartUndiscovered
    BY <2>1, <2>4, <2>8 DEF StartUndiscovered, Types
  <2>9. CASE StartBuild
    BY <2>1, <2>2, <2>9 DEF StartBuild, JobGoes, Types
  <2>10. CASE StartRegister
    BY <2>1, <2>10 DEF StartRegister, Announce, JobGoes, Types
  <2>11. CASE StartNoState
    BY <2>1, <2>3, <2>11 DEF StartNoState, JobEnds, JobGoes, Types
  <2>12. CASE StartTickers
    <3>1. job' \in [Jobs -> {"off", "list", "listed", "stored", "built", "read", "read?", "mapped"}]
      <4>1. \A j \in Jobs : job[j] \in {"off", "list", "listed", "stored", "built", "read", "read?", "mapped"}
        BY DEF Types
      <4> QED
        BY <2>12, <4>1, Zenon DEF StartTickers
    <3> QED
      BY <2>4, <2>12, <3>1 DEF StartTickers, Types
  <2> QED
    BY <1>4, <2>5, <2>6, <2>7, <2>8, <2>9, <2>10, <2>11, <2>12 DEF StartStep
<1>5. ASSUME NEW a \in Actions, NEW v \in Values, Command(a, v) PROVE Types'
  <2>1. commands' \in 0..MaxCommands /\ commands' = commands + 1
    BY <1>5, BoundsAssumption DEF Command
  <2>2. /\ hnum' \in [Actions -> 0..commands']
        /\ \A b \in Actions : hpc'[b] # "idle" => hnum'[b] # 0
        /\ \A b, c \in Actions : b # c /\ hnum'[b] = hnum'[c] => hnum'[b] = 0
    BY <1>5, <2>1 DEF Command
  <2> QED
    BY <1>5, <2>1, <2>2 DEF Command
<1>6. ASSUME NEW a \in Actions, HandlerStep(a) PROVE Types'
  <2>1. ASSUME HandlerReturns(a)
        PROVE  /\ hpc' \in [Actions -> {"idle", "set", "get", "publish"}]
               /\ hval' \in [Actions -> Values \cup {None}] /\ hnum' \in [Actions -> 0..commands']
               /\ \A b \in Actions : hpc'[b] # "idle" => hnum'[b] # 0
               /\ \A b, c \in Actions : b # c /\ hnum'[b] = hnum'[c] => hnum'[b] = 0
    BY <2>1 DEF HandlerReturns
  <2>2. ASSUME NEW v \in Values \cup {None}, NEW to \in {"get", "publish"}, hpc[a] # "idle",
               HandlerGoes(a, to, v)
        PROVE  /\ hpc' \in [Actions -> {"idle", "set", "get", "publish"}]
               /\ hval' \in [Actions -> Values \cup {None}] /\ hnum' \in [Actions -> 0..commands']
               /\ \A b \in Actions : hpc'[b] # "idle" => hnum'[b] # 0
               /\ \A b, c \in Actions : b # c /\ hnum'[b] = hnum'[c] => hnum'[b] = 0
    BY <2>2 DEF HandlerGoes
  <2>3. CASE SetterRuns(a)
    <3>1. val' \in [Actions -> Values] /\ \A b \in Actions : val'[b] \in opts'[b]
      BY <2>3, ZenonT(40) DEF SetterRuns
    <3>2. fresh' \subseteq Actions
      BY <2>3 DEF SetterRuns
    <3>3. HandlerReturns(a) \/ \E to \in {"get", "publish"} : HandlerGoes(a, to, hval[a])
      BY <2>3 DEF SetterRuns
    <3>4. hval[a] \in Values \cup {None} /\ hpc[a] # "idle"
      BY <2>3 DEF SetterRuns
    <3>5. commands' = commands
      BY <3>3 DEF HandlerGoes, HandlerReturns
    <3>6. CASE HandlerReturns(a)
      BY <2>1, <2>3, <3>1, <3>2, <3>5, <3>6 DEF SetterRuns
    <3>7. ASSUME NEW to \in {"get", "publish"}, HandlerGoes(a, to, hval[a]) PROVE Types'
      BY <2>2, <2>3, <3>1, <3>2, <3>4, <3>5, <3>7 DEF SetterRuns
    <3> QED
      BY <3>3, <3>6, <3>7
  <2>4. CASE SwitchGets(a)
    <3>1. PICK v \in {val[a], hval[a]} : HandlerGoes(a, "publish", v)
      BY <2>4 DEF SwitchGets
    <3>2. v \in Values \cup {None} /\ hpc[a] # "idle"
      BY <2>4 DEF SwitchGets
    <3>3. commands' = commands
      BY <3>1 DEF HandlerGoes
    <3> QED
      BY <2>2, <2>4, <3>1, <3>2, <3>3 DEF SwitchGets
  <2>5. CASE HandlerPublishes(a)
    <3>1. HandlerReturns(a) /\ commands' = commands
      BY <2>5 DEF HandlerPublishes, HandlerReturns
    <3>2. shown' \in [Actions -> Values \cup {None}] /\ fresh' \subseteq Actions
      BY <2>5 DEF HandlerPublishes, Late
    <3>3. /\ post' \in [1..MaxCommands -> {"off", "delay", "options", "states"}]
          /\ after' \in [1..MaxCommands -> SUBSET Actions]
      <4>1. Refreshes[a] \in SUBSET Actions
        BY ConfigAssumption
      <4> QED
        BY <2>5, <4>1, ZenonT(40) DEF HandlerPublishes
    <3> QED
      BY <2>1, <2>5, <3>1, <3>2, <3>3 DEF HandlerPublishes
  <2> QED
    BY <1>6, <2>3, <2>4, <2>5 DEF HandlerStep
<1>7. ASSUME NEW n \in 1..MaxCommands, PostStep(n) PROVE Types'
  <2>1. CASE PostOptions(n)
    <3>1. after' \in [1..MaxCommands -> SUBSET Actions] /\ fresh' \subseteq Actions
      BY <2>1 DEF PostOptions
    <3>2. job' \in [Jobs -> {"off", "list", "listed", "stored", "built", "read", "read?", "mapped"}]
      BY <2>1 DEF PostOptions, Launch
    <3> QED
      BY <2>1, <3>1, <3>2 DEF PostOptions, Launch
  <2>2. CASE PostStates(n)
    <3>1. job' \in [Jobs -> {"off", "list", "listed", "stored", "built", "read", "read?", "mapped"}]
      BY <2>2 DEF PostStates, Launch
    <3> QED
      BY <2>2, <3>1 DEF PostStates, Launch
  <2>3. CASE PostEnds(n)
    BY <2>3 DEF PostEnds
  <2> QED
    BY <1>7, <2>1, <2>2, <2>3 DEF PostStep
<1> QED
  BY <1>1, <1>2, <1>3, <1>4, <1>5, <1>6, <1>7 DEF Next
-----------------------------------------------------------------------------
(* The world and what is found of it *)

\* What a step of a job does to the others.
LEMMA JobMoves ==
  ASSUME Types, NEW j \in Jobs, NEW to, NEW holds, JobGoes(j, to, holds)
  PROVE  /\ job'[j] = to /\ got'[j] = holds
         /\ \A k \in Jobs : k # j => job'[k] = job[k] /\ got'[k] = got[k]
         /\ post' = post /\ after' = after
  BY DEF Types, JobGoes

\* Where a job rests.
LEMMA RestFacts ==
  ASSUME NEW j \in Jobs
  PROVE  /\ Rest(j) \in {"off", "list", "read"}
         /\ j[1] \in {"start", "post"} => Rest(j) = "off"
         /\ Rest(j) = "list" => Of(j) \in Discovers
<1>1. Rest(j) \in {"off", "list", "read"} /\ (Rest(j) = "list" => j[1] = "options")
  BY Zenon DEF Rest
<1>2. j[1] \in {"start", "post"} => Rest(j) = "off"
  BY Zenon DEF Rest
<1> QED
  BY <1>1, <1>2, JobFacts

\* The options there are of an action change with the world only; those found of it
\* when a job or Start stores them.
LEMMA WorldMoves ==
  ASSUME [Next]_vars
  PROVE  \/ UNCHANGED <<opts, found>>
         \/ \E a \in Actions : WorldChanges(a)
         \/ \E j \in Jobs : OptionsStore(j)
         \/ StartStore
<1>1. CASE UNCHANGED vars
  BY <1>1 DEF vars, world, shows
<1>2. ASSUME NEW j \in Jobs, JobStep(j), ~ OptionsStore(j) PROVE UNCHANGED <<opts, found>>
  BY <1>2 DEF JobStep, JobFails, OptionsRead, OptionsBuild, OptionsUpdate, StateRead,
              StateMap, StatePublish, world, shows
<1>3. ASSUME StartStep, ~ StartStore PROVE UNCHANGED <<opts, found>>
  BY <1>3 DEF StartStep, StartAdd, StartDiscover, StartUndiscovered, StartBuild,
              StartRegister, StartNoState, StartTickers, world, shows
<1>4. ASSUME NEW a \in Actions, NEW v \in Values, Command(a, v) PROVE UNCHANGED <<opts, found>>
  BY <1>4 DEF Command, world, shows
<1>5. ASSUME NEW a \in Actions, HandlerStep(a) PROVE UNCHANGED <<opts, found>>
  BY <1>5 DEF HandlerStep, SetterRuns, SwitchGets, HandlerPublishes, world, shows
<1>6. ASSUME NEW n \in 1..MaxCommands, PostStep(n) PROVE UNCHANGED <<opts, found>>
  BY <1>6 DEF PostStep, PostOptions, PostStates, PostEnds, world, shows
<1> QED
  BY <1>1, <1>2, <1>3, <1>4, <1>5, <1>6 DEF Next

LEMMA WorldNext ==
  ASSUME Types, WorldInv, JobInv, StartInv, [Next]_vars
  PROVE  WorldInv'
<1> USE DEF Types
<1>1. CASE UNCHANGED <<opts, found>>
  BY <1>1 DEF WorldInv
<1>2. ASSUME NEW a \in Actions, WorldChanges(a) PROVE WorldInv'
  <2>1. PICK list \in IF a \in Discovers THEN Lists ELSE {Static[a]} :
          opts' = [opts EXCEPT ![a] = list]
    BY <1>2 DEF WorldChanges
  <2>2. found' = found
    BY <1>2 DEF WorldChanges, shows
  <2>3. IF a \in Discovers THEN list \in Lists ELSE list = Static[a]
    BY <2>1
  <2> QED
    BY <2>1, <2>2, <2>3 DEF WorldInv
<1>3. ASSUME NEW j \in Jobs, OptionsStore(j) PROVE WorldInv'
  <2>1. Of(j) \in Actions /\ Of(j) \in Discovers /\ got[j] \in Lists
    BY <1>3, JobFacts DEF JobInv, JobOK, OptionsStore
  <2>2. opts' = opts /\ (found' = found \/ found' = [found EXCEPT ![Of(j)] = got[j]])
    BY <1>3 DEF OptionsStore, world
  <2> QED
    BY <2>1, <2>2 DEF WorldInv
<1>4. CASE StartStore
  <2>1. Here \in Actions /\ Here \in Discovers /\ got[StartJob] \in Lists
    BY <1>4, HereFacts DEF StartInv, StartStore
  <2>2. opts' = opts /\ found' = [found EXCEPT ![Here] = got[StartJob]]
    BY <1>4 DEF StartStore, world
  <2> QED
    BY <2>1, <2>2 DEF WorldInv
<1> QED
  BY <1>1, <1>2, <1>3, <1>4, WorldMoves

\* Options once found stay found.
LEMMA FoundStays ==
  ASSUME Types, WorldInv, JobInv, StartInv, [Next]_vars, NEW a \in Actions, found[a] # {}
  PROVE  found'[a] # {}
<1> USE DEF Types
<1>1. \A list \in Lists : list # {}
  BY ConfigAssumption, Zenon
<1>2. ASSUME NEW b \in Actions, WorldChanges(b) PROVE found' = found
  BY <1>2 DEF WorldChanges, shows
<1>3. ASSUME NEW j \in Jobs, OptionsStore(j) PROVE found'[a] # {}
  <2>1. got[j] \in Lists /\ Of(j) \in Actions
    BY <1>3, JobFacts DEF JobInv, JobOK, OptionsStore
  <2>2. found' = found \/ found' = [found EXCEPT ![Of(j)] = got[j]]
    BY <1>3 DEF OptionsStore
  <2> QED
    BY <1>1, <2>1, <2>2, ZenonT(40)
<1>4. CASE StartStore
  <2>1. got[StartJob] \in Lists /\ Here \in Actions
    BY <1>4, HereFacts DEF StartStore, StartInv
  <2>2. found' = [found EXCEPT ![Here] = got[StartJob]]
    BY <1>4 DEF StartStore
  <2> QED
    BY <1>1, <2>1, <2>2
<1> QED
  BY <1>2, <1>3, <1>4, WorldMoves

\* What is found, or else configured, is offered.
LEMMA OffersSome ==
  ASSUME Types, WorldInv, NEW a \in Actions, found[a] # {} \/ Static[a] # {} \/ a \notin Discovers
  PROVE  Offered(a) # {}
  BY ConfigAssumption DEF Offered
-----------------------------------------------------------------------------
(* Jobs *)

\* A job nobody moves stays as it should be.
LEMMA JobKept ==
  ASSUME Types, WorldInv, JobInv, StartInv, [Next]_vars,
         NEW k \in Jobs, job'[k] = job[k], got'[k] = got[k],
         k[1] = "start" /\ job[k] # "off" => spc' = spc /\ at' = at,
         k[1] = "post" /\ job[k] # "off" => post'[k[2]] \in {"options", "states"}
  PROVE  JobOK(k)'
<1>1. JobOK(k)
  BY DEF JobInv
<1>2. job[k] = "stored" => found'[Of(k)] # {}
  BY <1>1, FoundStays, JobFacts DEF JobOK
<1>3. job[k] # "off" /\ k[1] = "start" => Of(k) = Here'
  BY <1>1 DEF JobOK, Here
<1> QED
  BY <1>1, <1>2, <1>3 DEF JobOK

\* As one job moves, the others stay as they should be.
LEMMA OtherJobs ==
  ASSUME Types, WorldInv, JobInv, StartInv, [Next]_vars,
         NEW j \in Jobs, NEW to, NEW holds, JobGoes(j, to, holds), spc' = spc, at' = at
  PROVE  \A k \in Jobs : k # j => JobOK(k)'
<1> SUFFICES ASSUME NEW k \in Jobs, k # j PROVE JobOK(k)'
  OBVIOUS
<1>1. job'[k] = job[k] /\ got'[k] = got[k] /\ post' = post
  BY JobMoves
<1>2. k[1] = "post" /\ job[k] # "off" => post[k[2]] \in {"options", "states"}
  BY DEF JobInv, JobOK
<1> QED
  BY <1>1, <1>2, JobKept

LEMMA JobStepKeeps ==
  ASSUME Types, WorldInv, JobInv, StartInv, [Next]_vars, NEW j \in Jobs, JobStep(j)
  PROVE  JobInv'
<1>1. spc' = spc /\ at' = at
  BY DEF JobStep, JobFails, OptionsRead, OptionsStore, OptionsBuild, OptionsUpdate, StateRead,
         StateMap, StatePublish, starts
<1>2. JobOK(j) /\ Of(j) \in Actions /\ j[1] \in {"start", "options", "states", "post"}
  BY JobFacts DEF JobInv
<1>3. ASSUME NEW to, NEW holds, JobGoes(j, to, holds), JobOK(j)' PROVE JobInv'
  <2>1. \A k \in Jobs : k # j => JobOK(k)'
    BY <1>1, <1>3, OtherJobs
  <2> QED
    BY <1>3, <2>1 DEF JobInv
<1>4. ASSUME NEW to \in {"read?", "mapped"}, NEW holds, JobGoes(j, to, holds),
             job[j] \in {"read", "read?"}
      PROVE  JobInv'
  <2>1. job'[j] = to /\ post' = post
    BY <1>4, JobMoves
  <2>2. j[1] = "start" => spc = "initial" /\ Of(j) = Here'
    BY <1>1, <1>2, <1>4 DEF JobOK, Here
  <2>3. j[1] = "post" => post[j[2]] \in {"options", "states"}
    BY <1>2, <1>4 DEF JobOK
  <2>4. JobOK(j)'
    BY <1>1, <1>4, <2>1, <2>2, <2>3 DEF JobOK
  <2> QED
    BY <1>3, <1>4, <2>4
<1>5. ASSUME JobEnds(j) PROVE JobInv'
  <2>1. JobGoes(j, Rest(j), {})
    BY <1>5 DEF JobEnds
  <2>2. job'[j] = Rest(j)
    BY <2>1, JobMoves
  <2>3. JobOK(j)'
    BY <1>2, <2>2, RestFacts DEF JobOK
  <2> QED
    BY <1>3, <2>1, <2>3
<1>6. CASE JobFails(j)
  BY <1>5, <1>6 DEF JobFails
<1>7. ASSUME NEW to \in {"listed", "stored", "built"}, NEW holds, JobGoes(j, to, holds),
             job[j] \in {"list", "listed", "stored"},
             to = "listed" => holds \in Lists,
             to = "stored" => found'[Of(j)] # {},
             to = "built" => holds # {}
      PROVE  JobInv'
  <2>1. job'[j] = to /\ got'[j] = holds /\ post' = post
    BY <1>7, JobMoves
  <2>2. Of(j) \in Discovers /\ j[1] # "start"
    BY <1>2, <1>7 DEF JobOK
  <2>3. j[1] = "post" => post[j[2]] \in {"options", "states"}
    BY <1>2, <1>7 DEF JobOK
  <2>4. JobOK(j)'
    BY <1>7, <2>1, <2>2, <2>3 DEF JobOK
  <2> QED
    BY <1>3, <1>7, <2>4
<1>8. CASE OptionsRead(j)
  <2>1. job[j] = "list" /\ JobGoes(j, "listed", opts[Of(j)])
    BY <1>8 DEF OptionsRead
  <2>2. opts[Of(j)] \in Lists
    BY <1>2, <2>1 DEF JobOK, WorldInv
  <2> QED
    BY <1>7, <2>1, <2>2
<1>9. CASE OptionsStore(j)
  <2>1. CASE found[Of(j)] = got[j]
    BY <1>5, <1>9, <2>1 DEF OptionsStore
  <2>2. CASE found[Of(j)] # got[j]
    <3>1. job[j] = "listed" /\ JobGoes(j, "stored", {})
      BY <1>9, <2>2 DEF OptionsStore
    <3>2. found'[Of(j)] = got[j]
      BY <1>2, <1>9, <2>2 DEF OptionsStore, Types
    <3>3. got[j] # {}
      <4>1. got[j] \in Lists
        BY <1>2, <3>1 DEF JobOK
      <4> QED
        BY <4>1, ConfigAssumption, Zenon
    <3> QED
      BY <1>7, <3>1, <3>2, <3>3
  <2> QED
    BY <2>1, <2>2
<1>10. CASE OptionsBuild(j)
  <2>1. job[j] = "stored" /\ JobGoes(j, "built", Offered(Of(j)))
    BY <1>10 DEF OptionsBuild
  <2>2. Offered(Of(j)) # {}
    BY <1>2, <2>1, OffersSome DEF JobOK
  <2> QED
    BY <1>7, <2>1, <2>2
<1>11. CASE OptionsUpdate(j)
  BY <1>5, <1>11 DEF OptionsUpdate
<1>12. CASE StateRead(j)
  BY <1>4, <1>12 DEF StateRead
<1>13. CASE StateMap(j)
  BY <1>4, <1>5, <1>13 DEF StateMap
<1>14. CASE StatePublish(j)
  BY <1>5, <1>14 DEF StatePublish
<1> QED
  BY <1>6, <1>8, <1>9, <1>10, <1>11, <1>12, <1>13, <1>14 DEF JobStep

LEMMA StartStepKeeps ==
  ASSUME Types, WorldInv, JobInv, StartInv, [Next]_vars, StartStep
  PROVE  JobInv'
<1>1. /\ Here \in Actions /\ StartJob \in Jobs /\ Of(StartJob) = Here /\ Rest(StartJob) = "off"
      /\ StartJob[1] = "start"
  BY HereFacts, RestFacts DEF StartJob
<1>2. \A k \in Jobs : job[k] # "off" /\ k[1] = "start" => spc = "initial" /\ k = StartJob
  BY JobFacts DEF JobInv, JobOK, StartJob
<1>3. \A k \in Jobs : job[k] # "off" /\ k[1] = "post" => post[k[2]] \in {"options", "states"}
  BY DEF JobInv, JobOK
<1>4. ASSUME UNCHANGED <<job, got, post>>, spc # "initial" PROVE JobInv'
  BY <1>2, <1>3, <1>4, JobKept DEF JobInv
<1>5. ASSUME NEW holds, JobGoes(StartJob, "off", holds), spc # "initial" PROVE JobInv'
  <2>1. /\ job'[StartJob] = "off" /\ post' = post
        /\ \A k \in Jobs : k # StartJob => job'[k] = job[k] /\ got'[k] = got[k]
    BY <1>1, <1>5, JobMoves
  <2>2. \A k \in Jobs : k # StartJob => JobOK(k)'
    BY <1>2, <1>3, <1>5, <2>1, JobKept
  <2>3. \A k \in Jobs : k = StartJob => JobOK(k)'
    BY <2>1 DEF JobOK
  <2> QED
    BY <2>2, <2>3 DEF JobInv
<1>6. CASE StartAdd \/ StartUndiscovered
  BY <1>4, <1>6 DEF StartAdd, StartUndiscovered, jobs
<1>7. CASE StartDiscover \/ StartBuild
  BY <1>5, <1>7 DEF StartDiscover, StartBuild
<1>8. CASE StartStore
  BY <1>4, <1>8 DEF StartStore, jobs
<1>9. CASE StartRegister
  <2>1. JobGoes(StartJob, "read", {}) /\ spc' = "initial" /\ at' = at /\ spc = "register"
    BY <1>9 DEF StartRegister
  <2>2. /\ job'[StartJob] = "read" /\ post' = post
        /\ \A k \in Jobs : k # StartJob => job'[k] = job[k] /\ got'[k] = got[k]
    BY <1>1, <2>1, JobMoves
  <2>3. \A k \in Jobs : k # StartJob => JobOK(k)'
    BY <1>2, <1>3, <2>1, <2>2, JobKept
  <2>4. Of(StartJob) = Here'
    BY <1>1, <2>1 DEF Here
  <2>5. \A k \in Jobs : k = StartJob => k[1] = "start" /\ Of(k) = Here'
    BY <1>1, <2>4
  <2>6. \A k \in Jobs : k = StartJob => JobOK(k)'
    BY <2>1, <2>2, <2>5 DEF JobOK
  <2> QED
    BY <2>3, <2>6 DEF JobInv
<1>10. CASE StartNoState
  <2>1. JobGoes(StartJob, "off", {}) /\ spc' = spc /\ at' = at
    BY <1>1, <1>10 DEF StartNoState, JobEnds, starts
  <2>2. \A k \in Jobs : k # StartJob => JobOK(k)'
    BY <1>1, <2>1, OtherJobs
  <2>3. job'[StartJob] = "off"
    BY <1>1, <2>1, JobMoves
  <2>4. \A k \in Jobs : k = StartJob => JobOK(k)'
    BY <2>3 DEF JobOK
  <2> QED
    BY <2>2, <2>4 DEF JobInv
<1>11. CASE StartTickers
  <2>1. /\ job' = [k \in Jobs |-> CASE k = <<"options", 0, Here>> -> "list"
                                    [] k = <<"states", 0, Here>> -> "read"
                                    [] OTHER -> job[k]]
        /\ got' = got /\ post' = post /\ job[StartJob] = "off"
    BY <1>11 DEF StartTickers
  <2>2. ASSUME NEW k \in Jobs PROVE JobOK(k)'
    <3>1. CASE k = <<"options", 0, Here>>
      <4>1. job'[k] = "list"
        BY <2>1, <3>1, Zenon
      <4>2. k[1] = "options"
        BY <3>1
      <4>3. Of(k) \in Discovers
        BY <4>2, JobFacts
      <4> QED
        BY <4>1, <4>2, <4>3 DEF JobOK
    <3>2. CASE k = <<"states", 0, Here>>
      <4>1. k[1] = "states"
        BY <3>2
      <4>2. k # <<"options", 0, Here>>
        BY <3>2
      <4>3. job'[k] = "read"
        BY <2>1, <3>2, <4>2, Zenon
      <4> QED
        BY <4>1, <4>3 DEF JobOK
    <3>3. CASE k # <<"options", 0, Here>> /\ k # <<"states", 0, Here>>
      <4>1. job'[k] = job[k]
        BY <2>1, <3>3, Zenon
      <4>2. got'[k] = got[k]
        BY <2>1
      <4>3. ~ (k[1] = "start" /\ job[k] # "off")
        BY <1>2, <2>1
      <4> QED
        BY <1>3, <2>1, <4>1, <4>2, <4>3, JobKept
    <3> QED
      BY <3>1, <3>2, <3>3
  <2> QED
    BY <2>2 DEF JobInv
<1> QED
  BY <1>6, <1>7, <1>8, <1>9, <1>10, <1>11 DEF StartStep
LEMMA JobNext ==
  ASSUME Types, WorldInv, JobInv, StartInv, HandInv, [Next]_vars
  PROVE  JobInv'
<1>1. \A k \in Jobs : job[k] # "off" /\ k[1] = "post" => post[k[2]] \in {"options", "states"}
  BY DEF JobInv, JobOK
<1>2. ASSUME UNCHANGED <<job, got, post, spc, at>> PROVE JobInv'
  BY <1>1, <1>2, JobKept DEF JobInv
<1>3. CASE UNCHANGED vars
  BY <1>2, <1>3 DEF vars, jobs, starts
<1>4. ASSUME NEW a \in Actions, WorldChanges(a) PROVE JobInv'
  BY <1>2, <1>4 DEF WorldChanges, jobs, starts
<1>5. ASSUME NEW a \in Actions, NEW v \in Values, Command(a, v) PROVE JobInv'
  BY <1>2, <1>5 DEF Command, jobs, starts
<1>6. ASSUME NEW a \in Actions, HandlerStep(a) PROVE JobInv'
  <2>1. CASE SetterRuns(a) \/ SwitchGets(a)
    BY <1>2, <2>1 DEF SetterRuns, SwitchGets, jobs, starts
  <2>2. CASE HandlerPublishes(a)
    <3>1. UNCHANGED <<job, got, spc, at>>
      BY <2>2 DEF HandlerPublishes, starts
    <3>2. post' = post \/ post' = [post EXCEPT ![hnum[a]] = "delay"]
      BY <2>2 DEF HandlerPublishes
    <3>3. \A n \in 1..MaxCommands : post[n] # "off" => hnum[a] # n
      BY DEF HandInv
    <3>4. \A n \in 1..MaxCommands : post[n] # "off" => post'[n] = post[n]
      BY <3>2, <3>3 DEF Types
    <3>5. ASSUME NEW k \in Jobs, job[k] # "off", k[1] = "post"
          PROVE  post'[k[2]] \in {"options", "states"}
      BY <1>1, <3>4, <3>5, JobFacts
    <3> QED
      BY <3>1, <3>5, JobKept DEF JobInv
  <2> QED
    BY <1>6, <2>1, <2>2 DEF HandlerStep
<1>7. ASSUME NEW n \in 1..MaxCommands, NEW set, NEW as \in {"list", "read"}, Launch(n, set, as),
             post' = [post EXCEPT ![n] = IF as = "list" THEN "options" ELSE "states"],
             UNCHANGED <<spc, at>>, as = "list" => set \subseteq Discovers,
             \A k \in Jobs : k[1] = "post" /\ k[2] = n => job[k] = "off"
      PROVE  JobInv'
  <2>1. /\ job' = [k \in Jobs |-> IF k[1] = "post" /\ k[2] = n /\ Of(k) \in set
                                    THEN as ELSE job[k]]
        /\ got' = got
    BY <1>7 DEF Launch
  <2>2. ASSUME NEW k \in Jobs PROVE JobOK(k)'
    <3>1. CASE k[1] = "post" /\ k[2] = n /\ Of(k) \in set
      <4>1. job'[k] = as
        BY <2>1, <3>1
      <4>2. post'[k[2]] \in {"options", "states"}
        BY <1>7, <3>1 DEF Types
      <4> QED
        BY <1>7, <3>1, <4>1, <4>2 DEF JobOK
    <3>2. CASE ~ (k[1] = "post" /\ k[2] = n /\ Of(k) \in set)
      <4>1. job'[k] = job[k] /\ got'[k] = got[k]
        BY <2>1, <3>2
      <4>2. ASSUME k[1] = "post", job[k] # "off"
            PROVE  post'[k[2]] \in {"options", "states"}
        <5>1. k[2] # n /\ k[2] \in 1..MaxCommands
          BY <1>7, <4>2, JobFacts
        <5>2. post'[k[2]] = post[k[2]]
          BY <1>7, <5>1 DEF Types
        <5> QED
          BY <1>1, <4>2, <5>2
      <4> QED
        BY <1>7, <4>1, <4>2, JobKept
    <3> QED
      BY <3>1, <3>2
  <2> QED
    BY <2>2 DEF JobInv
<1>8. ASSUME NEW n \in 1..MaxCommands, JobsOff(n), NEW k \in Jobs, k[1] = "post", k[2] = n
      PROVE  job[k] = "off"
  BY <1>8, JobFacts DEF JobsOff
<1>9. ASSUME NEW n \in 1..MaxCommands, PostStep(n) PROVE JobInv'
  <2>1. CASE PostOptions(n)
    <3>1. /\ Launch(n, after'[n] \cap Discovers, "list") /\ post[n] = "delay"
          /\ post' = [post EXCEPT ![n] = "options"] /\ UNCHANGED <<spc, at>>
      BY <2>1 DEF PostOptions, starts
    <3>2. \A k \in Jobs : k[1] = "post" /\ k[2] = n => job[k] = "off"
      BY <1>1, <3>1
    <3> QED
      BY <1>7, <3>1, <3>2
  <2>2. CASE PostStates(n)
    <3>1. /\ Launch(n, after[n] \cap Getters, "read") /\ JobsOff(n)
          /\ post' = [post EXCEPT ![n] = "states"] /\ UNCHANGED <<spc, at>>
      BY <2>2 DEF PostStates, starts
    <3> QED
      BY <1>7, <1>8, <3>1
  <2>3. CASE PostEnds(n)
    <3>1. /\ JobsOff(n) /\ UNCHANGED <<spc, at, job, got>>
          /\ post' = [post EXCEPT ![n] = "off"]
      BY <2>3 DEF PostEnds, starts
    <3>2. ASSUME NEW k \in Jobs, k[1] = "post", job[k] # "off"
          PROVE  post'[k[2]] \in {"options", "states"}
      <4>1. k[2] # n /\ k[2] \in 1..MaxCommands
        BY <1>8, <3>1, <3>2, JobFacts
      <4>2. post'[k[2]] = post[k[2]]
        BY <3>1, <4>1 DEF Types
      <4> QED
        BY <1>1, <3>2, <4>2
    <3> QED
      BY <3>1, <3>2, JobKept DEF JobInv
  <2> QED
    BY <1>9, <2>1, <2>2, <2>3 DEF PostStep
<1> QED
  BY <1>3, <1>4, <1>5, <1>6, <1>9, JobStepKeeps, StartStepKeeps DEF Next
-----------------------------------------------------------------------------
(* Numbers of commands *)

LEMMA HandNext ==
  ASSUME Types, HandInv, [Next]_vars
  PROVE  HandInv'
<1> USE DEF Types
<1>1. ASSUME UNCHANGED <<post, hnum, commands>> PROVE HandInv'
  BY <1>1 DEF HandInv
<1>2. CASE UNCHANGED vars
  BY <1>1, <1>2 DEF vars, jobs, handles
<1>3. ASSUME NEW a \in Actions, WorldChanges(a) PROVE HandInv'
  BY <1>1, <1>3 DEF WorldChanges, jobs, handles
<1>4. ASSUME NEW j \in Jobs, JobStep(j) PROVE HandInv'
  BY <1>1, <1>4 DEF JobStep, JobFails, OptionsRead, OptionsStore, OptionsBuild, OptionsUpdate,
                    StateRead, StateMap, StatePublish, JobEnds, JobGoes, handles
<1>5. CASE StartStep
  BY <1>1, <1>5 DEF StartStep, StartAdd, StartDiscover, StartStore, StartUndiscovered, StartBuild,
                    StartRegister, StartNoState, StartTickers, JobEnds, JobGoes, jobs, handles
<1>6. ASSUME NEW a \in Actions, NEW v \in Values, Command(a, v) PROVE HandInv'
  <2>1. /\ post' = post /\ commands' = commands + 1 /\ commands \in Nat
        /\ hnum' = [hnum EXCEPT ![a] = commands + 1]
    BY <1>6, BoundsAssumption DEF Command, jobs
  <2> QED
    BY <2>1 DEF HandInv
<1>7. ASSUME NEW a \in Actions, HandlerStep(a) PROVE HandInv'
  <2>1. commands' = commands
    BY <1>7 DEF HandlerStep, SetterRuns, SwitchGets, HandlerPublishes, HandlerGoes, HandlerReturns
  <2>2. hnum' = hnum \/ hnum' = [hnum EXCEPT ![a] = 0]
    BY <1>7 DEF HandlerStep, SetterRuns, SwitchGets, HandlerPublishes, HandlerGoes, HandlerReturns
  <2>3. CASE post' = post
    BY <2>1, <2>2, <2>3 DEF HandInv
  <2>4. CASE post' # post
    <3>1. /\ post' = [post EXCEPT ![hnum[a]] = "delay"] /\ hnum' = [hnum EXCEPT ![a] = 0]
          /\ hpc[a] # "idle"
      BY <1>7, <2>4 DEF HandlerStep, SetterRuns, SwitchGets, HandlerPublishes, HandlerReturns, jobs
    <3>2. hnum[a] # 0 /\ hnum[a] \in 0..commands
      BY <3>1
    <3>3. \A b \in Actions : b # a => hnum[b] # hnum[a]
      BY <3>2
    <3> QED
      BY <2>1, <3>1, <3>2, <3>3 DEF HandInv
  <2> QED
    BY <2>3, <2>4
<1>8. ASSUME NEW n \in 1..MaxCommands, PostStep(n) PROVE HandInv'
  <2>1. /\ UNCHANGED <<hnum, commands>> /\ post[n] # "off"
        /\ \E x \in {"options", "states", "off"} : post' = [post EXCEPT ![n] = x]
    BY <1>8 DEF PostStep, PostOptions, PostStates, PostEnds, handles
  <2> QED
    BY <2>1 DEF HandInv
<1> QED
  BY <1>2, <1>3, <1>4, <1>5, <1>6, <1>7, <1>8 DEF Next
-----------------------------------------------------------------------------
(* Start *)

\* What is no step of Start leaves StartInv alone if it leaves alone what Start holds.
LEMMA StartKept ==
  ASSUME Types, WorldInv, JobInv, StartInv, [Next]_vars,
         UNCHANGED <<spc, at, runtimes>>, Registered' = Registered,
         spc \in {"store", "register"} => got'[StartJob] = got[StartJob]
  PROVE  StartInv'
<1>1. Here' = Here /\ StartJob' = StartJob /\ Here \in Actions
  BY HereFacts DEF Here, StartJob
<1>2. Offered(Here) # {} => Offered(Here)' # {}
  <2>1. CASE found[Here] # {}
    <3>1. found'[Here] # {}
      BY <1>1, <2>1, FoundStays
    <3> QED
      BY <1>1, <3>1 DEF Offered
  <2>2. CASE found[Here] = {}
    BY <1>1, <2>2 DEF Offered
  <2> QED
    BY <2>1, <2>2
<1>3. spc = "build" => Offered(Here)' # {}
  BY <1>2 DEF StartInv
<1>4. spc \in {"store", "register"} => got'[StartJob'] = got[StartJob]
  BY <1>1
<1> HIDE DEF Registered, StartJob, Offered
<1> QED
  BY <1>1, <1>3, <1>4 DEF StartInv

\* Start goes on to the next action when this one is registered or out.
LEMMA GoOnKeeps ==
  ASSUME Types, GoOn,
         \A i \in DOMAIN Order : i < at => (Order[i] \in runtimes' <=> Order[i] \in Registered'),
         \A i \in DOMAIN Order : i > at => Order[i] \notin runtimes' \cup Registered',
         Here \in runtimes' <=> Here \in Registered'
  PROVE  StartInv'
<1>1. at \in 1..Len(Order) /\ DOMAIN Order = 1..Len(Order) /\ Len(Order) \in Nat
  BY OrderFacts DEF Types
<1>2. at < Len(Order) \/ at = Len(Order)
  <2>1. \A n \in Nat : \A i \in 1..n : i < n \/ i = n
    OBVIOUS
  <2> QED
    BY <1>1, <2>1
<1>3. CASE at < Len(Order)
  <2>1. at' = at + 1 /\ spc' = "add"
    BY <1>3 DEF GoOn
  <2>2. \A i \in DOMAIN Order : i < at' => (Order[i] \in runtimes' <=> Order[i] \in Registered')
    BY <1>1, <2>1 DEF Here
  <2>3. \A i \in DOMAIN Order : i > at' => Order[i] \notin runtimes' \cup Registered'
    BY <1>1, <2>1
  <2>4. Here' \notin runtimes' \cup Registered'
    BY <1>1, <1>3, <2>1 DEF Here
  <2> QED
    BY <2>1, <2>2, <2>3, <2>4 DEF StartInv
<1>4. CASE at = Len(Order)
  <2>1. at' = at /\ spc' = "done" /\ at = Len(Order)
    <3>1. ~ (at < Len(Order))
      BY <1>1, <1>4
    <3> QED
      BY <1>4, <3>1 DEF GoOn
  <2>2. Here' = Here
    BY <2>1 DEF Here
  <2> QED
    BY <2>1, <2>2 DEF StartInv
<1> QED
  BY <1>2, <1>3, <1>4

\* Before it is registered, Start's job for an action is not running.
LEMMA StartJobOff ==
  ASSUME Types, JobInv, NEW j \in Jobs, job[j] # "off", spc # "initial"
  PROVE  j # StartJob
  BY JobFacts DEF JobInv, JobOK, StartJob

\* Only Start registers, and what is registered stays so unless Start fails.
LEMMA StillRegistered ==
  ASSUME Types, JobInv, NEW j \in Jobs, OptionsUpdate(j)
  PROVE  Registered' = Registered
<1>1. Of(j) \in Actions /\ got[j] # {}
  BY JobFacts DEF OptionsUpdate, JobInv, JobOK
<1>2. CASE Of(j) \in Registered /\ announced' = [announced EXCEPT ![Of(j)] = got[j]]
  <2>1. \A a \in Actions : announced'[a] # {} <=> announced[a] # {}
    BY <1>1, <1>2 DEF Types, Registered
  <2> QED
    BY <2>1 DEF Registered
<1>3. CASE announced' = announced
  BY <1>3 DEF Registered
<1> QED
  BY <1>2, <1>3 DEF OptionsUpdate, Announce

LEMMA JobStepKeepsStart ==
  ASSUME Types, WorldInv, JobInv, StartInv, [Next]_vars, NEW j \in Jobs, JobStep(j)
  PROVE  StartInv'
<1>1. UNCHANGED <<spc, at, runtimes>>
  BY DEF JobStep, JobFails, OptionsRead, OptionsStore, OptionsBuild, OptionsUpdate, StateRead,
         StateMap, StatePublish, starts, shows
<1>2. Registered' = Registered
  <2>1. CASE OptionsUpdate(j)
    BY <2>1, StillRegistered
  <2>2. CASE ~ OptionsUpdate(j)
    <3>1. announced' = announced
      BY <2>2 DEF JobStep, JobFails, OptionsRead, OptionsStore, OptionsBuild, StateRead,
         StateMap, StatePublish, shows
    <3> QED
      BY <3>1 DEF Registered
  <2> QED
    BY <2>1, <2>2
<1>3. job[j] # "off" /\ \E to, holds : JobGoes(j, to, holds)
  BY DEF JobStep, JobFails, OptionsRead, OptionsStore, OptionsBuild, OptionsUpdate, StateRead,
         StateMap, StatePublish, JobEnds
<1>4. spc \in {"store", "register"} => got'[StartJob] = got[StartJob]
  BY <1>3, StartJobOff, JobMoves, HereFacts
<1> QED
  BY <1>1, <1>2, <1>4, StartKept

LEMMA StartStepKeepsStart ==
  ASSUME Types, WorldInv, JobInv, StartInv, [Next]_vars, StartStep
  PROVE  StartInv'
<1>1. /\ Here \in Actions /\ StartJob \in Jobs /\ at \in DOMAIN Order
      /\ \A i \in DOMAIN Order : i # at => Order[i] # Here
      /\ \A i \in DOMAIN Order : i < at => i # at
      /\ \A i \in DOMAIN Order : i > at => i # at
  BY HereFacts, OrderFacts DEF Types, Here
<1>2. ASSUME at' = at PROVE Here' = Here /\ StartJob' = StartJob
  BY <1>2 DEF Here, StartJob
<1>3. ASSUME announced' = announced PROVE Registered' = Registered
  BY <1>3 DEF Registered
<1>4. CASE StartAdd
  <2>1. /\ spc = "add" /\ runtimes' = runtimes \cup {Here} /\ at' = at
        /\ spc' = (IF Here \in Discovers THEN "discover" ELSE "build")
        /\ announced' = announced /\ found' = found
    BY <1>4 DEF StartAdd
  <2>2. Here' = Here /\ Registered' = Registered
    BY <1>2, <1>3, <2>1
  <2>3. Here \notin Discovers => Offered(Here)' # {}
    <3>1. Here \notin Discovers => Offered(Here) # {}
      BY <1>1, OffersSome
    <3> QED
      BY <2>1, <2>2, <3>1 DEF Offered
  <2> QED
    BY <1>1, <2>1, <2>2, <2>3 DEF StartInv
<1>5. CASE StartDiscover
  <2>1. /\ spc = "discover" /\ spc' = "store" /\ runtimes' = runtimes /\ at' = at
        /\ announced' = announced /\ JobGoes(StartJob, "off", opts[Here])
    BY <1>5 DEF StartDiscover, shows
  <2>2. Here' = Here /\ StartJob' = StartJob /\ Registered' = Registered
    BY <1>2, <1>3, <2>1
  <2>3. got'[StartJob] = opts[Here] /\ opts[Here] \in Lists
    BY <1>1, <2>1, JobMoves DEF StartInv, WorldInv
  <2>4. got'[StartJob'] \in Lists
    BY <2>2, <2>3
  <2> HIDE DEF Registered, StartJob
  <2> QED
    BY <1>1, <2>1, <2>2, <2>4 DEF StartInv
<1>6. CASE StartStore
  <2>1. /\ spc = "store" /\ spc' = "build" /\ runtimes' = runtimes /\ at' = at
        /\ announced' = announced /\ found' = [found EXCEPT ![Here] = got[StartJob]]
    BY <1>6 DEF StartStore
  <2>2. Here' = Here /\ Registered' = Registered
    BY <1>2, <1>3, <2>1
  <2>3. got[StartJob] # {}
    <3>1. got[StartJob] \in Lists
      BY <2>1 DEF StartInv
    <3> QED
      BY <3>1, ConfigAssumption, Zenon
  <2>4. Offered(Here)' # {}
    <3>1. found'[Here] = got[StartJob]
      BY <1>1, <2>1 DEF Types
    <3> QED
      BY <2>2, <2>3, <3>1 DEF Offered
  <2> QED
    BY <1>1, <2>1, <2>2, <2>4 DEF StartInv
<1>7. CASE StartUndiscovered
  <2>1. spc = "discover" /\ found' = found
    BY <1>7 DEF StartUndiscovered
  <2>2. CASE Static[Here] # {} /\ spc' = "build" /\ UNCHANGED <<at, runtimes, announced>>
    <3>1. Here' = Here /\ Registered' = Registered
      BY <1>2, <1>3, <2>2
    <3>2. Offered(Here)' # {}
      <4>1. Offered(Here) # {}
        BY <1>1, <2>2, OffersSome
      <4> QED
        BY <2>1, <3>1, <4>1 DEF Offered
    <3> QED
      BY <1>1, <2>1, <2>2, <3>1, <3>2 DEF StartInv
  <2>3. CASE runtimes' = runtimes \ {Here} /\ GoOn /\ UNCHANGED announced
    <3>1. Registered' = Registered
      BY <1>3, <2>3
    <3>2. /\ \A i \in DOMAIN Order :
               i < at => (Order[i] \in runtimes' <=> Order[i] \in Registered')
          /\ \A i \in DOMAIN Order : i > at => Order[i] \notin runtimes' \cup Registered'
          /\ (Here \in runtimes' <=> Here \in Registered')
      BY <1>1, <2>1, <2>3, <3>1 DEF StartInv
    <3> QED
      BY <2>3, <3>2, GoOnKeeps
  <2>4. CASE spc' = "failed" /\ announced' = [a \in Actions |-> {}]
    <3>1. Registered' = {}
      BY <2>4 DEF Registered
    <3> QED
      BY <2>4, <3>1 DEF StartInv
  <2> QED
    BY <1>7, <2>2, <2>3, <2>4 DEF StartUndiscovered
<1>8. CASE StartBuild
  <2>1. /\ spc = "build" /\ spc' = "register" /\ runtimes' = runtimes /\ at' = at
        /\ announced' = announced /\ JobGoes(StartJob, "off", Offered(Here))
    BY <1>8 DEF StartBuild, shows
  <2>2. Here' = Here /\ StartJob' = StartJob /\ Registered' = Registered
    BY <1>2, <1>3, <2>1
  <2>3. got'[StartJob] # {}
    <3>1. got'[StartJob] = Offered(Here) /\ Offered(Here) # {}
      BY <1>1, <2>1, JobMoves DEF StartInv
    <3> QED
      BY <3>1
  <2>4. got'[StartJob'] # {}
    BY <2>2, <2>3
  <2> HIDE DEF Registered, StartJob
  <2> QED
    BY <1>1, <2>1, <2>2, <2>4 DEF StartInv
<1>9. CASE StartRegister
  <2>1. /\ spc = "register" /\ spc' = "initial" /\ runtimes' = runtimes /\ at' = at
        /\ announced' = [announced EXCEPT ![Here] = got[StartJob]]
    BY <1>9 DEF StartRegister, Announce
  <2>2. Here' = Here /\ got[StartJob] # {}
    BY <1>2, <2>1 DEF StartInv
  <2>3. Registered' = Registered \cup {Here}
    BY <1>1, <2>1, <2>2 DEF Registered, Types
  <2> QED
    BY <1>1, <2>1, <2>2, <2>3 DEF StartInv
<1>10. CASE StartNoState
  <2>1. UNCHANGED <<spc, at, runtimes, announced>> /\ job[StartJob] # "off"
    BY <1>10 DEF StartNoState, starts
  <2>2. spc = "initial"
    BY <1>1, <2>1, StartJobOff
  <2> QED
    BY <1>3, <2>1, <2>2, StartKept
<1>11. CASE StartTickers
  <2>1. spc = "initial" /\ GoOn /\ UNCHANGED <<runtimes, announced>>
    BY <1>11 DEF StartTickers, shows
  <2>2. Registered' = Registered
    BY <1>3, <2>1
  <2>3. /\ \A i \in DOMAIN Order :
             i < at => (Order[i] \in runtimes' <=> Order[i] \in Registered')
        /\ \A i \in DOMAIN Order : i > at => Order[i] \notin runtimes' \cup Registered'
        /\ (Here \in runtimes' <=> Here \in Registered')
    BY <1>1, <2>1, <2>2 DEF StartInv
  <2> QED
    BY <2>1, <2>3, GoOnKeeps
<1> QED
  BY <1>4, <1>5, <1>6, <1>7, <1>8, <1>9, <1>10, <1>11 DEF StartStep

LEMMA StartNext ==
  ASSUME Types, WorldInv, JobInv, StartInv, [Next]_vars
  PROVE  StartInv'
<1>1. ASSUME UNCHANGED <<spc, at, runtimes, announced, got>> PROVE StartInv'
  <2>1. Registered' = Registered
    BY <1>1 DEF Registered
  <2> QED
    BY <1>1, <2>1, StartKept
<1>2. CASE UNCHANGED vars
  BY <1>1, <1>2 DEF vars, shows, starts, jobs
<1>3. ASSUME NEW a \in Actions, WorldChanges(a) PROVE StartInv'
  BY <1>1, <1>3 DEF WorldChanges, shows, starts, jobs
<1>4. ASSUME NEW a \in Actions, NEW v \in Values, Command(a, v) PROVE StartInv'
  BY <1>1, <1>4 DEF Command, shows, starts, jobs
<1>5. ASSUME NEW a \in Actions, HandlerStep(a) PROVE StartInv'
  BY <1>1, <1>5 DEF HandlerStep, SetterRuns, SwitchGets, HandlerPublishes, shows, starts, jobs
<1>6. ASSUME NEW n \in 1..MaxCommands, PostStep(n) PROVE StartInv'
  BY <1>1, <1>6 DEF PostStep, PostOptions, PostStates, PostEnds, Launch, shows, starts
<1> QED
  BY <1>2, <1>3, <1>4, <1>5, <1>6, JobStepKeepsStart, StartStepKeepsStart DEF Next

\* When Start is done, the actions it has not left out are registered and no others.
LEMMA AllRegistered == Types /\ StartInv /\ spc = "done" => runtimes = Registered
<1> SUFFICES ASSUME Types, StartInv, spc = "done" PROVE runtimes = Registered
  OBVIOUS
<1>1. at = Len(Order) /\ (Order[at] \in runtimes <=> Order[at] \in Registered)
  BY DEF StartInv, Here
<1>2. \A i \in DOMAIN Order : Order[i] \in runtimes <=> Order[i] \in Registered
  BY <1>1, OrderFacts DEF StartInv
<1>3. \A a \in Actions : a \in runtimes <=> a \in Registered
  BY <1>2, OrderFacts
<1>4. runtimes \subseteq Actions /\ Registered \subseteq Actions
  BY DEF Types, Registered
<1> QED
  BY <1>3, <1>4
-----------------------------------------------------------------------------
(* Tickers *)

LEMMA TickNext ==
  ASSUME Types, JobInv, TickInv, [Next]_vars
  PROVE  TickInv'
<1>1. ASSUME UNCHANGED <<spc, at>>,
             \A j \in Jobs : j[1] \in {"options", "states"} /\ job[j] = "off" => job'[j] = "off"
      PROVE  TickInv'
  BY <1>1 DEF TickInv
<1>2. CASE UNCHANGED vars
  BY <1>1, <1>2 DEF vars, jobs, starts
<1>3. ASSUME NEW a \in Actions, WorldChanges(a) PROVE TickInv'
  BY <1>1, <1>3 DEF WorldChanges, jobs, starts
<1>4. ASSUME NEW a \in Actions, NEW v \in Values, Command(a, v) PROVE TickInv'
  BY <1>1, <1>4 DEF Command, jobs, starts
<1>5. ASSUME NEW a \in Actions, HandlerStep(a) PROVE TickInv'
  BY <1>1, <1>5 DEF HandlerStep, SetterRuns, SwitchGets, HandlerPublishes, jobs, starts
<1>6. ASSUME NEW j \in Jobs, JobStep(j) PROVE TickInv'
  <2>1. job[j] # "off" /\ \E to, holds : JobGoes(j, to, holds)
    BY <1>6 DEF JobStep, JobFails, OptionsRead, OptionsStore, OptionsBuild, OptionsUpdate,
                StateRead, StateMap, StatePublish, JobEnds
  <2>2. UNCHANGED <<spc, at>>
    BY <1>6 DEF JobStep, JobFails, OptionsRead, OptionsStore, OptionsBuild, OptionsUpdate,
                StateRead, StateMap, StatePublish, starts
  <2>3. \A k \in Jobs : job[k] = "off" => job'[k] = "off"
    BY <2>1, JobMoves
  <2> QED
    BY <1>1, <2>2, <2>3
<1>7. ASSUME NEW n \in 1..MaxCommands, PostStep(n) PROVE TickInv'
  <2>1. \A k \in Jobs : k[1] \in {"options", "states"} => job'[k] = job[k]
    BY <1>7 DEF PostStep, PostOptions, PostStates, PostEnds, Launch
  <2>2. UNCHANGED <<spc, at>>
    BY <1>7 DEF PostStep, PostOptions, PostStates, PostEnds, starts
  <2> QED
    BY <1>1, <2>1, <2>2
<1>8. CASE StartStep
  <2>1. at \in DOMAIN Order /\ StartJob \in Jobs /\ StartJob[1] = "start"
    BY HereFacts DEF StartJob, Types
  <2>2. ASSUME NEW to, NEW holds, JobGoes(StartJob, to, holds)
        PROVE  \A k \in Jobs : k[1] \in {"options", "states"} => job'[k] = job[k]
    BY <2>1, <2>2, JobMoves
  <2>3. CASE StartTickers
    <3>1. /\ job' = [k \in Jobs |-> CASE k = <<"options", 0, Here>> -> "list"
                                      [] k = <<"states", 0, Here>> -> "read"
                                      [] OTHER -> job[k]]
          /\ GoOn /\ spc = "initial"
      BY <2>3 DEF StartTickers
    <3>2. ASSUME NEW k \in Jobs, Of(k) # Here PROVE job'[k] = job[k]
      <4>1. k # <<"options", 0, Here>> /\ k # <<"states", 0, Here>>
        BY <3>2 DEF Of
      <4> QED
        BY <3>1, <4>1, Zenon
    <3>3. CASE spc' = "done"
      BY <3>3 DEF TickInv
    <3>4. CASE at' = at + 1
      <4>1. \A i \in DOMAIN Order : i >= at' => i >= at /\ i # at /\ Order[i] # Here
        BY <2>1, <3>4, OrderFacts DEF Here
      <4> QED
        BY <3>1, <3>2, <4>1 DEF TickInv
    <3> QED
      BY <3>1, <3>3, <3>4 DEF GoOn
  <2>4. CASE StartUndiscovered
    <3>1. job' = job /\ spc = "discover"
      BY <2>4 DEF StartUndiscovered, jobs
    <3>2. at' = at \/ at' = at + 1
      BY <2>4 DEF StartUndiscovered, GoOn
    <3>3. \A i \in DOMAIN Order : i >= at' => i >= at
      BY <2>1, <3>2, OrderFacts
    <3> QED
      BY <3>1, <3>3 DEF TickInv
  <2>5. ASSUME at' = at, spc \notin {"done", "failed"} \/ spc' = spc,
               \A k \in Jobs : k[1] \in {"options", "states"} => job'[k] = job[k]
        PROVE  TickInv'
    BY <2>5 DEF TickInv
  <2>6. CASE StartAdd \/ StartStore
    BY <2>5, <2>6 DEF StartAdd, StartStore, jobs
  <2>7. CASE StartDiscover \/ StartBuild \/ StartRegister
    BY <2>2, <2>5, <2>7 DEF StartDiscover, StartBuild, StartRegister
  <2>8. CASE StartNoState
    BY <2>2, <2>5, <2>8 DEF StartNoState, JobEnds, starts
  <2> QED
    BY <1>8, <2>3, <2>4, <2>6, <2>7, <2>8 DEF StartStep
<1> QED
  BY <1>2, <1>3, <1>4, <1>5, <1>6, <1>7, <1>8 DEF Next
-----------------------------------------------------------------------------
(* What entities offer *)

LEMMA OldKept ==
  ASSUME NEW a \in Actions, OldOK(a), announced'[a] = announced[a], found'[a] = found[a],
         \A j \in Jobs : Of(j) = a /\ job[j] \in {"stored", "built"} =>
                           job'[j] = job[j] /\ got'[j] = got[j]
  PROVE  OldOK(a)'
<1>1. Offered(a)' = Offered(a)
  BY DEF Offered
<1>2. CASE announced[a] = Offered(a)
  BY <1>1, <1>2 DEF OldOK
<1>3. ASSUME NEW j \in Jobs, Of(j) = a,
             \/ job[j] = "stored"
             \/ job[j] = "built" /\ got[j] = Offered(a)
      PROVE  OldOK(a)'
  BY <1>1, <1>3 DEF OldOK
<1> QED
  BY <1>2, <1>3 DEF OldOK

LEMMA JobStepOld ==
  ASSUME Types, JobInv, OldInv, NEW j \in Jobs, JobStep(j)
  PROVE  OldInv'
<1>1. ASSUME UNCHANGED <<announced, outdated, found>>, NEW to, NEW holds, JobGoes(j, to, holds),
             job[j] \notin {"stored", "built"}
      PROVE  OldInv'
  <2>1. Registered' = Registered
    BY <1>1 DEF Registered
  <2>2. \A k \in Jobs : k # j => job'[k] = job[k] /\ got'[k] = got[k]
    BY <1>1, JobMoves
  <2>3. ASSUME NEW a \in Actions, OldOK(a) PROVE OldOK(a)'
    BY <1>1, <2>2, <2>3, OldKept
  <2> QED
    BY <1>1, <2>1, <2>3 DEF OldInv, Registered
<1>2. CASE JobFails(j)
  BY <1>1, <1>2 DEF JobFails, JobEnds, shows
<1>3. CASE OptionsRead(j)
  BY <1>1, <1>3 DEF OptionsRead, shows, history
<1>4. CASE OptionsStore(j)
  <2>1. CASE found[Of(j)] = got[j]
    BY <1>1, <1>4, <2>1 DEF OptionsStore, JobEnds
  <2>2. CASE found[Of(j)] # got[j]
    <3>1. /\ JobGoes(j, "stored", {}) /\ UNCHANGED <<announced, outdated>>
          /\ found' = [found EXCEPT ![Of(j)] = got[j]] /\ job[j] = "listed"
      BY <1>4, <2>2 DEF OptionsStore
    <3>2. /\ \A k \in Jobs : k # j => job'[k] = job[k] /\ got'[k] = got[k]
          /\ job'[j] = "stored"
      BY <3>1, JobMoves
    <3>3. OldOK(Of(j))'
      BY <3>2 DEF OldOK
    <3>4. ASSUME NEW a \in Actions, OldOK(a), a # Of(j) PROVE OldOK(a)'
      <4>1. found'[a] = found[a]
        BY <3>1, <3>4 DEF Types
      <4> QED
        BY <3>1, <3>2, <3>4, <4>1, OldKept
    <3>5. Registered' = Registered
      BY <3>1 DEF Registered
    <3> QED
      BY <3>1, <3>3, <3>4, <3>5 DEF OldInv, Registered
  <2> QED
    BY <2>1, <2>2
<1>5. CASE OptionsBuild(j)
  <2>1. JobGoes(j, "built", Offered(Of(j))) /\ UNCHANGED <<announced, outdated, found>>
    BY <1>5 DEF OptionsBuild, shows, history
  <2>2. /\ \A k \in Jobs : k # j => job'[k] = job[k] /\ got'[k] = got[k]
        /\ job'[j] = "built" /\ got'[j] = Offered(Of(j))
    BY <2>1, JobMoves
  <2>3. OldOK(Of(j))'
    <3>1. Offered(Of(j))' = Offered(Of(j))
      BY <2>1 DEF Offered
    <3> QED
      BY <2>2, <3>1 DEF OldOK
  <2>4. ASSUME NEW a \in Actions, OldOK(a), a # Of(j) PROVE OldOK(a)'
    BY <2>1, <2>2, <2>4, OldKept
  <2>5. Registered' = Registered
    BY <2>1 DEF Registered
  <2> QED
    BY <2>1, <2>3, <2>4, <2>5 DEF OldInv, Registered
<1>6. CASE OptionsUpdate(j)
  <2>1. Registered' = Registered
    BY <1>6, StillRegistered
  <2>2. JobEnds(j) /\ found' = found
    BY <1>6 DEF OptionsUpdate
  <2>3. \A k \in Jobs : k # j => job'[k] = job[k] /\ got'[k] = got[k]
    BY <2>2, JobMoves DEF JobEnds
  <2>4. ASSUME NEW a \in Registered \ outdated, a # Of(j), announced'[a] = announced[a]
        PROVE  OldOK(a)'
    BY <2>2, <2>3, <2>4, OldKept DEF OldInv, Registered
  <2>5. CASE Of(j) \in Registered /\ Announce(Of(j), got[j])
    <3>1. /\ announced' = [announced EXCEPT ![Of(j)] = got[j]]
          /\ outdated' = IF got[j] = Offered(Of(j)) THEN outdated \ {Of(j)} ELSE outdated \cup {Of(j)}
      BY <2>5 DEF Announce
    <3>2. Of(j) \notin outdated' => OldOK(Of(j))'
      <4>1. ASSUME Of(j) \notin outdated' PROVE announced'[Of(j)] = Offered(Of(j))'
        <5>1. got[j] = Offered(Of(j))
          BY <3>1, <4>1
        <5>2. Offered(Of(j))' = Offered(Of(j))
          BY <2>2 DEF Offered
        <5>3. announced'[Of(j)] = got[j]
          BY <2>5, <3>1 DEF Types, Registered
        <5> QED
          BY <5>1, <5>2, <5>3
      <4> QED
        BY <4>1 DEF OldOK
    <3>3. ASSUME NEW a \in Registered \ outdated', a # Of(j) PROVE OldOK(a)'
      <4>1. a \notin outdated
        BY <3>1, <3>3
      <4>2. announced'[a] = announced[a]
        BY <3>1, <3>3 DEF Types, Registered
      <4> QED
        BY <2>4, <3>3, <4>1, <4>2
    <3> QED
      BY <2>1, <3>2, <3>3 DEF OldInv
  <2>6. CASE Of(j) \notin Registered /\ UNCHANGED <<announced, outdated>>
    BY <2>1, <2>4, <2>6 DEF OldInv
  <2> QED
    BY <1>6, <2>5, <2>6 DEF OptionsUpdate
<1>7. CASE StateRead(j)
  BY <1>1, <1>7 DEF StateRead, shows, history
<1>8. CASE StateMap(j)
  BY <1>1, <1>8 DEF StateMap, JobEnds, shows, history
<1>9. CASE StatePublish(j)
  BY <1>1, <1>9 DEF StatePublish, JobEnds
<1> QED
  BY <1>2, <1>3, <1>4, <1>5, <1>6, <1>7, <1>8, <1>9 DEF JobStep
LEMMA OldNext ==
  ASSUME Types, JobInv, StartInv, TickInv, OldInv, [Next]_vars
  PROVE  OldInv'
<1>1. ASSUME UNCHANGED <<announced, outdated, found>>,
             \A j \in Jobs : job[j] \in {"stored", "built"} =>
                               job'[j] = job[j] /\ got'[j] = got[j]
      PROVE  OldInv'
  <2>1. Registered' = Registered
    BY <1>1 DEF Registered
  <2>2. ASSUME NEW a \in Registered \ outdated PROVE OldOK(a)'
    BY <1>1, OldKept DEF OldInv, Registered
  <2> QED
    BY <1>1, <2>1, <2>2 DEF OldInv
<1>2. CASE UNCHANGED vars
  BY <1>1, <1>2 DEF vars, shows, history, jobs
<1>3. ASSUME NEW a \in Actions, WorldChanges(a) PROVE OldInv'
  BY <1>1, <1>3 DEF WorldChanges, shows, jobs
<1>4. ASSUME NEW a \in Actions, NEW v \in Values, Command(a, v) PROVE OldInv'
  BY <1>1, <1>4 DEF Command, shows, history, jobs
<1>5. ASSUME NEW a \in Actions, HandlerStep(a) PROVE OldInv'
  BY <1>1, <1>5 DEF HandlerStep, SetterRuns, SwitchGets, HandlerPublishes, shows, history, jobs
<1>6. ASSUME NEW n \in 1..MaxCommands, PostStep(n) PROVE OldInv'
  <2>1. UNCHANGED <<announced, outdated, found>>
    BY <1>6 DEF PostStep, PostOptions, PostStates, PostEnds, shows, history
  <2>2. \A j \in Jobs : job[j] # "off" /\ j[1] = "post" /\ j[2] = n => post[n] = "options"
                                                                    \/ post[n] = "states"
    BY DEF JobInv, JobOK
  <2>3. ASSUME JobsOff(n), NEW j \in Jobs, j[1] = "post", j[2] = n PROVE job[j] = "off"
    BY <2>3, JobFacts DEF JobsOff
  <2>4. \A j \in Jobs : j[1] = "post" /\ j[2] = n => job[j] = "off"
    BY <1>6, <2>2, <2>3 DEF PostStep, PostOptions, PostStates, PostEnds
  <2>5. got' = got /\ \A j \in Jobs : ~ (j[1] = "post" /\ j[2] = n) => job'[j] = job[j]
    BY <1>6 DEF PostStep, PostOptions, PostStates, PostEnds, Launch
  <2> QED
    BY <1>1, <2>1, <2>4, <2>5
<1>7. CASE StartStep
  <2>1. /\ Here \in Actions /\ StartJob \in Jobs /\ Of(StartJob) = Here /\ at \in DOMAIN Order
        /\ StartJob[1] = "start"
    BY HereFacts DEF StartJob, Types
  <2>2. job[StartJob] \notin {"stored", "built"}
    BY <2>1 DEF JobInv, JobOK
  <2>3. ASSUME NEW to, NEW holds, JobGoes(StartJob, to, holds)
        PROVE  \A j \in Jobs : job[j] \in {"stored", "built"} =>
                                 job'[j] = job[j] /\ got'[j] = got[j]
    BY <2>1, <2>2, <2>3, JobMoves
  <2>4. CASE StartAdd
    BY <1>1, <2>4 DEF StartAdd, jobs, history
  <2>5. CASE StartDiscover \/ StartBuild
    BY <1>1, <2>3, <2>5 DEF StartDiscover, StartBuild, shows, history
  <2>6. CASE StartStore
    <3>1. /\ found' = [found EXCEPT ![Here] = got[StartJob]] /\ Here \notin Registered
          /\ UNCHANGED <<announced, outdated, job, got>>
      BY <2>6 DEF StartStore, StartInv, jobs
    <3>2. Registered' = Registered
      BY <3>1 DEF Registered
    <3>3. ASSUME NEW a \in Registered \ outdated PROVE OldOK(a)'
      <4>1. a \in Actions /\ a # Here /\ OldOK(a)
        BY <3>1, <3>3 DEF OldInv, Registered
      <4>2. found'[a] = found[a]
        BY <3>1, <4>1 DEF Types
      <4> QED
        BY <3>1, <4>1, <4>2, OldKept
    <3> QED
      BY <3>1, <3>2, <3>3 DEF OldInv
  <2>7. CASE StartUndiscovered
    <3>1. CASE announced' = announced
      BY <1>1, <2>7, <3>1 DEF StartUndiscovered, jobs, history
    <3>2. CASE announced' = [a \in Actions |-> {}]
      BY <3>2 DEF OldInv, Registered
    <3> QED
      BY <2>7, <3>1, <3>2 DEF StartUndiscovered
  <2>8. CASE StartRegister
    <3>1. /\ announced' = [announced EXCEPT ![Here] = got[StartJob]] /\ found' = found
          /\ outdated' = (IF got[StartJob] = Offered(Here) THEN outdated \ {Here}
                                                           ELSE outdated \cup {Here})
      BY <2>8 DEF StartRegister, Announce
    <3>2. \A j \in Jobs : job[j] \in {"stored", "built"} => job'[j] = job[j] /\ got'[j] = got[j]
      BY <2>3, <2>8 DEF StartRegister
    <3>3. ASSUME NEW a \in Actions, a = Here, a \notin outdated' PROVE OldOK(a)'
      <4>1. got[StartJob] = Offered(a)
        BY <3>1, <3>3
      <4>2. Offered(a)' = Offered(a)
        BY <3>1 DEF Offered
      <4>3. announced'[a] = got[StartJob]
        BY <3>1, <3>3 DEF Types
      <4> QED
        BY <4>1, <4>2, <4>3 DEF OldOK
    <3>4. ASSUME NEW a \in Actions, a # Here, announced'[a] # {}, a \notin outdated'
          PROVE  OldOK(a)'
      <4>1. announced'[a] = announced[a] /\ a \notin outdated
        BY <3>1, <3>4 DEF Types
      <4>2. OldOK(a)
        BY <3>4, <4>1 DEF OldInv, Registered
      <4> QED
        BY <3>1, <3>2, <4>1, <4>2, OldKept
    <3> QED
      BY <3>3, <3>4 DEF OldInv, Registered
  <2>9. CASE StartNoState
    BY <1>1, <2>3, <2>9 DEF StartNoState, JobEnds
  <2>10. CASE StartTickers
    <3>1. /\ job' = [k \in Jobs |-> CASE k = <<"options", 0, Here>> -> "list"
                                      [] k = <<"states", 0, Here>> -> "read"
                                      [] OTHER -> job[k]]
          /\ spc = "initial" /\ UNCHANGED <<got, announced, outdated, found>>
      BY <2>10 DEF StartTickers, shows, history
    <3>2. ASSUME NEW k \in Jobs, job[k] # "off" PROVE job'[k] = job[k]
      <4>1. k # <<"options", 0, Here>> /\ k # <<"states", 0, Here>>
        <5>1. ASSUME k = <<"options", 0, Here>> \/ k = <<"states", 0, Here>> PROVE FALSE
          <6>1. k[1] \in {"options", "states"} /\ Of(k) = Order[at]
            BY <5>1 DEF Of, Here
          <6> QED
            BY <2>1, <3>1, <3>2, <6>1, OrderFacts DEF TickInv
        <5> QED
          BY <5>1
      <4> QED
        BY <3>1, <4>1, Zenon
    <3> QED
      BY <1>1, <3>1, <3>2
  <2> QED
    BY <1>7, <2>4, <2>5, <2>6, <2>7, <2>8, <2>9, <2>10 DEF StartStep
<1> QED
  BY <1>2, <1>3, <1>4, <1>5, <1>6, <1>7, JobStepOld DEF Next
-----------------------------------------------------------------------------
(* What is fresh *)

\* A refresh that is in progress goes on, or has done what it was to do.
LEMMA FreshKept ==
  ASSUME NEW a \in Actions, ListOK(a), a \in Getters => ReadOK(a),
         Known(a) => Known(a)',
         shown[a] = val[a] => shown'[a] = val'[a],
         a \in Registered' => a \in Registered,
         \A j \in Jobs : Of(j) = a /\ ListDue(j) => ListDue(j)' \/ Known(a)',
         \A j \in Jobs :
           /\ Of(j) = a /\ j[1] \in {"start", "post"} /\ StateDue(j)
           /\ j[1] = "post" => Known(a)
           => StateDue(j)' \/ shown'[a] = val'[a] \/ a \notin Registered',
         \A j \in Jobs :
           /\ Of(j) = a /\ j[1] = "post" /\ post[j[2]] \in {"options", "states"}
           /\ job[j] # "off" \/ post[j[2]] = "options"
           => post'[j[2]] = post[j[2]] /\ after'[j[2]] = after[j[2]]
  PROVE  ListOK(a)' /\ (a \in Getters => ReadOK(a)')
<1>1. ListOK(a)'
  <2>1. CASE Known(a)
    BY <2>1 DEF ListOK
  <2>2. CASE Listing(a)
    <3>1. PICK j \in Jobs : /\ j[1] = "post" /\ Of(j) = a /\ a \in after[j[2]]
                            /\ post[j[2]] = "options" /\ ListDue(j)
      BY <2>2 DEF Listing
    <3>2. post'[j[2]] = "options" /\ a \in after'[j[2]]
      BY <3>1
    <3>3. ListDue(j)' \/ Known(a)'
      BY <3>1
    <3> QED
      BY <3>1, <3>2, <3>3 DEF ListOK, Listing
  <2> QED
    BY <2>1, <2>2 DEF ListOK
<1>2. ASSUME a \in Getters PROVE ReadOK(a)'
  <2>1. CASE a \notin Registered
    BY <2>1 DEF ReadOK
  <2>2. CASE shown[a] = val[a]
    BY <2>2 DEF ReadOK
  <2>3. ASSUME NEW j \in Jobs, j[1] = "start", Of(j) = a, StateDue(j) PROVE ReadOK(a)'
    <3>1. StateDue(j)' \/ shown'[a] = val'[a] \/ a \notin Registered'
      BY <2>3
    <3> QED
      BY <2>3, <3>1 DEF ReadOK
  <2>4. ASSUME NEW j \in Jobs, j[1] = "post", Of(j) = a, a \in after[j[2]],
               post[j[2]] = "options", ListDue(j) \/ Known(a)
        PROVE  ReadOK(a)'
    <3>1. post'[j[2]] = "options" /\ a \in after'[j[2]]
      BY <2>4
    <3>2. ListDue(j)' \/ Known(a)'
      BY <2>4
    <3>3. Reading(a)'
      BY <2>4, <3>1, <3>2 DEF Reading
    <3> QED
      BY <3>3 DEF ReadOK
  <2>5. ASSUME NEW j \in Jobs, j[1] = "post", Of(j) = a, a \in after[j[2]],
               post[j[2]] = "states", StateDue(j), Known(a)
        PROVE  ReadOK(a)'
    <3>1. post'[j[2]] = "states" /\ a \in after'[j[2]]
      BY <2>5 DEF StateDue
    <3>2. StateDue(j)' \/ shown'[a] = val'[a] \/ a \notin Registered'
      BY <2>5
    <3>3. StateDue(j)' => Reading(a)'
      BY <2>5, <3>1 DEF Reading
    <3> QED
      BY <3>2, <3>3 DEF ReadOK
  <2>6. CASE Reading(a)
    BY <2>4, <2>5, <2>6 DEF Reading
  <2> QED
    BY <1>2, <2>1, <2>2, <2>3, <2>6 DEF ReadOK
<1> QED
  BY <1>1, <1>2

\* So does one of an action nothing happens to.
LEMMA FreshUntouched ==
  ASSUME NEW a \in Actions, ListOK(a), a \in Getters => ReadOK(a),
         opts'[a] = opts[a], val'[a] = val[a], found'[a] = found[a], shown'[a] = shown[a],
         a \in Registered' => a \in Registered,
         \A j \in Jobs : Of(j) = a /\ job[j] # "off" => job'[j] = job[j] /\ got'[j] = got[j],
         \A j \in Jobs :
           /\ Of(j) = a /\ j[1] = "post" /\ post[j[2]] \in {"options", "states"}
           /\ job[j] # "off" \/ post[j[2]] = "options"
           => post'[j[2]] = post[j[2]] /\ after'[j[2]] = after[j[2]]
  PROVE  ListOK(a)' /\ (a \in Getters => ReadOK(a)')
<1>1. Known(a) => Known(a)'
  BY DEF Known
<1>2. \A j \in Jobs : Of(j) = a /\ ListDue(j) => ListDue(j)'
  BY DEF ListDue
<1>3. \A j \in Jobs : Of(j) = a /\ StateDue(j) => StateDue(j)'
  BY DEF StateDue
<1> HIDE DEF Registered
<1> QED
  BY <1>1, <1>2, <1>3, FreshKept

\* A state that is read, of an action whose options are known, is one of them.
LEMMA KnownState ==
  ASSUME Types, WorldInv, NEW a \in Actions, Known(a)
  PROVE  val[a] \in Offered(a)
<1>1. val[a] \in opts[a]
  BY DEF Types
<1>2. CASE a \in Discovers
  <2>1. found[a] = opts[a] /\ found[a] # {}
    BY <1>1, <1>2 DEF Known
  <2> QED
    BY <1>1, <2>1 DEF Offered
<1>3. CASE a \notin Discovers
  <2>1. found[a] = {} /\ opts[a] = Static[a]
    BY <1>3 DEF WorldInv
  <2> QED
    BY <1>1, <2>1 DEF Offered
<1> QED
  BY <1>2, <1>3
LEMMA JobStepFresh ==
  ASSUME Types, WorldInv, JobInv, FreshInv, NEW j \in Jobs, JobStep(j)
  PROVE  FreshInv'
<1> DEFINE a == Of(j)
<1>1. a \in Actions /\ JobOK(j)
  BY JobFacts DEF JobInv
<1>2. UNCHANGED <<opts, val>> /\ fresh' \subseteq fresh
  BY DEF JobStep, JobFails, OptionsRead, OptionsStore, OptionsBuild, OptionsUpdate, StateRead,
         StateMap, StatePublish, Late, world, history
<1>3. Registered' = Registered
  <2>1. CASE OptionsUpdate(j)
    BY <2>1, StillRegistered
  <2>2. CASE ~ OptionsUpdate(j)
    <3>1. announced' = announced
      BY <2>2 DEF JobStep, JobFails, OptionsRead, OptionsStore, OptionsBuild, StateRead,
         StateMap, StatePublish, shows
    <3> QED
      BY <3>1 DEF Registered
  <2> QED
    BY <2>1, <2>2
<1>4. \E to, holds : JobGoes(j, to, holds)
  BY DEF JobStep, JobFails, OptionsRead, OptionsStore, OptionsBuild, OptionsUpdate, StateRead,
         StateMap, StatePublish, JobEnds
<1>5. /\ \A k \in Jobs : k # j => job'[k] = job[k] /\ got'[k] = got[k]
      /\ post' = post /\ after' = after
  BY <1>4, JobMoves
<1>6. /\ \A b \in Actions : b # a => found'[b] = found[b]
      /\ \A b \in Actions : b # a => shown'[b] = shown[b]
  <2>1. found' = found \/ found' = [found EXCEPT ![a] = got[j]]
    BY DEF JobStep, JobFails, OptionsRead, OptionsStore, OptionsBuild, OptionsUpdate, StateRead,
         StateMap, StatePublish, shows
  <2>2. shown' = shown \/ \E v : shown' = [shown EXCEPT ![a] = v]
    BY DEF JobStep, JobFails, OptionsRead, OptionsStore, OptionsBuild, OptionsUpdate, StateRead,
         StateMap, StatePublish, shows
  <2> QED
    BY <2>1, <2>2 DEF Types
<1>7. ASSUME NEW b \in fresh', b # a
      PROVE  ListOK(b)' /\ (b \in Getters => ReadOK(b)')
  <2>1. b \in Actions /\ ListOK(b) /\ (b \in Getters => ReadOK(b))
    BY <1>2, <1>7 DEF FreshInv, Types
  <2>2. /\ opts'[b] = opts[b] /\ val'[b] = val[b] /\ found'[b] = found[b]
        /\ shown'[b] = shown[b] /\ (b \in Registered' => b \in Registered)
    BY <1>2, <1>3, <1>6, <1>7, <2>1
  <2>3. \A k \in Jobs : Of(k) = b /\ job[k] # "off" => job'[k] = job[k] /\ got'[k] = got[k]
    BY <1>5, <1>7
  <2> HIDE DEF a, Registered
  <2> QED
    BY <1>5, <2>1, <2>2, <2>3, FreshUntouched
<1>8. ASSUME a \in fresh',
             Known(a) => Known(a)',
             shown[a] = val[a] => shown'[a] = val[a],
             ListDue(j) => ListDue(j)' \/ Known(a)',
             j[1] \in {"start", "post"} /\ StateDue(j) /\ (j[1] = "post" => Known(a)) =>
               StateDue(j)' \/ shown'[a] = val[a] \/ a \notin Registered
      PROVE  FreshInv'
  <2>1. ListOK(a) /\ (a \in Getters => ReadOK(a))
    BY <1>2, <1>8 DEF FreshInv
  <2>2. \A k \in Jobs : k # j => (ListDue(k) => ListDue(k)') /\ (StateDue(k) => StateDue(k)')
    BY <1>2, <1>5 DEF ListDue, StateDue
  <2>3. \A k \in Jobs : Of(k) = a /\ ListDue(k) => ListDue(k)' \/ Known(a)'
    BY <1>8, <2>2
  <2>4. \A k \in Jobs :
          /\ Of(k) = a /\ k[1] \in {"start", "post"} /\ StateDue(k)
          /\ k[1] = "post" => Known(a)
          => StateDue(k)' \/ shown'[a] = val'[a] \/ a \notin Registered'
    BY <1>2, <1>3, <1>8, <2>2
  <2>5. a \in Registered' => a \in Registered
    BY <1>3
  <2>6. shown[a] = val[a] => shown'[a] = val'[a]
    BY <1>2, <1>8
  <2>7. ListOK(a)' /\ (a \in Getters => ReadOK(a)')
    <3> HIDE DEF a, Registered
    <3> QED
      BY <1>1, <1>5, <1>8, <2>1, <2>3, <2>4, <2>5, <2>6, FreshKept
  <2> QED
    BY <1>7, <2>7 DEF FreshInv
<1>9. CASE a \notin fresh'
  BY <1>7, <1>9 DEF FreshInv
<1>10. ASSUME a \in fresh', found' = found, shown' = shown, ~ ListDue(j), ~ StateDue(j)
       PROVE  FreshInv'
  <2>1. Known(a) => Known(a)'
    BY <1>2, <1>10 DEF Known
  <2> HIDE DEF a
  <2> QED
    BY <1>8, <1>10, <2>1
<1>11. ASSUME a \in fresh' PROVE FreshInv'
  <2>1. CASE JobFails(j)
    BY <1>11, <2>1 DEF JobFails
  <2>2. CASE OptionsRead(j)
    <3>1. job[j] = "list" /\ JobGoes(j, "listed", opts[a]) /\ found' = found /\ shown' = shown
      BY <2>2 DEF OptionsRead, shows
    <3>2. job'[j] = "listed" /\ got'[j] = opts[a]
      BY <3>1, JobMoves
    <3>3. ListDue(j)' /\ ~ StateDue(j)
      BY <1>2, <3>1, <3>2 DEF ListDue, StateDue
    <3>4. Known(a) => Known(a)'
      BY <1>2, <3>1 DEF Known
    <3> HIDE DEF a
    <3> QED
      BY <1>8, <1>11, <3>1, <3>3, <3>4
  <2>3. CASE OptionsStore(j)
    <3>1. job[j] = "listed" /\ shown' = shown
      BY <2>3 DEF OptionsStore
    <3>2. ~ StateDue(j)
      BY <3>1 DEF StateDue
    <3>3. got[j] = opts[a] => Known(a)'
      <4>1. found'[a] = got[j]
        BY <1>1, <2>3 DEF OptionsStore, Types
      <4> QED
        BY <1>2, <4>1 DEF Known
    <3>4. ListDue(j) => Known(a)'
      BY <3>1, <3>3 DEF ListDue
    <3>5. Known(a) => Known(a)'
      <4>1. CASE found[a] = got[j]
        BY <1>2, <2>3, <4>1 DEF OptionsStore, Known
      <4>2. CASE found[a] # got[j]
        <5>1. got[j] = opts[a]
          BY <1>11, <2>3, <4>2 DEF OptionsStore, Late
        <5> QED
          BY <3>3, <5>1
      <4> QED
        BY <4>1, <4>2
    <3> HIDE DEF a
    <3> QED
      BY <1>8, <1>11, <3>1, <3>2, <3>4, <3>5
  <2>4. CASE OptionsBuild(j) \/ OptionsUpdate(j)
    <3>1. job[j] \in {"stored", "built"} /\ found' = found /\ shown' = shown
      BY <2>4 DEF OptionsBuild, OptionsUpdate, shows
    <3> QED
      BY <1>10, <1>11, <3>1 DEF ListDue, StateDue
  <2>5. CASE StateRead(j)
    <3>1. job[j] = "read" /\ JobGoes(j, "read?", {val[a]}) /\ found' = found /\ shown' = shown
      BY <2>5 DEF StateRead, shows
    <3>2. job'[j] = "read?" /\ got'[j] = {val[a]}
      BY <3>1, JobMoves
    <3>3. StateDue(j)' /\ ~ ListDue(j)
      BY <1>2, <3>1, <3>2 DEF ListDue, StateDue
    <3>4. Known(a) => Known(a)'
      BY <1>2, <3>1 DEF Known
    <3> HIDE DEF a
    <3> QED
      BY <1>8, <1>11, <3>1, <3>3, <3>4
  <2>6. CASE StateMap(j)
    <3>1. job[j] = "read?" /\ found' = found /\ shown' = shown
      BY <2>6 DEF StateMap, shows
    <3>2. ~ ListDue(j)
      BY <3>1 DEF ListDue
    <3>3. Known(a) => Known(a)'
      BY <1>2, <3>1 DEF Known
    <3>4. ASSUME j[1] \in {"start", "post"}, StateDue(j), j[1] = "post" => Known(a)
          PROVE  StateDue(j)'
      <4>1. got[j] = {val[a]}
        BY <3>1, <3>4 DEF StateDue
      <4>2. JobGoes(j, "mapped", got[j])
        <5>1. CASE j[1] = "start"
          BY <2>6, <5>1 DEF StateMap
        <5>2. CASE j[1] = "post"
          <6>1. val[a] \in Offered(a)
            BY <1>1, <3>4, <5>2, KnownState
          <6> QED
            BY <2>6, <4>1, <6>1 DEF StateMap
        <5> QED
          BY <3>4, <5>1, <5>2
      <4>3. job'[j] = "mapped" /\ got'[j] = got[j]
        BY <4>2, JobMoves
      <4> QED
        BY <1>2, <4>1, <4>3 DEF StateDue
    <3> HIDE DEF a
    <3> QED
      BY <1>8, <1>11, <3>1, <3>2, <3>3, <3>4
  <2>7. CASE StatePublish(j)
    <3>1. job[j] = "mapped" /\ found' = found
      BY <2>7 DEF StatePublish
    <3>2. ~ ListDue(j)
      BY <3>1 DEF ListDue
    <3>3. Known(a) => Known(a)'
      BY <1>2, <3>1 DEF Known
    <3>4. CASE a \in Registered
      <4>1. PICK v \in got[j] : shown' = [shown EXCEPT ![a] = v]
        BY <2>7, <3>4 DEF StatePublish
      <4>2. got[j] = {val[a]}
        BY <1>11, <2>7, <3>4 DEF StatePublish, Late
      <4>3. shown'[a] = val[a]
        BY <1>1, <4>1, <4>2 DEF Types
      <4> HIDE DEF a
      <4> QED
        BY <1>8, <1>11, <3>2, <3>3, <4>3
    <3>5. CASE a \notin Registered
      <4>1. shown' = shown
        BY <2>7, <3>5 DEF StatePublish
      <4> HIDE DEF a
      <4> QED
        BY <1>8, <1>11, <3>2, <3>3, <3>5, <4>1
    <3> QED
      BY <3>4, <3>5
  <2> QED
    BY <2>1, <2>2, <2>3, <2>4, <2>5, <2>6, <2>7 DEF JobStep
<1> QED
  BY <1>9, <1>11
LEMMA StartStepFresh ==
  ASSUME Types, JobInv, StartInv, FreshInv, StartStep
  PROVE  FreshInv'
<1>1. /\ Here \in Actions /\ StartJob \in Jobs /\ Of(StartJob) = Here
      /\ StartJob[1] = "start" /\ Rest(StartJob) = "off"
  BY HereFacts, RestFacts DEF StartJob
<1>2. UNCHANGED <<opts, val, post, after>> /\ fresh' \subseteq fresh
  BY DEF StartStep, StartAdd, StartDiscover, StartStore, StartUndiscovered, StartBuild,
         StartRegister, StartNoState, StartTickers, JobEnds, JobGoes, Late, world, jobs, history
<1>3. \A b \in Actions : b # Here =>
        found'[b] = found[b] /\ shown'[b] = shown[b] /\ (b \in Registered' => b \in Registered)
  <2>1. found' = found \/ found' = [found EXCEPT ![Here] = got[StartJob]]
    BY DEF StartStep, StartAdd, StartDiscover, StartStore, StartUndiscovered, StartBuild,
           StartRegister, StartNoState, StartTickers, shows
  <2>2. shown' = shown \/ shown' = [shown EXCEPT ![Here] = None]
    BY DEF StartStep, StartAdd, StartDiscover, StartStore, StartUndiscovered, StartBuild,
           StartRegister, StartNoState, StartTickers, shows
  <2>3. \/ announced' = announced \/ announced' = [b \in Actions |-> {}]
        \/ announced' = [announced EXCEPT ![Here] = got[StartJob]]
    BY DEF StartStep, StartAdd, StartDiscover, StartStore, StartUndiscovered, StartBuild,
           StartRegister, StartNoState, StartTickers, Announce, shows
  <2>4. \A b \in Actions : b # Here => announced'[b] = announced[b] \/ announced'[b] = {}
    BY <2>3 DEF Types
  <2>5. \A b \in Actions : b # Here => found'[b] = found[b]
    BY <2>1 DEF Types
  <2>6. \A b \in Actions : b # Here => shown'[b] = shown[b]
    BY <2>2 DEF Types
  <2>7. \A b \in Actions : b # Here => (b \in Registered' => b \in Registered)
    BY <2>4 DEF Registered
  <2> QED
    BY <2>5, <2>6, <2>7
<1>4. ASSUME NEW b \in Actions, b \in fresh
      PROVE  ListOK(b) /\ (b \in Getters => ReadOK(b))
  BY <1>4 DEF FreshInv
<1>5. ASSUME \A k \in Jobs : job[k] # "off" /\ Of(k) # Here => job'[k] = job[k] /\ got'[k] = got[k],
             NEW b \in Actions, b \in fresh', b # Here
      PROVE  ListOK(b)' /\ (b \in Getters => ReadOK(b)')
  <2>1. ListOK(b) /\ (b \in Getters => ReadOK(b))
    BY <1>2, <1>4, <1>5
  <2>2. /\ opts'[b] = opts[b] /\ val'[b] = val[b] /\ found'[b] = found[b]
        /\ shown'[b] = shown[b] /\ (b \in Registered' => b \in Registered)
    BY <1>2, <1>3, <1>5
  <2>3. \A k \in Jobs : Of(k) = b /\ job[k] # "off" => job'[k] = job[k] /\ got'[k] = got[k]
    BY <1>5
  <2> HIDE DEF Registered
  <2> QED
    BY <1>2, <1>5, <2>1, <2>2, <2>3, FreshUntouched
<1>6. ASSUME \A k \in Jobs : job[k] # "off" /\ Of(k) # Here => job'[k] = job[k] /\ got'[k] = got[k],
             \A b \in Actions : b = Here /\ b \in fresh' =>
               ListOK(b)' /\ (b \in Getters => ReadOK(b)')
      PROVE  FreshInv'
  <2>1. fresh' \subseteq Actions
    BY <1>2 DEF Types
  <2> QED
    BY <1>5, <1>6, <2>1 DEF FreshInv
<1>7. ASSUME UNCHANGED <<found, shown>>, Here \in Registered' => Here \in Registered,
             \A k \in Jobs : job[k] # "off" => job'[k] = job[k] /\ got'[k] = got[k]
      PROVE  FreshInv'
  <2>1. ASSUME NEW b \in Actions, b = Here, b \in fresh'
        PROVE  ListOK(b)' /\ (b \in Getters => ReadOK(b)')
    <3>1. ListOK(b) /\ (b \in Getters => ReadOK(b))
      BY <1>2, <1>4, <2>1
    <3>2. b \in Registered' => b \in Registered
      BY <1>7, <2>1
    <3> HIDE DEF Registered
    <3> QED
      BY <1>2, <1>7, <3>1, <3>2, FreshUntouched
  <2> QED
    BY <1>6, <1>7, <2>1
<1>8. ASSUME spc # "initial", NEW to, NEW holds, JobGoes(StartJob, to, holds)
      PROVE  \A k \in Jobs : job[k] # "off" => job'[k] = job[k] /\ got'[k] = got[k]
  BY <1>1, <1>8, JobMoves, StartJobOff
<1>9. ASSUME announced' = announced PROVE Registered' = Registered
  BY <1>9 DEF Registered
<1>10. CASE StartAdd
  BY <1>7, <1>9, <1>10 DEF StartAdd, jobs
<1>11. CASE StartDiscover \/ StartBuild
  <2>1. spc # "initial" /\ UNCHANGED <<announced, found, shown>>
    BY <1>11 DEF StartDiscover, StartBuild, shows
  <2>2. \E holds : JobGoes(StartJob, "off", holds)
    BY <1>11 DEF StartDiscover, StartBuild
  <2> QED
    BY <1>7, <1>8, <1>9, <2>1, <2>2
<1>12. CASE StartStore
  <2>1. /\ found' = [found EXCEPT ![Here] = got[StartJob]] /\ Here \notin Registered
        /\ Late(Here, got[StartJob], opts[Here]) /\ UNCHANGED <<announced, shown, job, got>>
    BY <1>12 DEF StartStore, StartInv, jobs
  <2>2. ASSUME NEW b \in Actions, b = Here, b \in fresh'
        PROVE  ListOK(b)' /\ (b \in Getters => ReadOK(b)')
    <3>1. got[StartJob] = opts[b]
      BY <2>1, <2>2 DEF Late
    <3>2. Known(b)'
      BY <1>2, <2>1, <2>2, <3>1 DEF Known, Types
    <3>3. b \notin Registered'
      BY <1>9, <2>1, <2>2
    <3> HIDE DEF Registered
    <3> QED
      BY <3>2, <3>3 DEF ListOK, ReadOK
  <2> QED
    BY <1>6, <2>1, <2>2
<1>13. CASE StartUndiscovered
  <2>1. UNCHANGED <<found, shown, job, got>>
    BY <1>13 DEF StartUndiscovered, jobs
  <2>2. announced' = announced \/ announced' = [b \in Actions |-> {}]
    BY <1>13 DEF StartUndiscovered
  <2>3. Here \in Registered' => Here \in Registered
    BY <2>2 DEF Registered
  <2> QED
    BY <1>7, <2>1, <2>3
<1>14. CASE StartRegister
  <2>1. JobGoes(StartJob, "read", {}) /\ UNCHANGED <<found, shown>> /\ spc # "initial"
    BY <1>14 DEF StartRegister
  <2>2. /\ job'[StartJob] = "read"
        /\ \A k \in Jobs : job[k] # "off" => job'[k] = job[k] /\ got'[k] = got[k]
    BY <1>1, <1>8, <2>1, JobMoves
  <2>3. ASSUME NEW b \in Actions, b = Here, b \in fresh'
        PROVE  ListOK(b)' /\ (b \in Getters => ReadOK(b)')
    <3>1. ListOK(b)
      BY <1>2, <1>4, <2>3
    <3>2. ListOK(b)'
      <4>1. Known(b) => Known(b)'
        BY <1>2, <2>1 DEF Known
      <4>2. \A k \in Jobs : ListDue(k) => ListDue(k)'
        BY <1>2, <2>2 DEF ListDue
      <4>3. Listing(b) => Listing(b)'
        BY <1>2, <4>2 DEF Listing
      <4> QED
        BY <3>1, <4>1, <4>3 DEF ListOK
    <3>3. \A k \in Jobs : k = StartJob => k[1] = "start" /\ Of(k) = b /\ StateDue(k)'
      BY <1>1, <2>2, <2>3 DEF StateDue
    <3>4. \E k \in Jobs : k[1] = "start" /\ Of(k) = b /\ StateDue(k)'
      BY <1>1, <3>3
    <3> QED
      BY <3>2, <3>4 DEF ReadOK
  <2> QED
    BY <1>6, <2>2, <2>3
<1>15. CASE StartNoState
  <2>1. JobGoes(StartJob, "off", {}) /\ fresh' = fresh \ {Here}
    BY <1>1, <1>15 DEF StartNoState, JobEnds
  <2>2. \A k \in Jobs : k # StartJob => job'[k] = job[k] /\ got'[k] = got[k]
    BY <1>1, <2>1, JobMoves
  <2>3. \A k \in Jobs : Of(k) # Here => k # StartJob
    BY <1>1
  <2> QED
    BY <1>6, <2>1, <2>2, <2>3
<1>16. CASE StartTickers
  <2>1. /\ job' = [k \in Jobs |-> CASE k = <<"options", 0, Here>> -> "list"
                                    [] k = <<"states", 0, Here>> -> "read"
                                    [] OTHER -> job[k]]
        /\ job[StartJob] = "off" /\ UNCHANGED <<got, announced, found, shown>>
    BY <1>16 DEF StartTickers, shows
  <2>2. \A k \in Jobs : (k # <<"options", 0, Here>> /\ k # <<"states", 0, Here>>) => job'[k] = job[k]
    BY <2>1, Zenon
  <2>3. ASSUME NEW b \in Actions, b \in fresh'
        PROVE  ListOK(b)' /\ (b \in Getters => ReadOK(b)')
    <3>1. ListOK(b) /\ (b \in Getters => ReadOK(b))
      BY <1>2, <1>4, <2>3
    <3>2. Known(b) => Known(b)'
      BY <1>2, <2>1 DEF Known
    <3>3. \A k \in Jobs : k[1] \in {"start", "post"} => job'[k] = job[k] /\ got'[k] = got[k]
      <4>1. \A k \in Jobs : k[1] \in {"start", "post"} =>
              k # <<"options", 0, Here>> /\ k # <<"states", 0, Here>>
        OBVIOUS
      <4> QED
        BY <2>1, <2>2, <4>1
    <3>4. \A k \in Jobs : k[1] = "post" /\ ListDue(k) => ListDue(k)'
      BY <1>2, <3>3 DEF ListDue
    <3>5. \A k \in Jobs : k[1] \in {"start", "post"} /\ StateDue(k) => StateDue(k)'
      BY <1>2, <3>3 DEF StateDue
    <3>6. Registered' = Registered
      BY <1>9, <2>1
    <3> HIDE DEF Registered
    <3>7. Listing(b) => Listing(b)'
      BY <1>2, <3>4 DEF Listing
    <3>8. Reading(b) => Reading(b)'
      BY <1>2, <3>2, <3>4, <3>5 DEF Reading
    <3>9. ReadOK(b) => ReadOK(b)'
      BY <1>2, <2>1, <3>5, <3>6, <3>8 DEF ReadOK
    <3> QED
      BY <3>1, <3>2, <3>7, <3>9 DEF ListOK
  <2>4. fresh' \subseteq Actions
    BY <1>2 DEF Types
  <2> QED
    BY <2>3, <2>4 DEF FreshInv
<1> QED
  BY <1>10, <1>11, <1>12, <1>13, <1>14, <1>15, <1>16 DEF StartStep
LEMMA PostStepFresh ==
  ASSUME Types, JobInv, FreshInv, NEW n \in 1..MaxCommands, PostStep(n)
  PROVE  FreshInv'
<1>1. UNCHANGED <<opts, val, found, shown, announced, got>>
  BY DEF PostStep, PostOptions, PostStates, PostEnds, Launch, world, shows
<1>2. Registered' = Registered
  BY <1>1 DEF Registered
<1>3. /\ \A k \in Jobs : ~ (k[1] = "post" /\ k[2] = n) => job'[k] = job[k]
      /\ \A m \in 1..MaxCommands : m # n => post'[m] = post[m] /\ after'[m] = after[m]
  <2>1. \A k \in Jobs : ~ (k[1] = "post" /\ k[2] = n) => job'[k] = job[k]
    BY DEF PostStep, PostOptions, PostStates, PostEnds, Launch
  <2>2. \A m \in 1..MaxCommands : m # n => post'[m] = post[m] /\ after'[m] = after[m]
    BY DEF PostStep, PostOptions, PostStates, PostEnds, Types
  <2> QED
    BY <2>1, <2>2
<1>4. \A b \in Actions : (Known(b) => Known(b)') /\ (Known(b)' => Known(b))
  BY <1>1 DEF Known
<1>5. ASSUME NEW k \in Jobs, k[1] = "post", k[2] # n
      PROVE  /\ (ListDue(k) => ListDue(k)') /\ (StateDue(k) => StateDue(k)')
             /\ post'[k[2]] = post[k[2]] /\ after'[k[2]] = after[k[2]]
  BY <1>1, <1>3, <1>5, JobFacts DEF ListDue, StateDue
<1>6. ASSUME NEW k \in Jobs, k[1] = "start" PROVE StateDue(k) => StateDue(k)'
  BY <1>1, <1>3, <1>6 DEF StateDue
\* It is enough to look at the refresh that goes on.
<1>7. ASSUME NEW b \in Actions, b \in fresh,
             \A k \in Jobs : /\ k[1] = "post" /\ k[2] = n /\ Of(k) = b /\ b \in after[n]
                             /\ post[n] = "options" /\ ListDue(k)
                             => ListOK(b)',
             b \in Getters =>
               \A k \in Jobs :
                 /\ k[1] = "post" /\ k[2] = n /\ Of(k) = b /\ b \in after[n]
                 /\ \/ post[n] = "options" /\ (ListDue(k) \/ Known(b))
                    \/ post[n] = "states" /\ StateDue(k) /\ Known(b)
                 => ReadOK(b)'
      PROVE  ListOK(b)' /\ (b \in Getters => ReadOK(b)')
  <2>1. ListOK(b) /\ (b \in Getters => ReadOK(b))
    BY <1>7 DEF FreshInv
  <2>2. Listing(b) => ListOK(b)'
    <3>1. ASSUME NEW k \in Jobs, k[1] = "post", Of(k) = b, b \in after[k[2]],
                 post[k[2]] = "options", ListDue(k)
          PROVE  ListOK(b)'
      <4>1. CASE k[2] = n
        BY <1>7, <3>1, <4>1
      <4>2. CASE k[2] # n
        <5>1. Listing(b)'
          BY <1>5, <3>1, <4>2 DEF Listing
        <5> QED
          BY <5>1 DEF ListOK
      <4> QED
        BY <4>1, <4>2
    <3> QED
      BY <3>1 DEF Listing
  <2>3. ASSUME b \in Getters, Reading(b) PROVE ReadOK(b)'
    <3>1. PICK k \in Jobs : /\ k[1] = "post" /\ Of(k) = b /\ b \in after[k[2]]
                            /\ \/ post[k[2]] = "options" /\ (ListDue(k) \/ Known(b))
                               \/ post[k[2]] = "states" /\ StateDue(k) /\ Known(b)
      BY <2>3 DEF Reading
    <3>2. CASE k[2] = n
      BY <1>7, <2>3, <3>1, <3>2
    <3>3. CASE k[2] # n
      <4>1. Reading(b)'
        BY <1>4, <1>5, <3>1, <3>3 DEF Reading
      <4> QED
        BY <4>1 DEF ReadOK
    <3> QED
      BY <3>2, <3>3
  <2>4. ListOK(b)'
    BY <1>4, <2>1, <2>2 DEF ListOK
  <2>5. ASSUME b \in Getters PROVE ReadOK(b)'
    <3>1. CASE b \notin Registered
      BY <1>2, <3>1 DEF ReadOK
    <3>2. CASE shown[b] = val[b]
      BY <1>1, <3>2 DEF ReadOK
    <3>3. CASE \E j \in Jobs : j[1] = "start" /\ Of(j) = b /\ StateDue(j)
      BY <1>6, <3>3 DEF ReadOK
    <3> QED
      BY <2>1, <2>3, <2>5, <3>1, <3>2, <3>3 DEF ReadOK
  <2> QED
    BY <2>4, <2>5
<1>8. CASE PostOptions(n)
  <2>1. /\ post[n] = "delay" /\ post' = [post EXCEPT ![n] = "options"]
        /\ fresh' = fresh \cup after'[n]
        /\ job' = [j \in Jobs |-> IF j[1] = "post" /\ j[2] = n /\ Of(j) \in after'[n] \cap Discovers
                                    THEN "list" ELSE job[j]]
        /\ after'[n] \subseteq Actions
    BY <1>8 DEF PostOptions, Launch, Types
  <2>2. ASSUME NEW b \in Actions, b \in after'[n]
        PROVE  ListOK(b)' /\ (b \in Getters => ReadOK(b)')
    <3>1. PICK k \in Jobs : k[1] = "post" /\ k[2] = n /\ Of(k) = b
      <4>1. <<"post", n, b>> \in Jobs /\ Of(<<"post", n, b>>) = b
        BY JobsThere
      <4> QED
        BY <4>1
    <3>2. post'[n] = "options"
      BY <2>1 DEF Types
    <3>3. b \in Discovers => ListDue(k)'
      BY <2>1, <2>2, <3>1 DEF ListDue
    <3>4. b \notin Discovers => Known(b)'
      BY DEF Known
    <3>5. Listing(b)' \/ Known(b)'
      BY <2>2, <3>1, <3>2, <3>3, <3>4 DEF Listing
    <3>6. Reading(b)'
      BY <2>2, <3>1, <3>2, <3>3, <3>4 DEF Reading
    <3> QED
      BY <3>5, <3>6 DEF ListOK, ReadOK
  <2>3. ASSUME NEW b \in Actions, b \in fresh
        PROVE  ListOK(b)' /\ (b \in Getters => ReadOK(b)')
    BY <1>7, <2>1, <2>3
  <2> QED
    BY <2>1, <2>2, <2>3 DEF FreshInv, Types
<1>9. ASSUME JobsOff(n), NEW k \in Jobs, k[1] = "post", k[2] = n
      PROVE  job[k] = "off" /\ ~ ListDue(k) /\ ~ StateDue(k)
  <2>1. job[k] = "off"
    BY <1>9, JobFacts DEF JobsOff
  <2> QED
    BY <2>1 DEF ListDue, StateDue
<1>10. CASE PostStates(n)
  <2>1. /\ JobsOff(n) /\ post[n] = "options" /\ post' = [post EXCEPT ![n] = "states"]
        /\ after' = after /\ fresh' = fresh
        /\ job' = [j \in Jobs |-> IF j[1] = "post" /\ j[2] = n /\ Of(j) \in after[n] \cap Getters
                                    THEN "read" ELSE job[j]]
    BY <1>10 DEF PostStates, Launch, history
  <2>2. ASSUME NEW b \in Actions, b \in fresh
        PROVE  ListOK(b)' /\ (b \in Getters => ReadOK(b)')
    <3>1. ASSUME b \in Getters, NEW k \in Jobs, k[1] = "post", k[2] = n, Of(k) = b, b \in after[n],
                 Known(b)
          PROVE  ReadOK(b)'
      <4>1. job'[k] = "read" /\ post'[n] = "states"
        BY <2>1, <3>1 DEF Types
      <4>2. StateDue(k)' /\ Known(b)'
        BY <1>4, <3>1, <4>1 DEF StateDue
      <4>3. Reading(b)'
        BY <2>1, <3>1, <4>1, <4>2 DEF Reading
      <4> QED
        BY <4>3 DEF ReadOK
    <3> QED
      BY <1>7, <1>9, <2>1, <2>2, <3>1
  <2> QED
    BY <2>1, <2>2 DEF FreshInv, Types
<1>11. CASE PostEnds(n)
  <2>1. JobsOff(n) /\ post[n] = "states" /\ fresh' = fresh
    BY <1>11 DEF PostEnds, history
  <2>2. ASSUME NEW b \in Actions, b \in fresh
        PROVE  ListOK(b)' /\ (b \in Getters => ReadOK(b)')
    BY <1>7, <1>9, <2>1, <2>2
  <2> QED
    BY <2>1, <2>2 DEF FreshInv, Types
<1> QED
  BY <1>8, <1>10, <1>11 DEF PostStep

LEMMA FreshNext ==
  ASSUME Types, WorldInv, JobInv, StartInv, HandInv, FreshInv, [Next]_vars
  PROVE  FreshInv'
<1>1. ASSUME NEW b \in Actions, b \in fresh
      PROVE  ListOK(b) /\ (b \in Getters => ReadOK(b))
  BY <1>1 DEF FreshInv
\* Nothing happens to the jobs.
<1>2. ASSUME UNCHANGED <<found, announced, job, got>>, fresh' \subseteq fresh,
             \A n \in 1..MaxCommands : post[n] # "off" => post'[n] = post[n] /\ after'[n] = after[n],
             \A b \in Actions : b \in fresh' =>
               opts'[b] = opts[b] /\ val'[b] = val[b] /\ (shown'[b] = shown[b] \/ shown'[b] = val[b])
      PROVE  FreshInv'
  <2>1. Registered' = Registered
    BY <1>2 DEF Registered
  <2>2. ASSUME NEW b \in Actions, b \in fresh'
        PROVE  ListOK(b)' /\ (b \in Getters => ReadOK(b)')
    <3>1. ListOK(b) /\ (b \in Getters => ReadOK(b))
      BY <1>1, <1>2, <2>2
    <3>2. opts'[b] = opts[b] /\ val'[b] = val[b] /\ (shown[b] = val[b] => shown'[b] = val'[b])
      BY <1>2, <2>2
    <3>3. Known(b) => Known(b)'
      BY <1>2, <3>2 DEF Known
    <3>4. \A k \in Jobs : Of(k) = b => (ListDue(k) => ListDue(k)') /\ (StateDue(k) => StateDue(k)')
      BY <1>2, <3>2 DEF ListDue, StateDue
    <3>5. \A k \in Jobs : k[1] = "post" /\ post[k[2]] \in {"options", "states"} =>
            post'[k[2]] = post[k[2]] /\ after'[k[2]] = after[k[2]]
      BY <1>2, JobFacts
    <3> HIDE DEF Registered
    <3> QED
      BY <2>1, <3>1, <3>2, <3>3, <3>4, <3>5, FreshKept
  <2> QED
    BY <1>2, <2>2 DEF FreshInv, Types
<1>3. CASE UNCHANGED vars
  BY <1>2, <1>3 DEF vars, world, shows, jobs, history
<1>4. ASSUME NEW a \in Actions, WorldChanges(a) PROVE FreshInv'
  <2>1. /\ UNCHANGED <<found, announced, shown, job, got, post, after>> /\ fresh' = fresh \ {a}
        /\ \E list, v : opts' = [opts EXCEPT ![a] = list] /\ val' = [val EXCEPT ![a] = v]
    BY <1>4 DEF WorldChanges, shows, jobs
  <2>2. \A b \in Actions : b # a => opts'[b] = opts[b] /\ val'[b] = val[b]
    BY <2>1 DEF Types
  <2> QED
    BY <1>2, <2>1, <2>2
<1>5. ASSUME NEW a \in Actions, NEW v \in Values, Command(a, v) PROVE FreshInv'
  BY <1>2, <1>5 DEF Command, world, shows, jobs, history
<1>6. ASSUME NEW a \in Actions, HandlerStep(a) PROVE FreshInv'
  <2>1. CASE SetterRuns(a)
    <3>1. /\ UNCHANGED <<opts, found, announced, shown, job, got, post, after>>
          /\ val' = val \/ val' = [val EXCEPT ![a] = hval[a]]
          /\ fresh' = IF val' = val THEN fresh ELSE fresh \ {a}
      BY <2>1 DEF SetterRuns, shows, jobs
    <3>2. \A b \in Actions : b # a => val'[b] = val[b]
      BY <3>1 DEF Types
    <3>3. \A b \in Actions : b \in fresh' => val'[b] = val[b]
      BY <3>1, <3>2
    <3>4. fresh' \subseteq fresh
      BY <3>1
    <3> QED
      BY <1>2, <3>1, <3>3, <3>4
  <2>2. CASE SwitchGets(a)
    BY <1>2, <2>2 DEF SwitchGets, world, shows, jobs, history
  <2>3. CASE HandlerPublishes(a)
    <3>1. /\ UNCHANGED <<opts, val, found, announced, job, got>>
          /\ \/ post' = post /\ after' = after
             \/ /\ post' = [post EXCEPT ![hnum[a]] = "delay"]
                /\ after' = [after EXCEPT ![hnum[a]] = Refreshes[a]]
      BY <2>3 DEF HandlerPublishes, world
    <3>2. \/ shown' = shown /\ fresh' = fresh
          \/ shown' = [shown EXCEPT ![a] = hval[a]] /\ Late(a, hval[a], val[a])
      BY <2>3 DEF HandlerPublishes
    <3>3. \A n \in 1..MaxCommands : post[n] # "off" => post'[n] = post[n] /\ after'[n] = after[n]
      <4>1. \A n \in 1..MaxCommands : post[n] # "off" => hnum[a] # n
        BY DEF HandInv
      <4> QED
        BY <3>1, <4>1 DEF Types
    <3>4. fresh' \subseteq fresh
      BY <3>2 DEF Late
    <3>5. \A b \in Actions : b \in fresh' => shown'[b] = shown[b] \/ shown'[b] = val[b]
      BY <3>2 DEF Late, Types
    <3> QED
      BY <1>2, <3>1, <3>3, <3>4, <3>5
  <2> QED
    BY <1>6, <2>1, <2>2, <2>3 DEF HandlerStep
<1> QED
  BY <1>3, <1>4, <1>5, <1>6, JobStepFresh, StartStepFresh, PostStepFresh DEF Next
-----------------------------------------------------------------------------
(* The theorems *)

LEMMA InitIInv == Init => IInv
<1> SUFFICES ASSUME Init PROVE IInv
  OBVIOUS
<1>1. Types /\ TypeOK
  BY TypesInit, TypesSuffice DEF Init
<1>2. Registered = {}
  BY DEF Init, Registered
<1>3. WorldInv
  BY DEF Init, WorldInv
<1>4. \A j \in Jobs : job[j] = "off"
  BY DEF Init
<1>5. JobInv /\ TickInv
  BY <1>4 DEF JobInv, JobOK, TickInv
<1>6. StartInv
  BY <1>2, OrderFacts DEF Init, StartInv
<1>7. HandInv
  BY DEF Init, HandInv
<1>8. OldInv /\ FreshInv
  BY <1>2 DEF Init, OldInv, FreshInv
<1> QED
  BY <1>1, <1>3, <1>5, <1>6, <1>7, <1>8 DEF IInv

LEMMA NextIInv == IInv /\ [Next]_vars => IInv'
<1> SUFFICES ASSUME IInv, [Next]_vars PROVE IInv'
  OBVIOUS
<1>1. Types
  BY TypesSuffice DEF IInv
<1>2. Types' /\ WorldInv' /\ JobInv' /\ StartInv' /\ TickInv' /\ HandInv' /\ OldInv' /\ FreshInv'
  BY <1>1, TypesNext, WorldNext, JobNext, StartNext, TickNext, HandNext, OldNext, FreshNext DEF IInv
<1>3. (spc = "done" => runtimes = Registered)'
  <2>1. (Types /\ StartInv /\ spc = "done" => runtimes = Registered)'
    BY AllRegistered, PTL
  <2> QED
    BY <1>2, <2>1
<1>4. TypeOK'
  BY <1>2, <1>3 DEF TypeOK, Types
<1> QED
  BY <1>2, <1>4 DEF IInv

\* The inductive invariant holds in every behaviour.
LEMMA Inductive == Spec => []IInv
  BY InitIInv, NextIInv, PTL DEF Spec

\* When all is quiet, what is fresh is as the world is.
LEMMA IInvRepairs == IInv => RefreshRepairs
<1> SUFFICES ASSUME IInv, Quiet, NEW a \in fresh \cap Registered
             PROVE  /\ a \in Discovers \ outdated => announced[a] = opts[a]
                    /\ a \in Getters => shown[a] = val[a]
  BY DEF RefreshRepairs
<1>1. Types /\ a \in Actions
  BY TypesSuffice DEF IInv, Registered
<1>2. \A j \in Jobs : job[j] \in {"off", "list", "read"} /\ (j[1] \in {"start", "post"} => job[j] = "off")
  BY RestFacts DEF Quiet
<1>3. ~ Listing(a) /\ ~ Reading(a)
  BY <1>1, JobFacts DEF Quiet, Listing, Reading
<1>4. Known(a) /\ (a \in Getters => ReadOK(a))
  BY <1>3 DEF IInv, FreshInv, ListOK
<1>5. ASSUME a \in Discovers \ outdated PROVE announced[a] = opts[a]
  <2>1. announced[a] = Offered(a)
    BY <1>2, <1>5 DEF IInv, OldInv, OldOK
  <2>2. found[a] = opts[a] /\ opts[a] # {}
    BY <1>1, <1>4, <1>5 DEF Known, Types
  <2> QED
    BY <2>1, <2>2 DEF Offered
<1>6. ASSUME a \in Getters PROVE shown[a] = val[a]
  <2>1. \A j \in Jobs : j[1] = "start" => ~ StateDue(j)
    BY <1>2 DEF StateDue
  <2> QED
    BY <1>3, <1>4, <1>6, <2>1 DEF ReadOK
<1> QED
  BY <1>5, <1>6

\* Types; and when Start is done, the actions it has not left out are registered with
\* options and no others are, whichever scripts failed and however refreshes overlapped
\* with it; no two handlers have the same number.
THEOREM TypeCorrect == Spec => []TypeOK
<1>1. IInv => TypeOK
  BY DEF IInv
<1> QED
  BY <1>1, Inductive, PTL

\* A refresh by tags that nothing disturbed leaves options and state of its entities as
\* the scripts say, for any number of commands, refreshes and tickers that overlap.
THEOREM RefreshedRight == Spec => []RefreshRepairs
  BY IInvRepairs, Inductive, PTL
=============================================================================
