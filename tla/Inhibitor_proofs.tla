-------------------------- MODULE Inhibitor_proofs --------------------------
(***************************************************************************)
(* Proofs about Inhibitor: no inhibition outlives its switch, for any      *)
(* switches, services that come, go and hang, and commands.                *)
(***************************************************************************)
EXTENDS Inhibitor, TLAPS

\* A command that calls a service has a number and is about a switch that is in the
\* other position; the lock keeps it there.
CallInv ==
  mu = "command" => /\ commands \in Cookies
                    /\ \A i \in todo : active[i] # wants

\* A service that is down holds nothing, and none does once the connection is closed.
DownInv == \A i \in Items : svc[i] = "down" \/ tpc = "stopped" => held[i] = {}

\* Up to Stop, and while the context lives, a service holds at most the inhibition
\* whose cookie the plugin has.
HeldInv ==
  ~ctxDone /\ tpc \in {"new", "started"} =>
    \A i \in Items : held[i] \subseteq IF active[i] THEN {cookie[i]} ELSE {}

\* Start has the lock only before the plugin is started, and Stop only while it stops.
StopInv == (mu = "start" => tpc = "new") /\ (mu = "stop" => tpc = "stopping")

\* A switch that is on is shown so, unless Start came after the command.
ShownInv == \A i \in Items : active[i] => shown[i] \/ i \in early

IInv == TypeOK /\ CallInv /\ DownInv /\ HeldInv /\ StopInv /\ ShownInv

-----------------------------------------------------------------------------
LEMMA InitIInv == Init => IInv
<1> SUFFICES ASSUME Init PROVE IInv
  OBVIOUS
<1> USE BoundsAssumption DEF Init
<1>1. /\ active \in [Items -> BOOLEAN] /\ shown \in [Items -> BOOLEAN]
      /\ \A i \in Items : active[i] = FALSE
      /\ {wants, ctxDone} \subseteq BOOLEAN
  BY Zenon
<1>2. /\ svc \in [Items -> {"up", "down", "hung"}]
      /\ held \in [Items -> SUBSET Cookies] /\ \A i \in Items : held[i] = {}
      /\ cookie \in [Items -> Cookies \cup {0}]
      /\ availability \in [Items -> {"none", "online", "unavailable"}]
      /\ reg \in [Items -> {"no", "subscribed", "shown"}]
      /\ events \in 0..MaxEvents /\ commands \in 0..MaxCommands
  OBVIOUS
<1>3. TypeOK
  BY <1>1, <1>2 DEF TypeOK
<1>4. CallInv /\ DownInv /\ HeldInv /\ StopInv /\ ShownInv
  BY <1>1, <1>2 DEF CallInv, DownInv, HeldInv, StopInv, ShownInv
<1>5. QED
  BY <1>3, <1>4 DEF IInv

\* Every action keeps the types.
LEMMA StepTypeOK == TypeOK /\ CallInv /\ [Next]_vars => TypeOK'
<1> SUFFICES ASSUME TypeOK, CallInv, [Next]_vars PROVE TypeOK'
  OBVIOUS
<1> USE BoundsAssumption DEF TypeOK, svcVars, itemVars, runVars, PublishState, CommandDone
<1>1. ASSUME NEW i \in Items, ServiceChanges(i) PROVE TypeOK'
  BY <1>1 DEF ServiceChanges
<1>2. ASSUME NEW i \in Items, NEW enabled \in BOOLEAN, Command(i, enabled) PROVE TypeOK'
  BY <1>2 DEF Command
<1>3. ASSUME NEW i \in Items, Subscribe(i) PROVE TypeOK'
  BY <1>3 DEF Subscribe
<1>4. ASSUME NEW i \in Items, ShowOff(i) PROVE TypeOK'
  BY <1>4 DEF ShowOff
<1>5. CASE StartRefresh
  BY <1>5 DEF StartRefresh
<1>6. CASE Tick
  BY <1>6 DEF Tick
<1>7. ASSUME NEW i \in Items, Ping(i) PROVE TypeOK'
  <2>1. /\ availability' \in [Items -> {"none", "online", "unavailable"}]
        /\ todo' \subseteq Items /\ mu' = mu /\ mu # "free"
        /\ UNCHANGED <<svcVars, wants, runVars, commands>>
    BY <1>7 DEF Ping
  <2>2. CASE UNCHANGED <<cookie, active, shown, early>>
    BY <2>1, <2>2
  <2>3. CASE /\ active' = [active EXCEPT ![i] = FALSE]
             /\ cookie' = [cookie EXCEPT ![i] = 0]
             /\ PublishState(i, FALSE)
    <3>1. /\ active' \in [Items -> BOOLEAN] /\ shown' \in [Items -> BOOLEAN]
          /\ cookie' \in [Items -> Cookies \cup {0}] /\ early' \subseteq Items
      BY <2>3
    <3>2. \A j \in Items : active'[j] => cookie'[j] # 0
      BY <2>3
    <3>3. QED
      BY <2>1, <3>1, <3>2
  <2>4. QED
    BY <1>7, <2>2, <2>3 DEF Ping
<1>8. CASE RefreshEnd
  BY <1>8 DEF RefreshEnd
<1>9. CASE LoopExit
  BY <1>9 DEF LoopExit
<1>10. ASSUME NEW i \in Items, Inhibit(i) PROVE TypeOK'
  BY <1>10 DEF Inhibit, Calling, CallInv, Cookies
<1>11. ASSUME NEW i \in Items, UnInhibit(i) PROVE TypeOK'
  BY <1>11 DEF UnInhibit, Calling
<1>12. ASSUME NEW i \in Items, CallFails(i) PROVE TypeOK'
  BY <1>12 DEF CallFails
<1>13. CASE Cancel
  BY <1>13 DEF Cancel
<1>14. CASE Stop
  BY <1>14 DEF Stop
<1>15. CASE StopLock
  BY <1>15 DEF StopLock
<1>16. ASSUME NEW i \in Items, Release(i) PROVE TypeOK'
  BY <1>16 DEF Release
<1>17. CASE StopEnd
  BY <1>17 DEF StopEnd
<1>18. CASE UNCHANGED vars
  BY <1>18 DEF vars
<1>19. QED
  BY <1>1, <1>2, <1>3, <1>4, <1>5, <1>6, <1>7, <1>8, <1>9, <1>10, <1>11, <1>12, <1>13, <1>14,
     <1>15, <1>16, <1>17, <1>18
     DEF Next, StartStep, RefreshStep, CommandStep, StopStep

\* The lock: a command keeps its switch as it found it, and Start and Stop have it only
\* in their time.
LEMMA StepLock ==
  TypeOK /\ CallInv /\ StopInv /\ [Next]_vars => (CallInv /\ StopInv)'
<1> SUFFICES ASSUME TypeOK, CallInv, StopInv, [Next]_vars PROVE (CallInv /\ StopInv)'
  OBVIOUS
<1> USE DEF TypeOK, CallInv, StopInv, svcVars, itemVars, runVars, PublishState, CommandDone
<1>1. ASSUME NEW i \in Items, ServiceChanges(i) PROVE (CallInv /\ StopInv)'
  BY <1>1 DEF ServiceChanges
<1>2. ASSUME NEW i \in Items, NEW enabled \in BOOLEAN, Command(i, enabled)
      PROVE (CallInv /\ StopInv)'
  <2>1. CASE UNCHANGED <<mu, todo, wants>>
    BY <1>2, <2>1 DEF Command, Cookies
  <2>2. CASE active[i] # enabled /\ mu' = "command" /\ todo' = {i} /\ wants' = enabled
    BY <1>2, <2>2, BoundsAssumption DEF Command, Cookies
  <2>3. QED
    BY <1>2, <2>1, <2>2 DEF Command
<1>3. ASSUME NEW i \in Items, Subscribe(i) PROVE (CallInv /\ StopInv)'
  BY <1>3 DEF Subscribe
<1>4. ASSUME NEW i \in Items, ShowOff(i) PROVE (CallInv /\ StopInv)'
  BY <1>4 DEF ShowOff
<1>5. CASE StartRefresh
  BY <1>5 DEF StartRefresh
<1>6. CASE Tick
  BY <1>6 DEF Tick
<1>7. ASSUME NEW i \in Items, Ping(i) PROVE (CallInv /\ StopInv)'
  BY <1>7 DEF Ping
<1>8. CASE RefreshEnd
  BY <1>8 DEF RefreshEnd
<1>9. CASE LoopExit
  BY <1>9 DEF LoopExit
<1>10. ASSUME NEW i \in Items, Inhibit(i) PROVE (CallInv /\ StopInv)'
  BY <1>10 DEF Inhibit
<1>11. ASSUME NEW i \in Items, UnInhibit(i) PROVE (CallInv /\ StopInv)'
  BY <1>11 DEF UnInhibit
<1>12. ASSUME NEW i \in Items, CallFails(i) PROVE (CallInv /\ StopInv)'
  BY <1>12 DEF CallFails
<1>13. CASE Cancel
  BY <1>13 DEF Cancel
<1>14. CASE Stop
  BY <1>14 DEF Stop
<1>15. CASE StopLock
  BY <1>15 DEF StopLock
<1>16. ASSUME NEW i \in Items, Release(i) PROVE (CallInv /\ StopInv)'
  BY <1>16 DEF Release
<1>17. CASE StopEnd
  BY <1>17 DEF StopEnd
<1>18. CASE UNCHANGED vars
  BY <1>18 DEF vars
<1>19. QED
  BY <1>1, <1>2, <1>3, <1>4, <1>5, <1>6, <1>7, <1>8, <1>9, <1>10, <1>11, <1>12, <1>13, <1>14,
     <1>15, <1>16, <1>17, <1>18
     DEF Next, StartStep, RefreshStep, CommandStep, StopStep

\* What a service that is down, or a connection that is closed, no longer holds.
LEMMA StepDown ==
  TypeOK /\ StopInv /\ DownInv /\ [Next]_vars => DownInv'
<1> SUFFICES ASSUME TypeOK, StopInv, DownInv, [Next]_vars PROVE DownInv'
  OBVIOUS
<1> USE DEF TypeOK, StopInv, DownInv, svcVars, itemVars, runVars, PublishState, CommandDone
<1>1. ASSUME NEW i \in Items, ServiceChanges(i) PROVE DownInv'
  BY <1>1 DEF ServiceChanges
<1>2. ASSUME NEW i \in Items, NEW enabled \in BOOLEAN, Command(i, enabled)
      PROVE DownInv'
  BY <1>2 DEF Command
<1>3. ASSUME NEW i \in Items, Subscribe(i) PROVE DownInv'
  BY <1>3 DEF Subscribe
<1>4. ASSUME NEW i \in Items, ShowOff(i) PROVE DownInv'
  BY <1>4 DEF ShowOff
<1>5. CASE StartRefresh
  BY <1>5 DEF StartRefresh
<1>6. CASE Tick
  BY <1>6 DEF Tick
<1>7. ASSUME NEW i \in Items, Ping(i) PROVE DownInv'
  BY <1>7 DEF Ping
<1>8. CASE RefreshEnd
  BY <1>8 DEF RefreshEnd
<1>9. CASE LoopExit
  BY <1>9 DEF LoopExit
<1>10. ASSUME NEW i \in Items, Inhibit(i) PROVE DownInv'
  BY <1>10 DEF Inhibit, Calling, Answers, connected
<1>11. ASSUME NEW i \in Items, UnInhibit(i) PROVE DownInv'
  BY <1>11 DEF UnInhibit, Calling, Answers, connected
<1>12. ASSUME NEW i \in Items, CallFails(i) PROVE DownInv'
  BY <1>12 DEF CallFails
<1>13. CASE Cancel
  BY <1>13 DEF Cancel
<1>14. CASE Stop
  BY <1>14 DEF Stop
<1>15. CASE StopLock
  BY <1>15 DEF StopLock
<1>16. ASSUME NEW i \in Items, Release(i) PROVE DownInv'
  BY <1>16 DEF Release
<1>17. CASE StopEnd
  BY <1>17 DEF StopEnd
<1>18. CASE UNCHANGED vars
  BY <1>18 DEF vars
<1>19. QED
  BY <1>1, <1>2, <1>3, <1>4, <1>5, <1>6, <1>7, <1>8, <1>9, <1>10, <1>11, <1>12, <1>13, <1>14,
     <1>15, <1>16, <1>17, <1>18
     DEF Next, StartStep, RefreshStep, CommandStep, StopStep

\* No service holds more than the cookie the plugin has.
LEMMA StepHeld ==
  TypeOK /\ CallInv /\ DownInv /\ StopInv /\ HeldInv /\ [Next]_vars => HeldInv'
<1> SUFFICES ASSUME TypeOK, CallInv, DownInv, StopInv, HeldInv, [Next]_vars PROVE HeldInv'
  OBVIOUS
<1> USE DEF TypeOK, HeldInv, svcVars, itemVars, runVars, PublishState, CommandDone
<1>1. ASSUME NEW i \in Items, ServiceChanges(i) PROVE HeldInv'
  BY <1>1 DEF ServiceChanges
<1>2. ASSUME NEW i \in Items, NEW enabled \in BOOLEAN, Command(i, enabled)
      PROVE HeldInv'
  BY <1>2 DEF Command
<1>3. ASSUME NEW i \in Items, Subscribe(i) PROVE HeldInv'
  BY <1>3 DEF Subscribe
<1>4. ASSUME NEW i \in Items, ShowOff(i) PROVE HeldInv'
  BY <1>4 DEF ShowOff
<1>5. CASE StartRefresh
  BY <1>5 DEF StartRefresh
<1>6. CASE Tick
  BY <1>6 DEF Tick
<1>7. ASSUME NEW i \in Items, Ping(i) PROVE HeldInv'
  BY <1>7 DEF Ping, Fails, connected, DownInv
<1>8. CASE RefreshEnd
  BY <1>8 DEF RefreshEnd, StopInv
<1>9. CASE LoopExit
  BY <1>9 DEF LoopExit
<1>10. ASSUME NEW i \in Items, Inhibit(i) PROVE HeldInv'
  BY <1>10 DEF Inhibit, Calling, CallInv
<1>11. ASSUME NEW i \in Items, UnInhibit(i) PROVE HeldInv'
  BY <1>11 DEF UnInhibit, Calling, CallInv
<1>12. ASSUME NEW i \in Items, CallFails(i) PROVE HeldInv'
  BY <1>12 DEF CallFails
<1>13. CASE Cancel
  BY <1>13 DEF Cancel
<1>14. CASE Stop
  BY <1>14 DEF Stop
<1>15. CASE StopLock
  BY <1>15 DEF StopLock
<1>16. ASSUME NEW i \in Items, Release(i) PROVE HeldInv'
  BY <1>16 DEF Release, StopInv
<1>17. CASE StopEnd
  BY <1>17 DEF StopEnd
<1>18. CASE UNCHANGED vars
  BY <1>18 DEF vars
<1>19. QED
  BY <1>1, <1>2, <1>3, <1>4, <1>5, <1>6, <1>7, <1>8, <1>9, <1>10, <1>11, <1>12, <1>13, <1>14,
     <1>15, <1>16, <1>17, <1>18
     DEF Next, StartStep, RefreshStep, CommandStep, StopStep

\* A switch that is on is shown so, or was switched on before Start showed it.
LEMMA StepShown ==
  TypeOK /\ CallInv /\ ShownInv /\ [Next]_vars => ShownInv'
<1> SUFFICES ASSUME TypeOK, CallInv, ShownInv, [Next]_vars PROVE ShownInv'
  OBVIOUS
<1> USE DEF TypeOK, ShownInv, svcVars, itemVars, runVars, PublishState, CommandDone
<1>1. ASSUME NEW i \in Items, ServiceChanges(i) PROVE ShownInv'
  BY <1>1 DEF ServiceChanges
<1>2. ASSUME NEW i \in Items, NEW enabled \in BOOLEAN, Command(i, enabled)
      PROVE ShownInv'
  BY <1>2 DEF Command
<1>3. ASSUME NEW i \in Items, Subscribe(i) PROVE ShownInv'
  BY <1>3 DEF Subscribe
<1>4. ASSUME NEW i \in Items, ShowOff(i) PROVE ShownInv'
  BY <1>4 DEF ShowOff
<1>5. CASE StartRefresh
  BY <1>5 DEF StartRefresh
<1>6. CASE Tick
  BY <1>6 DEF Tick
<1>7. ASSUME NEW i \in Items, Ping(i) PROVE ShownInv'
  BY <1>7 DEF Ping
<1>8. CASE RefreshEnd
  BY <1>8 DEF RefreshEnd
<1>9. CASE LoopExit
  BY <1>9 DEF LoopExit
<1>10. ASSUME NEW i \in Items, Inhibit(i) PROVE ShownInv'
  BY <1>10 DEF Inhibit
<1>11. ASSUME NEW i \in Items, UnInhibit(i) PROVE ShownInv'
  BY <1>11 DEF UnInhibit
<1>12. ASSUME NEW i \in Items, CallFails(i) PROVE ShownInv'
  BY <1>12 DEF CallFails
<1>13. CASE Cancel
  BY <1>13 DEF Cancel
<1>14. CASE Stop
  BY <1>14 DEF Stop
<1>15. CASE StopLock
  BY <1>15 DEF StopLock
<1>16. ASSUME NEW i \in Items, Release(i) PROVE ShownInv'
  BY <1>16 DEF Release
<1>17. CASE StopEnd
  BY <1>17 DEF StopEnd
<1>18. CASE UNCHANGED vars
  BY <1>18 DEF vars
<1>19. QED
  BY <1>1, <1>2, <1>3, <1>4, <1>5, <1>6, <1>7, <1>8, <1>9, <1>10, <1>11, <1>12, <1>13, <1>14,
     <1>15, <1>16, <1>17, <1>18
     DEF Next, StartStep, RefreshStep, CommandStep, StopStep

\* The parts hold together: types, who holds the lock, what is down, held and shown.
THEOREM Invariant == Spec => []IInv
<1>1. IInv /\ [Next]_vars => IInv'
  BY StepTypeOK, StepLock, StepDown, StepHeld, StepShown DEF IInv
<1>2. QED
  BY InitIInv, <1>1, PTL DEF Spec

\* For any switches, bounds and schedule: the variables have their types, whoever works
\* on items holds the lock, and a switch that is on has a cookie.
THEOREM TypeCorrect == Spec => []TypeOK
<1>1. IInv => TypeOK
  BY DEF IInv
<1>2. QED
  BY Invariant, <1>1, PTL

\* For any switches, bounds and schedule: no inhibition outlives its switch, and none is
\* left after Stop.
THEOREM NoLeaks == Spec => []NothingLeaks
<1>1. IInv => NothingLeaks
  <2> SUFFICES ASSUME IInv, NEW i \in Items
               PROVE  /\ tpc = "started" /\ mu = "free" /\ ~ctxDone =>
                           held[i] \subseteq IF active[i] /\ (shown[i] \/ i \in early)
                                             THEN {cookie[i]} ELSE {}
                      /\ tpc = "stopped" => held[i] = {}
    BY DEF NothingLeaks
  <2>1. tpc = "stopped" => held[i] = {}
    BY DEF IInv, DownInv
  <2>2. active[i] => shown[i] \/ i \in early
    BY DEF IInv, ShownInv
  <2>3. tpc = "started" /\ ~ctxDone => held[i] \subseteq IF active[i] THEN {cookie[i]} ELSE {}
    BY DEF IInv, HeldInv
  <2>4. QED
    BY <2>1, <2>2, <2>3
<1>2. QED
  BY Invariant, <1>1, PTL
=============================================================================
