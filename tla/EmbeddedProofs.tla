--------------------------- MODULE EmbeddedProofs ---------------------------
(***************************************************************************)
(* Safety of the embedded lifecycle for every number of servers in the     *)
(* process, and whether or not threads can be attached.                    *)
(***************************************************************************)
EXTENDS EmbeddedLifecycle, TLAPS

----------------------------------------------------------------------------
(***************************************************************************)
(* The inductive invariant: where the two goroutines of a server can be at *)
(* the same time, and what each place says of the gate, of roots.current   *)
(* and of the native threads.                                              *)
(***************************************************************************)
\* The supervisor between the hand-over and its return, and the isolate
\* goroutine between the hand-over and its end.
Supervised == {"supervise", "gate", "unregister", "drain", "health", "shutdown",
               "awaitRun", "tearDown", "awaitTearDown"}
TakenOver == {"run", "boot", "await", "awaitTearDown"}

\* The two goroutines meet at the hand-over and at the tear-down only.
PhaseInv ==
    \A s \in Servers :
        /\ main[s] \in {"new", "prepare"} => iso[s] = "none"
        /\ main[s] \in Supervised => iso[s] \in TakenOver \cup {"done"}
        /\ iso[s] \in TakenOver => main[s] \in Supervised
        /\ main[s] \in Supervised /\ iso[s] = "done" => main[s] = "awaitTearDown"
        /\ isolate[s] = "torn" => iso[s] = "done"
        /\ tearDown[s] = "closed" => main[s] = "awaitTearDown"
        /\ tearDown[s] = "done" => iso[s] = "done"

\* The poller lives from the hand-over until healthWG.Wait.
HealthInv ==
    \A s \in Servers :
        /\ main[s] \in {"new", "prepare", "create"} => health[s] = "none"
        /\ main[s] \in {"shutdown", "awaitRun", "tearDown", "awaitTearDown"} => health[s] = "done"
        /\ main[s] = "returned" => health[s] \in {"none", "done"} /\ ~healthy[s]
        /\ health[s] = "none" => ~healthy[s]

\* The generation that holds roots.current: from the compare-and-swap to the
\* end of the drain, on either goroutine.
Holding(s) ==
    \/ iso[s] \in {"register", "registered", "refused", "refusedGate",
                   "refusedDrain", "send", "gate", "unregister", "drain"}
    \/ main[s] \in {"supervise", "gate", "unregister", "drain"}

\* The gate has been closed by stopIngressGeneration, or by a registration
\* that was refused.
Stopped(s) ==
    \/ iso[s] \in {"unregister", "drain", "abort"}
    \/ main[s] \in {"unregister", "drain", "health", "shutdown", "awaitRun",
                    "tearDown", "awaitTearDown"}

RootsInv ==
    \A s \in Servers :
        /\ current = s <=> Holding(s)
        /\ Stopped(s) => ~gate[s] /\ ~brokerActive[s]
        /\ iso[s] = "refusedDrain" => ~gate[s]

\* A call is in flight only in the generation that holds roots.current, and a
\* captured assignment finds the gate of any other generation closed.
FlightInv ==
    \A s \in Servers :
        /\ brokerActive[s] => current = s
        /\ assigner[s].pc = "captured" => current = s \/ ~gate[s]
        /\ assigner[s].pc \notin {"idle", "captured"} => current = s
        /\ assigner[s].in \in {current, NoServer}
        /\ opener[s].in \in {current, NoServer}

Inv ==
    /\ TypeOK /\ PhaseInv /\ HealthInv
    /\ RootsInv /\ FlightInv

\* Every step keeps the types.
LEMMA NextType == TypeOK /\ [Next]_vars => TypeOK'
<1> SUFFICES ASSUME TypeOK, [Next]_vars PROVE TypeOK'
    OBVIOUS
<1> USE ServerAssumption DEF lifecycle, ingress, probe, Goto, Set, Clear
<1>u. CASE UNCHANGED vars
    BY <1>u DEF TypeOK, vars
<1>n. CASE Next
  <2> PICK s \in Servers : \/ Start(s) \/ Cancel(s) \/ Stop(s) \/ StopReturns(s)
        \/ MainStep(s) \/ IsoStep(s)
        \/ AssignCapture(s) \/ AssignerStep(s)
        \/ OpenHook(s) \/ OpenerStep(s)
        \/ HealthStep(s)
      BY <1>n DEF Next
  <2>1. CASE Start(s)
      BY <2>1 DEF TypeOK, MainStates, Start
  <2>2. CASE Cancel(s)
      BY <2>2 DEF TypeOK, Cancel
  <2>3. CASE Stop(s)
      BY <2>3 DEF TypeOK, Stop
  <2>4. CASE StopReturns(s)
      BY <2>4 DEF TypeOK, StopReturns
  <2>5. CASE MainPrepare(s)
      BY <2>5 DEF TypeOK, MainStates, IsoStates, MainPrepare
  <2>6. CASE MainCreateFails(s)
      BY <2>6 DEF TypeOK, MainStates, MainCreateFails
  <2>7. CASE MainWakes(s)
      BY <2>7 DEF TypeOK, MainStates, MainWakes
  <2>8. CASE MainStop(s)
      BY <2>8 DEF TypeOK, MainStates, MainStop, CloseGate, Unregister, Drain
  <2>9. CASE MainHealth(s)
      BY <2>9 DEF TypeOK, MainStates, MainHealth, HealthJoined
  <2>10. CASE MainShutdown(s)
      BY <2>10 DEF TypeOK, MainStates, MainShutdown
  <2>11. CASE MainAwaitRun(s)
      BY <2>11 DEF TypeOK, MainStates, MainAwaitRun
  <2>12. CASE MainTearDown(s)
      BY <2>12 DEF TypeOK, MainStates, MainTearDown
  <2>13. CASE MainReturns(s)
      BY <2>13 DEF TypeOK, MainStates, MainReturns
  <2>14. CASE IsoCreate(s)
      BY <2>14 DEF TypeOK, IsoStates, IsoCreate
  <2>15. CASE IsoCheck(s)
      BY <2>15, ZenonT(60) DEF TypeOK, IsoStates, IsoCheck, Abandon
  <2>16. CASE IsoInit(s)
      BY <2>16 DEF TypeOK, IsoStates, IsoInit, Abandon
  <2>17. CASE IsoStart(s)
    <3>1. CASE current = NoServer
        BY <2>17, <3>1 DEF TypeOK, IsoStates, IsoStart
    <3>2. CASE current # NoServer
        BY <2>17, <3>2, ZenonT(60) DEF TypeOK, IsoStates, IsoStart, Abandon
    <3> QED
        BY <3>1, <3>2
  <2>18. CASE IsoRegister(s)
      BY <2>18 DEF TypeOK, IsoStates, IsoRegister
  <2>19. CASE IsoRefused(s)
      BY <2>19 DEF TypeOK, IsoStates, IsoRefused
  <2>20. CASE IsoCheckRegistered(s)
      BY <2>20 DEF TypeOK, IsoStates, IsoCheckRegistered
  <2>21. CASE HandOver(s)
      BY <2>21 DEF TypeOK, MainStates, IsoStates, HandOver
  <2>22. CASE IsoSendCanceled(s)
      BY <2>22 DEF TypeOK, IsoStates, IsoSendCanceled
  <2>23. CASE IsoRun(s)
      BY <2>23 DEF TypeOK, IsoStates, IsoRun
  <2>24. CASE IsoBoot(s)
      BY <2>24 DEF TypeOK, IsoStates, IsoBoot
  <2>25. CASE IsoRunReturns(s)
      BY <2>25 DEF TypeOK, IsoStates, IsoRunReturns
  <2>26. CASE IsoTearDown(s)
      BY <2>26 DEF TypeOK, IsoStates, IsoTearDown
  <2>27. CASE IsoStop(s)
      BY <2>27 DEF TypeOK, IsoStates, IsoStop, CloseGate, Unregister, Drain
  <2>28. CASE IsoAbort(s)
      BY <2>28 DEF TypeOK, IsoStates, IsoAbort, Abandon
  <2>29. CASE AssignCapture(s)
      BY <2>29 DEF TypeOK, Threads, Idle, AssignCapture
  <2>30. CASE AssignEnter(s)
      BY <2>30 DEF TypeOK, Threads, Idle, AssignEnter, MayEnter
  <2>31. CASE AssignAttach(s)
      BY <2>31, SMTT(40) DEF TypeOK, Threads, Idle, AssignAttach
  <2>32. CASE NativeAssign(s)
      BY <2>32 DEF TypeOK, Threads, Idle, NativeAssign
  <2>33. CASE VerifiedInvoke(s)
      BY <2>33 DEF TypeOK, Threads, Idle, VerifiedInvoke, Trampoline
  <2>34. CASE VerifiedReturn(s)
      BY <2>34 DEF TypeOK, Threads, Idle, VerifiedReturn, BrokerCall
  <2>35. CASE AssignReturn(s)
      BY <2>35 DEF TypeOK, Threads, Idle, AssignReturn
  <2>36. CASE OpenHook(s)
      BY <2>36 DEF TypeOK, Threads, Idle, OpenHook
  <2>37. CASE OpenConnection(s)
      BY <2>37 DEF TypeOK, Threads, Idle, OpenConnection
  <2>38. CASE OpenInvoke(s)
      BY <2>38 DEF TypeOK, Threads, Idle, OpenInvoke, Trampoline
  <2>39. CASE OpenReturn(s)
      BY <2>39 DEF TypeOK, Threads, Idle, OpenReturn, BrokerCall
  <2>40. CASE HealthAttach(s)
      BY <2>40 DEF TypeOK, HealthAttach
  <2>41. CASE HealthUp(s)
      BY <2>41 DEF TypeOK, HealthUp
  <2>42. CASE HealthCanceled(s)
      BY <2>42 DEF TypeOK, HealthCanceled
  <2> QED
      BY <2>1, <2>2, <2>3, <2>4, <2>5, <2>6, <2>7, <2>8, <2>9, <2>10, <2>11, <2>12, <2>13,
         <2>14, <2>15, <2>16, <2>17, <2>18, <2>19, <2>20, <2>21, <2>22, <2>23, <2>24, <2>25,
         <2>26, <2>27, <2>28, <2>29, <2>30, <2>31, <2>32, <2>33, <2>34, <2>35, <2>36, <2>37,
         <2>38, <2>39, <2>40, <2>41, <2>42 DEF MainStep, IsoStep, AssignerStep, OpenerStep,
         HealthStep
<1> QED
    BY <1>u, <1>n

\* The two goroutines and the poller keep in step.
LEMMA NextPhase == Inv /\ [Next]_vars => PhaseInv' /\ HealthInv'
<1> SUFFICES ASSUME Inv, [Next]_vars PROVE PhaseInv' /\ HealthInv'
    OBVIOUS
<1> USE ServerAssumption DEF Inv, lifecycle, ingress, probe, Goto, Set, Clear
<1>u. CASE UNCHANGED <<main, iso, isolate, tearDown, health, healthy>>
    BY <1>u DEF PhaseInv, HealthInv
<1>n. CASE Next
  <2> PICK s \in Servers :
        \/ Start(s) \/ Cancel(s) \/ Stop(s) \/ StopReturns(s)
        \/ MainStep(s) \/ IsoStep(s)
        \/ AssignCapture(s) \/ AssignerStep(s)
        \/ OpenHook(s) \/ OpenerStep(s)
        \/ HealthStep(s)
      BY <1>n DEF Next
  <2>1. CASE Cancel(s) \/ Stop(s) \/ StopReturns(s) \/ AssignCapture(s) \/ AssignerStep(s)
             \/ OpenHook(s) \/ OpenerStep(s)
      BY <2>1, <1>u DEF Cancel, Stop, StopReturns, AssignCapture, AssignerStep, AssignEnter,
             AssignAttach, NativeAssign, VerifiedInvoke, VerifiedReturn, AssignReturn, OpenHook,
             OpenerStep, OpenConnection, OpenInvoke, OpenReturn
  <2>2. CASE Start(s)
      BY <2>2 DEF TypeOK, PhaseInv, HealthInv, Supervised, TakenOver, Start
  <2>3. CASE MainPrepare(s)
      BY <2>3 DEF TypeOK, PhaseInv, HealthInv, Supervised, TakenOver, MainPrepare
  <2>4. CASE MainCreateFails(s)
      BY <2>4 DEF TypeOK, PhaseInv, HealthInv, Supervised, TakenOver, MainCreateFails
  <2>5. CASE MainWakes(s)
      BY <2>5 DEF TypeOK, PhaseInv, HealthInv, Supervised, TakenOver, MainWakes
  <2>6. CASE MainStop(s)
      BY <2>6 DEF TypeOK, PhaseInv, HealthInv, Supervised, TakenOver, MainStop
  <2>7. CASE MainHealth(s)
      BY <2>7 DEF TypeOK, PhaseInv, HealthInv, Supervised, TakenOver, MainHealth,
         HealthJoined
  <2>8. CASE MainShutdown(s)
      BY <2>8 DEF TypeOK, PhaseInv, HealthInv, Supervised, TakenOver, MainShutdown
  <2>9. CASE MainAwaitRun(s)
      BY <2>9 DEF TypeOK, PhaseInv, HealthInv, Supervised, TakenOver, MainAwaitRun
  <2>10. CASE MainTearDown(s)
      BY <2>10 DEF TypeOK, PhaseInv, HealthInv, Supervised, TakenOver, MainTearDown
  <2>11. CASE MainReturns(s)
      BY <2>11 DEF TypeOK, PhaseInv, HealthInv, Supervised, TakenOver, MainReturns
  <2>12. CASE IsoCreate(s)
      BY <2>12 DEF TypeOK, PhaseInv, HealthInv, Supervised, TakenOver, IsoCreate
  <2>13. CASE IsoCheck(s)
      BY <2>13 DEF TypeOK, PhaseInv, HealthInv, Supervised, TakenOver, IsoCheck, Abandon
  <2>14. CASE IsoInit(s)
      BY <2>14 DEF TypeOK, PhaseInv, HealthInv, Supervised, TakenOver, IsoInit, Abandon
  <2>15. CASE IsoStart(s)
      BY <2>15 DEF TypeOK, PhaseInv, HealthInv, Supervised, TakenOver, IsoStart, Abandon
  <2>16. CASE IsoRegister(s)
      BY <2>16 DEF TypeOK, PhaseInv, HealthInv, Supervised, TakenOver, IsoRegister
  <2>17. CASE IsoRefused(s)
      BY <2>17 DEF TypeOK, PhaseInv, HealthInv, Supervised, TakenOver, IsoRefused
  <2>18. CASE IsoCheckRegistered(s)
      BY <2>18 DEF TypeOK, PhaseInv, HealthInv, Supervised, TakenOver, IsoCheckRegistered
  <2>19. CASE HandOver(s)
      BY <2>19 DEF TypeOK, PhaseInv, HealthInv, Supervised, TakenOver, HandOver
  <2>20. CASE IsoSendCanceled(s)
      BY <2>20 DEF TypeOK, PhaseInv, HealthInv, Supervised, TakenOver, IsoSendCanceled
  <2>21. CASE IsoRun(s)
      BY <2>21 DEF TypeOK, PhaseInv, HealthInv, Supervised, TakenOver, IsoRun
  <2>22. CASE IsoBoot(s)
      BY <2>22 DEF TypeOK, PhaseInv, HealthInv, Supervised, TakenOver, IsoBoot
  <2>23. CASE IsoRunReturns(s)
      BY <2>23 DEF TypeOK, PhaseInv, HealthInv, Supervised, TakenOver, IsoRunReturns
  <2>24. CASE IsoTearDown(s)
      BY <2>24 DEF TypeOK, PhaseInv, HealthInv, Supervised, TakenOver, IsoTearDown
  <2>25. CASE IsoStop(s)
      BY <2>25 DEF TypeOK, PhaseInv, HealthInv, Supervised, TakenOver, IsoStop
  <2>26. CASE IsoAbort(s)
      BY <2>26 DEF TypeOK, PhaseInv, HealthInv, Supervised, TakenOver, IsoAbort, Abandon
  <2>27. CASE HealthAttach(s)
      BY <2>27 DEF TypeOK, PhaseInv, HealthInv, Supervised, TakenOver, HealthAttach
  <2>28. CASE HealthUp(s)
      BY <2>28 DEF TypeOK, PhaseInv, HealthInv, Supervised, TakenOver, HealthUp
  <2>29. CASE HealthCanceled(s)
      BY <2>29 DEF TypeOK, PhaseInv, HealthInv, Supervised, TakenOver, HealthCanceled
  <2> QED
      BY <2>1, <2>2, <2>3, <2>4, <2>5, <2>6, <2>7, <2>8, <2>9, <2>10, <2>11, <2>12, <2>13,
         <2>14, <2>15, <2>16, <2>17, <2>18, <2>19, <2>20, <2>21, <2>22, <2>23, <2>24, <2>25,
         <2>26, <2>27, <2>28, <2>29 DEF MainStep, IsoStep, HealthStep
<1> QED
    BY <1>u, <1>n DEF vars

\* roots.current names the generation between its compare-and-swap and its
\* drain, and stopping a generation closes its gate for good.
LEMMA NextRoots == Inv /\ [Next]_vars => RootsInv'
<1> SUFFICES ASSUME Inv, [Next]_vars PROVE RootsInv'
    OBVIOUS
<1> USE ServerAssumption DEF Inv, lifecycle, ingress, probe, Goto, Set, Clear
<1>u. CASE UNCHANGED <<main, iso, current, gate, brokerActive>>
    BY <1>u DEF RootsInv, Holding, Stopped
<1>n. CASE Next
  <2> PICK s \in Servers :
        \/ Start(s) \/ Cancel(s) \/ Stop(s) \/ StopReturns(s)
        \/ MainStep(s) \/ IsoStep(s)
        \/ AssignCapture(s) \/ AssignerStep(s)
        \/ OpenHook(s) \/ OpenerStep(s)
        \/ HealthStep(s)
      BY <1>n DEF Next
  <2>1. CASE Cancel(s) \/ Stop(s) \/ StopReturns(s) \/ AssignCapture(s) \/ AssignEnter(s)
             \/ AssignAttach(s) \/ NativeAssign(s) \/ VerifiedInvoke(s) \/ AssignReturn(s)
             \/ OpenHook(s) \/ OpenConnection(s) \/ OpenInvoke(s) \/ HealthStep(s)
      BY <2>1, <1>u DEF Cancel, Stop, StopReturns, AssignCapture, AssignEnter,
             AssignAttach, NativeAssign, VerifiedInvoke, AssignReturn, OpenHook, OpenConnection,
             OpenInvoke, HealthStep, HealthAttach, HealthUp, HealthCanceled
  <2>2. CASE Start(s)
      BY <2>2 DEF TypeOK, PhaseInv, RootsInv, Holding, Stopped, Supervised, TakenOver, Start
  <2>3. CASE MainPrepare(s)
      BY <2>3 DEF TypeOK, PhaseInv, RootsInv, Holding, Stopped, Supervised, TakenOver,
         MainPrepare
  <2>4. CASE MainCreateFails(s)
      BY <2>4 DEF TypeOK, PhaseInv, RootsInv, Holding, Stopped, Supervised, TakenOver,
         MainCreateFails
  <2>5. CASE MainWakes(s)
      BY <2>5 DEF TypeOK, PhaseInv, RootsInv, Holding, Stopped, Supervised, TakenOver,
         MainWakes
  <2>6. CASE MainStop(s)
      BY <2>6 DEF TypeOK, PhaseInv, RootsInv, Holding, Stopped, Supervised, TakenOver,
         MainStop, CloseGate, Unregister, Drain
  <2>7. CASE MainHealth(s)
      BY <2>7 DEF TypeOK, PhaseInv, RootsInv, Holding, Stopped, Supervised, TakenOver,
         MainHealth
  <2>8. CASE MainShutdown(s)
      BY <2>8 DEF TypeOK, PhaseInv, RootsInv, Holding, Stopped, Supervised, TakenOver,
         MainShutdown
  <2>9. CASE MainAwaitRun(s)
      BY <2>9 DEF TypeOK, PhaseInv, RootsInv, Holding, Stopped, Supervised, TakenOver,
         MainAwaitRun
  <2>10. CASE MainTearDown(s)
      BY <2>10 DEF TypeOK, PhaseInv, RootsInv, Holding, Stopped, Supervised, TakenOver,
         MainTearDown
  <2>11. CASE MainReturns(s)
      BY <2>11 DEF TypeOK, PhaseInv, RootsInv, Holding, Stopped, Supervised, TakenOver,
         MainReturns
  <2>12. CASE IsoCreate(s)
      BY <2>12 DEF TypeOK, PhaseInv, RootsInv, Holding, Stopped, Supervised, TakenOver,
         IsoCreate
  <2>13. CASE IsoCheck(s)
      BY <2>13 DEF TypeOK, PhaseInv, RootsInv, Holding, Stopped, Supervised, TakenOver,
         IsoCheck, Abandon
  <2>14. CASE IsoInit(s)
      BY <2>14 DEF TypeOK, PhaseInv, RootsInv, Holding, Stopped, Supervised, TakenOver,
         IsoInit, Abandon
  <2>15. CASE IsoStart(s)
      BY <2>15 DEF TypeOK, PhaseInv, RootsInv, Holding, Stopped, Supervised, TakenOver,
         IsoStart, Abandon
  <2>16. CASE IsoRegister(s)
      BY <2>16 DEF TypeOK, PhaseInv, RootsInv, Holding, Stopped, Supervised, TakenOver,
         IsoRegister
  <2>17. CASE IsoRefused(s)
      BY <2>17 DEF TypeOK, PhaseInv, RootsInv, Holding, Stopped, Supervised, TakenOver,
         IsoRefused
  <2>18. CASE IsoCheckRegistered(s)
      BY <2>18 DEF TypeOK, PhaseInv, RootsInv, Holding, Stopped, Supervised, TakenOver,
         IsoCheckRegistered
  <2>19. CASE HandOver(s)
      BY <2>19 DEF TypeOK, PhaseInv, RootsInv, Holding, Stopped, Supervised, TakenOver,
         HandOver
  <2>20. CASE IsoSendCanceled(s)
      BY <2>20 DEF TypeOK, PhaseInv, RootsInv, Holding, Stopped, Supervised, TakenOver,
         IsoSendCanceled
  <2>21. CASE IsoRun(s)
      BY <2>21 DEF TypeOK, PhaseInv, RootsInv, Holding, Stopped, Supervised, TakenOver,
         IsoRun
  <2>22. CASE IsoBoot(s)
      BY <2>22 DEF TypeOK, PhaseInv, RootsInv, Holding, Stopped, Supervised, TakenOver,
         IsoBoot
  <2>23. CASE IsoRunReturns(s)
      BY <2>23 DEF TypeOK, PhaseInv, RootsInv, Holding, Stopped, Supervised, TakenOver,
         IsoRunReturns
  <2>24. CASE IsoTearDown(s)
      BY <2>24 DEF TypeOK, PhaseInv, RootsInv, Holding, Stopped, Supervised, TakenOver,
         IsoTearDown
  <2>25. CASE IsoStop(s)
      BY <2>25 DEF TypeOK, PhaseInv, RootsInv, Holding, Stopped, Supervised, TakenOver,
         IsoStop, CloseGate, Unregister, Drain
  <2>26. CASE IsoAbort(s)
      BY <2>26 DEF TypeOK, PhaseInv, RootsInv, Holding, Stopped, Supervised, TakenOver,
         IsoAbort, Abandon
  <2>27. CASE VerifiedReturn(s)
      BY <2>27 DEF TypeOK, PhaseInv, RootsInv, Holding, Stopped, Supervised, TakenOver,
         VerifiedReturn, BrokerCall, Threads
  <2>28. CASE OpenReturn(s)
      BY <2>28 DEF TypeOK, PhaseInv, RootsInv, Holding, Stopped, Supervised, TakenOver,
         OpenReturn, BrokerCall, Threads
  <2> QED
      BY <2>1, <2>2, <2>3, <2>4, <2>5, <2>6, <2>7, <2>8, <2>9, <2>10, <2>11, <2>12, <2>13,
         <2>14, <2>15, <2>16, <2>17, <2>18, <2>19, <2>20, <2>21, <2>22, <2>23, <2>24, <2>25,
         <2>26, <2>27, <2>28 DEF MainStep, IsoStep, AssignerStep, OpenerStep
<1> QED
    BY <1>u, <1>n DEF vars

\* What an empty in-flight group says of the threads.
LEMMA DrainLeavesNone ==
    ASSUME NEW s \in Servers, InFlight(s) = {}
    PROVE  /\ assigner[s].pc \in {"idle", "captured"}
           /\ \A o \in Servers : assigner[o].in # s /\ opener[o].in # s
<1>1. assigner[s].pc \in {"idle", "captured"}
    BY DEF InFlight
<1>2. ASSUME NEW o \in Servers PROVE assigner[o].in # s
    <2> SUFFICES ASSUME assigner[o].in = s PROVE <<"verified", o>> \in InFlight(s)
        OBVIOUS
    <2> QED
        BY DEF InFlight
<1>3. ASSUME NEW o \in Servers PROVE opener[o].in # s
    <2> SUFFICES ASSUME opener[o].in = s PROVE <<"open", o>> \in InFlight(s)
        OBVIOUS
    <2> QED
        BY DEF InFlight
<1> QED
    BY <1>1, <1>2, <1>3

\* A thread enters only the generation that holds roots.current, which lets it
\* go only when no thread is inside.
LEMMA NextFlight == Inv /\ [Next]_vars => FlightInv'
<1> SUFFICES ASSUME Inv, [Next]_vars PROVE FlightInv'
    OBVIOUS
<1> USE ServerAssumption DEF Inv, lifecycle, ingress, probe, Goto, Set, Clear
<1>u. CASE UNCHANGED <<current, gate, brokerActive, assigner, opener>>
    BY <1>u DEF FlightInv
<1>n. CASE Next
  <2> PICK s \in Servers :
        \/ Start(s) \/ Cancel(s) \/ Stop(s) \/ StopReturns(s)
        \/ MainStep(s) \/ IsoStep(s)
        \/ AssignCapture(s) \/ AssignerStep(s)
        \/ OpenHook(s) \/ OpenerStep(s)
        \/ HealthStep(s)
      BY <1>n DEF Next
  <2>1. CASE Start(s) \/ Cancel(s) \/ Stop(s) \/ StopReturns(s) \/ HealthStep(s)
      BY <2>1, <1>u DEF Start, Cancel, Stop, StopReturns, HealthStep, HealthAttach,
         HealthUp,
             HealthCanceled
  <2>2. CASE MainPrepare(s) \/ MainCreateFails(s) \/ MainWakes(s) \/ MainHealth(s)
             \/ MainShutdown(s) \/ MainAwaitRun(s) \/ MainTearDown(s) \/ MainReturns(s)
      BY <2>2, <1>u DEF MainPrepare, MainCreateFails, MainWakes, MainHealth, MainShutdown,
             MainAwaitRun, MainTearDown, MainReturns
  <2>3. CASE IsoCreate(s) \/ IsoCheck(s) \/ IsoInit(s) \/ IsoRegister(s) \/ IsoCheckRegistered(s)
             \/ HandOver(s) \/ IsoSendCanceled(s) \/ IsoRun(s) \/ IsoBoot(s) \/ IsoRunReturns(s)
             \/ IsoTearDown(s) \/ IsoAbort(s)
      BY <2>3, <1>u DEF IsoCreate, IsoCheck, IsoInit, IsoRegister, IsoCheckRegistered,
         HandOver,
             IsoSendCanceled, IsoRun, IsoBoot, IsoRunReturns, IsoTearDown, IsoAbort
  <2>4. CASE MainStop(s) \/ IsoStop(s)
    <3>1. CASE CloseGate(s)
        BY <3>1 DEF TypeOK, FlightInv, CloseGate
    <3>2. CASE Unregister(s)
        BY <3>2, <1>u DEF Unregister
    <3>3. CASE Drain(s) /\ Stopped(s)
        BY <3>3, DrainLeavesNone DEF TypeOK, FlightInv, RootsInv, Drain
    <3> QED
        BY <2>4, <3>1, <3>2, <3>3 DEF MainStop, IsoStop, Stopped
  <2>5. CASE IsoStart(s)
      BY <2>5 DEF TypeOK, FlightInv, IsoStart
  <2>6. CASE IsoRefused(s)
    <3>1. CASE iso[s] = "refused"
        BY <2>6, <3>1, <1>u DEF IsoRefused
    <3>2. CASE iso[s] = "refusedGate"
        BY <2>6, <3>2 DEF TypeOK, FlightInv, IsoRefused
    <3>3. CASE iso[s] = "refusedDrain"
        BY <2>6, <3>3, DrainLeavesNone DEF TypeOK, FlightInv, RootsInv, IsoRefused
    <3> QED
        BY <2>6, <3>1, <3>2, <3>3 DEF IsoRefused
  <2>7. CASE AssignCapture(s)
      BY <2>7 DEF TypeOK, Threads, Idle, FlightInv, AssignCapture
  <2>8. CASE AssignEnter(s)
      BY <2>8 DEF TypeOK, Threads, Idle, FlightInv, AssignEnter, MayEnter
  <2>9. CASE AssignAttach(s)
      BY <2>9 DEF TypeOK, Threads, Idle, FlightInv, AssignAttach
  <2>10. CASE NativeAssign(s)
      BY <2>10 DEF TypeOK, Threads, Idle, FlightInv, NativeAssign
  <2>11. CASE VerifiedInvoke(s)
      BY <2>11 DEF TypeOK, Threads, Idle, FlightInv, VerifiedInvoke, Trampoline
  <2>12. CASE VerifiedReturn(s)
      BY <2>12 DEF TypeOK, Threads, Idle, FlightInv, VerifiedReturn, BrokerCall
  <2>13. CASE AssignReturn(s)
      BY <2>13 DEF TypeOK, Threads, Idle, FlightInv, AssignReturn
  <2>14. CASE OpenHook(s)
      BY <2>14 DEF TypeOK, Threads, Idle, FlightInv, OpenHook
  <2>15. CASE OpenConnection(s)
      BY <2>15 DEF TypeOK, Threads, Idle, FlightInv, OpenConnection
  <2>16. CASE OpenInvoke(s)
      BY <2>16 DEF TypeOK, Threads, Idle, FlightInv, OpenInvoke, Trampoline
  <2>17. CASE OpenReturn(s)
      BY <2>17 DEF TypeOK, Threads, Idle, FlightInv, OpenReturn, BrokerCall
  <2> QED
      BY <2>1, <2>2, <2>3, <2>4, <2>5, <2>6, <2>7, <2>8, <2>9, <2>10, <2>11, <2>12, <2>13,
         <2>14, <2>15, <2>16, <2>17 DEF MainStep, IsoStep, AssignerStep, OpenerStep
<1> QED
    BY <1>u, <1>n DEF vars

----------------------------------------------------------------------------
(***************************************************************************)
(* The theorems.                                                           *)
(***************************************************************************)
\* A process starts without any generation.
LEMMA InitInv == Init => Inv
<1> SUFFICES ASSUME Init PROVE Inv
    OBVIOUS
<1> USE ServerAssumption DEF Init, Idle
<1>1. TypeOK
    BY DEF TypeOK, MainStates, IsoStates, Threads
<1>2. PhaseInv /\ HealthInv
    BY DEF PhaseInv, HealthInv, Supervised, TakenOver
<1>3. RootsInv /\ FlightInv
    BY DEF RootsInv, FlightInv, Holding, Stopped
<1> QED
    BY <1>1, <1>2, <1>3 DEF Inv

\* The invariant holds in every reachable state.
LEMMA Invariant == Spec => []Inv
<1>1. Inv /\ [Next]_vars => Inv'
    BY NextType, NextPhase, NextRoots, NextFlight DEF Inv
<1> QED
    BY <1>1, InitInv, PTL DEF Spec

\* Every variable of the embedded lifecycle keeps its type, whatever the
\* goroutines, the native threads and the callers of Start and Stop do.
THEOREM EmbeddedTypeCorrect == Spec => []TypeOK
<1>1. Inv => TypeOK
    BY DEF Inv
<1> QED
    BY <1>1, Invariant, PTL

\* The verified callback of an assignment enters the generation of its own
\* isolate (callbackRoots, go/embedded_ingress.go), although the pointer it
\* goes through is process-wide: an assignment in flight pins roots.current.
THEOREM OwnGeneration == Spec => []VerifiedOwnGeneration
<1>1. Inv => VerifiedOwnGeneration
  <2> SUFFICES ASSUME Inv, NEW s \in Servers PROVE assigner[s].in \in {s, NoServer}
      BY DEF VerifiedOwnGeneration
  <2>1. CASE assigner[s].pc = "callback"
      BY <2>1 DEF Inv, FlightInv
  <2>2. CASE assigner[s].pc # "callback"
      BY <2>2 DEF Inv, TypeOK, Threads
  <2> QED
      BY <2>1, <2>2
<1> QED
    BY <1>1, Invariant, PTL

\* geyser_shutdown is reached only after the drain has left no call in flight
\* and roots.current released (embeddedRunner.run, go/embedded.go).
THEOREM ShutdownAfterDrain == Spec => []DrainedBeforeShutdown
<1>1. Inv => DrainedBeforeShutdown
  <2> SUFFICES ASSUME Inv, NEW s \in Servers,
                      main[s] \in {"health", "shutdown", "awaitRun", "tearDown", "awaitTearDown"}
               PROVE  InFlight(s) = {} /\ current # s
      BY DEF DrainedBeforeShutdown
  <2>1. current # s
      BY DEF Inv, PhaseInv, RootsInv, Holding, Supervised, TakenOver
  <2>2. assigner[s].pc \in {"idle", "captured"}
      BY <2>1 DEF Inv, FlightInv
  <2>3. \A o \in Servers : assigner[o].in # s /\ opener[o].in # s
      BY <2>1, ServerAssumption DEF Inv, FlightInv
  <2> QED
      BY <2>1, <2>2, <2>3 DEF InFlight
<1> QED
    BY <1>1, Invariant, PTL

\* graal_tear_down_isolate comes after every thread that the Go side attached
\* has left the isolate: assignments, the poller and both stopping paths.
THEOREM TornIsolateLeftAlone == Spec => []NoCallIntoTornIsolate
<1>1. Inv => NoCallIntoTornIsolate
  <2> SUFFICES ASSUME Inv, NEW s \in Servers, isolate[s] = "torn"
               PROVE  /\ assigner[s].pc \in {"idle", "captured"}
                      /\ health[s] \in {"none", "done"}
                      /\ main[s] \notin {"unregister", "shutdown"}
                      /\ iso[s] \notin {"unregister", "refused"}
      BY DEF NoCallIntoTornIsolate
  <2>1. iso[s] = "done" /\ main[s] \in {"create", "awaitTearDown", "returned"}
      BY DEF Inv, TypeOK, MainStates, PhaseInv, Supervised
  <2>2. current # s
      BY <2>1 DEF Inv, RootsInv, Holding
  <2> QED
      BY <2>1, <2>2 DEF Inv, FlightInv, HealthInv
<1> QED
    BY <1>1, Invariant, PTL

\* embeddedRunner.run never returns while the isolate it took over still runs
\* Geyser, and never leaves the server reporting healthy.
THEOREM RunNotOrphaned == Spec => []NoOrphanedRun
<1>1. Inv => NoOrphanedRun
    BY DEF Inv, PhaseInv, HealthInv, Supervised, TakenOver, NoOrphanedRun
<1> QED
    BY <1>1, Invariant, PTL
=============================================================================
