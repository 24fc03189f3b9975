------------------------- MODULE EmbeddedLifecycle -------------------------
(***************************************************************************)
(* A Server in embedded mode: the supervisor goroutine (embeddedRunner.run *)
(* in go/embedded.go), the OS-locked isolate goroutine it starts, the      *)
(* health poller, the callback generation with its gate and process-wide   *)
(* callback roots (go/embedded_ingress.go), and the entry points they call *)
(* inside the isolate (GeyserBridge.java, IngressTransport.java).          *)
(*                                                                         *)
(* Several servers may live in one process.  Each has its own isolate and  *)
(* generation; they share roots.current, because the callback pointers     *)
(* handed to native code are process-wide.  The broker is reduced to       *)
(* whether it is active and whether a call into it fails.                  *)
(***************************************************************************)
EXTENDS Integers, FiniteSets

CONSTANTS
    Servers,        \* embedded servers of this process
    NoServer,       \* roots.current = nil
    AttachFails     \* whether graal_attach_thread may fail

ASSUME ServerAssumption == NoServer \notin Servers
ASSUME AttachAssumption == AttachFails \in BOOLEAN

VARIABLES
    main,         \* the goroutine in embeddedRunner.run
    iso,          \* the isolate goroutine it starts
    stopper,      \* a goroutine in Server.Stop
    canceled,     \* the run context is done
    isolate,      \* the GraalVM isolate: "none", "alive" or "torn"
    latch,        \* GeyserBridge.shutdownLatch has been counted down
    running,      \* GeyserBridge.running
    runDone,      \* the runDone channel holds api.run's result
    runExited,    \* the supervisor has taken that result in its select
    createErr,    \* the createErr channel holds an error
    tearDown,     \* tearDownStart: "open", "closed"; then "done"
    gate,         \* generation.accepting
    brokerActive, \* the broker is active for this generation
    fatalWake,    \* the fatalWake channel holds an error
    registered,   \* the IngressTransport holds the callback pointers
    current,      \* roots.current
    assigner,     \* a goroutine in assignNative, with its native thread
    opener,       \* a Geyser thread in IngressTransport.openConnection
    health,       \* the health poller
    healthy       \* embeddedRunner.healthyFlag

lifecycle == <<main, iso, stopper, canceled, isolate, latch, running, runDone,
               runExited, createErr, tearDown>>
ingress == <<gate, brokerActive, fatalWake, registered, current, assigner, opener>>
probe == <<health, healthy>>
vars == <<lifecycle, ingress, probe>>

----------------------------------------------------------------------------
MainStates == {"new", "prepare", "create", "supervise", "gate", "unregister",
               "drain", "health", "shutdown", "awaitRun", "tearDown",
               "awaitTearDown", "returned"}
IsoStates == {"none", "create", "created", "init", "inited", "start",
              "register", "registered", "refused", "refusedGate",
              "refusedDrain", "send", "gate", "unregister", "drain", "abort",
              "run", "boot", "await", "awaitTearDown", "done"}

\* A native thread on its way through the ingress entry points; `in' is the
\* generation whose inFlight group it has joined through a callback.
Threads ==
    [pc : {"idle", "captured", "entered", "attached", "hooked", "pointer", "return"},
     in : {NoServer}]
        \cup [pc : {"callback"}, in : Servers]
Idle == [pc |-> "idle", in |-> NoServer]

Init ==
    /\ main = [s \in Servers |-> "new"]
    /\ iso = [s \in Servers |-> "none"]
    /\ stopper = [s \in Servers |-> "idle"]
    /\ canceled = [s \in Servers |-> FALSE]
    /\ isolate = [s \in Servers |-> "none"]
    /\ latch = [s \in Servers |-> FALSE]
    /\ running = [s \in Servers |-> FALSE]
    /\ runDone = [s \in Servers |-> FALSE]
    /\ runExited = [s \in Servers |-> FALSE]
    /\ createErr = [s \in Servers |-> FALSE]
    /\ tearDown = [s \in Servers |-> "open"]
    /\ gate = [s \in Servers |-> TRUE]
    /\ brokerActive = [s \in Servers |-> FALSE]
    /\ fatalWake = [s \in Servers |-> FALSE]
    /\ registered = [s \in Servers |-> FALSE]
    /\ current = NoServer
    /\ assigner = [s \in Servers |-> Idle]
    /\ opener = [s \in Servers |-> Idle]
    /\ health = [s \in Servers |-> "none"]
    /\ healthy = [s \in Servers |-> FALSE]

Goto(pc, s, l) == pc' = [pc EXCEPT ![s] = l]
Set(v, s) == v' = [v EXCEPT ![s] = TRUE]
Clear(v, s) == v' = [v EXCEPT ![s] = FALSE]

\* generation.inFlight: the assignment that entered the gate, and every
\* callback that entered this generation.
InFlight(s) ==
    (IF assigner[s].pc \in {"idle", "captured"} THEN {} ELSE {<<"assign", s>>})
        \cup {<<"verified", o>> : o \in {o \in Servers : assigner[o].in = s}}
        \cup {<<"open", o>> : o \in {o \in Servers : opener[o].in = s}}

\* The monitor of IngressTransport: openConnection holds it while it invokes
\* the open callback.
MonitorFree(s) == opener[s].pc \in {"idle", "hooked"}

\* GeyserBridge.ingress # null: from geyser_init until geyser_run returns.
TransportLive(s) ==
    iso[s] \notin {"none", "create", "created", "init", "awaitTearDown", "done"}

----------------------------------------------------------------------------
(***************************************************************************)
(* Server.Start, Server.Stop and the caller's context.                     *)
(***************************************************************************)
\* Start: a second call returns ErrAlreadyStarted and changes nothing.
Start(s) ==
    /\ main[s] = "new"
    /\ Goto(main, s, "prepare")
    /\ UNCHANGED <<iso, stopper, canceled, isolate, latch, running, runDone,
                   runExited, createErr, tearDown, ingress, probe>>

\* The context given to Start is canceled, or Stop cancels the run context.
Cancel(s) ==
    /\ main[s] \notin {"new", "returned"}
    /\ ~canceled[s]
    /\ Set(canceled, s)
    /\ UNCHANGED <<main, iso, stopper, isolate, latch, running, runDone,
                   runExited, createErr, tearDown, ingress, probe>>

\* Stop: ErrNotStarted before Start.
Stop(s) ==
    /\ main[s] # "new"
    /\ stopper[s] = "idle"
    /\ Goto(stopper, s, "waiting")
    /\ Set(canceled, s)
    /\ UNCHANGED <<main, iso, isolate, latch, running, runDone, runExited,
                   createErr, tearDown, ingress, probe>>

\* Start has returned and closed s.done.
StopReturns(s) ==
    /\ stopper[s] = "waiting"
    /\ main[s] = "returned"
    /\ Goto(stopper, s, "returned")
    /\ UNCHANGED <<main, iso, canceled, isolate, latch, running, runDone,
                   runExited, createErr, tearDown, ingress, probe>>

----------------------------------------------------------------------------
(***************************************************************************)
(* The isolate goroutine.                                                  *)
(***************************************************************************)
\* An error before the hand-over: the isolate is torn down and the error put
\* into the buffered createErr.
Abandon(s) ==
    /\ isolate' = [isolate EXCEPT ![s] = "torn"]
    /\ Set(createErr, s)
    /\ Goto(iso, s, "done")

IsoCreate(s) ==
    /\ iso[s] = "create"
    /\ \/ /\ isolate' = [isolate EXCEPT ![s] = "alive"]
          /\ Goto(iso, s, "created")
          /\ UNCHANGED createErr
       \/ /\ Set(createErr, s)
          /\ Goto(iso, s, "done")
          /\ UNCHANGED isolate
    /\ UNCHANGED <<main, stopper, canceled, latch, running, runDone, runExited,
                   tearDown, ingress, probe>>

\* The two ctx.Err() checks around geyser_init.
IsoCheck(s) ==
    /\ iso[s] \in {"created", "inited"}
    /\ IF canceled[s]
       THEN Abandon(s)
       ELSE /\ Goto(iso, s, IF iso[s] = "created" THEN "init" ELSE "start")
            /\ UNCHANGED <<isolate, createErr>>
    /\ UNCHANGED <<main, stopper, canceled, latch, running, runDone, runExited,
                   tearDown, ingress, probe>>

IsoInit(s) ==
    /\ iso[s] = "init"
    /\ \/ Goto(iso, s, "inited") /\ UNCHANGED <<isolate, createErr>>
       \/ Abandon(s)
    /\ UNCHANGED <<main, stopper, canceled, latch, running, runDone, runExited,
                   tearDown, ingress, probe>>

\* startIngressGeneration up to the compare-and-swap of roots.current; it
\* fails while another generation of this process is registered.  The broker
\* is active only for a moment then, without a handle to assign, and no call
\* can be in flight.
IsoStart(s) ==
    /\ iso[s] = "start"
    /\ IF current = NoServer
       THEN /\ Set(brokerActive, s)
            /\ current' = s
            /\ Goto(iso, s, "register")
            /\ UNCHANGED <<gate, isolate, createErr>>
       ELSE /\ Clear(gate, s)
            /\ Abandon(s)
            /\ UNCHANGED <<brokerActive, current>>
    /\ UNCHANGED <<main, stopper, canceled, latch, running, runDone, runExited,
                   tearDown, fatalWake, registered, assigner, opener, probe>>

\* setIngressCallbacks(open, verified) on the isolate's own thread.
IsoRegister(s) ==
    /\ iso[s] = "register"
    /\ MonitorFree(s)
    /\ \/ Set(registered, s) /\ Goto(iso, s, "registered")
       \/ UNCHANGED registered /\ Goto(iso, s, "refused")
    /\ UNCHANGED <<main, stopper, canceled, isolate, latch, running, runDone,
                   runExited, createErr, tearDown, gate, brokerActive,
                   fatalWake, current, assigner, opener, probe>>

\* Registration failed: unregister, close the gate, wait for the in-flight
\* calls, deactivate the broker and release roots.current.
IsoRefused(s) ==
    /\ \/ /\ iso[s] = "refused"
          /\ MonitorFree(s)
          /\ Clear(registered, s)
          /\ Goto(iso, s, "refusedGate")
          /\ UNCHANGED <<gate, brokerActive, current>>
       \/ /\ iso[s] = "refusedGate"
          /\ Clear(gate, s)
          /\ Goto(iso, s, "refusedDrain")
          /\ UNCHANGED <<registered, brokerActive, current>>
       \/ /\ iso[s] = "refusedDrain"
          /\ InFlight(s) = {}
          /\ Clear(brokerActive, s)
          /\ current' = IF current = s THEN NoServer ELSE current
          /\ Goto(iso, s, "abort")
          /\ UNCHANGED <<registered, gate>>
    /\ UNCHANGED <<main, stopper, canceled, isolate, latch, running, runDone,
                   runExited, createErr, tearDown, fatalWake, assigner, opener,
                   probe>>

IsoCheckRegistered(s) ==
    /\ iso[s] = "registered"
    /\ Goto(iso, s, IF canceled[s] THEN "gate" ELSE "send")
    /\ UNCHANGED <<main, stopper, canceled, isolate, latch, running, runDone,
                   runExited, createErr, tearDown, ingress, probe>>

\* createDone is unbuffered: the hand-over needs the supervisor's receive.
HandOver(s) ==
    /\ iso[s] = "send"
    /\ main[s] = "create"
    /\ Goto(iso, s, "run")
    /\ Goto(main, s, "supervise")
    /\ health' = [health EXCEPT ![s] = "attach"]
    /\ UNCHANGED <<stopper, canceled, isolate, latch, running, runDone,
                   runExited, createErr, tearDown, ingress, healthy>>

IsoSendCanceled(s) ==
    /\ iso[s] = "send"
    /\ canceled[s]
    /\ Goto(iso, s, "gate")
    /\ UNCHANGED <<main, stopper, canceled, isolate, latch, running, runDone,
                   runExited, createErr, tearDown, ingress, probe>>

\* geyser_run up to the fresh latch.
IsoRun(s) ==
    /\ iso[s] = "run"
    /\ Clear(latch, s)
    /\ Goto(iso, s, "boot")
    /\ UNCHANGED <<main, stopper, canceled, isolate, running, runDone,
                   runExited, createErr, tearDown, ingress, probe>>

\* Fault: the fresh latch is installed only when Geyser is up.
IsoBootFreshLatch(s) ==
    /\ iso[s] = "boot"
    /\ Set(running, s)
    /\ Clear(latch, s)
    /\ Goto(iso, s, "await")
    /\ UNCHANGED <<main, stopper, canceled, isolate, runDone, runExited,
                   createErr, tearDown, ingress, probe>>

IsoBoot(s) ==
    /\ iso[s] = "boot"
    /\ Set(running, s)
    /\ Goto(iso, s, "await")
    /\ UNCHANGED <<main, stopper, canceled, isolate, latch, runDone, runExited,
                   createErr, tearDown, ingress, probe>>

\* geyser_run returns: Geyser failed to boot (or threw), or the latch was
\* counted down and Geyser has shut down.  The finally block unhooks and closes
\* the ingress transport in its monitor, and drops it with its pointers set.
IsoRunReturns(s) ==
    /\ iso[s] = "boot" \/ (iso[s] = "await" /\ latch[s])
    /\ MonitorFree(s)
    /\ Clear(running, s)
    /\ Set(runDone, s)
    /\ Goto(iso, s, "awaitTearDown")
    /\ UNCHANGED <<main, stopper, canceled, isolate, latch, runExited,
                   createErr, tearDown, ingress, probe>>

\* graal_tear_down_isolate waits for Geyser's own threads.
IsoTearDown(s) ==
    /\ iso[s] = "awaitTearDown"
    /\ tearDown[s] = "closed"
    /\ opener[s] = Idle
    /\ isolate' = [isolate EXCEPT ![s] = "torn"]
    /\ tearDown' = [tearDown EXCEPT ![s] = "done"]
    /\ Goto(iso, s, "done")
    /\ UNCHANGED <<main, stopper, canceled, latch, running, runDone, runExited,
                   createErr, ingress, probe>>

----------------------------------------------------------------------------
(***************************************************************************)
(* stopIngressGeneration, run by the supervisor or, before the hand-over,  *)
(* by the isolate goroutine: close the gate, deactivate the broker, clear  *)
(* the native pointers on an attached thread, wait for the in-flight calls *)
(* and release roots.current.                                              *)
(***************************************************************************)
\* An assignment captured between the two is refused by the gate, as one
\* captured before them is: closing and deactivating are one step.
CloseGate(s) ==
    /\ Clear(gate, s)
    /\ Clear(brokerActive, s)
    /\ UNCHANGED <<fatalWake, registered, current, assigner, opener>>

\* setCallbacks is synchronized; without an attached thread it is skipped, and
\* it does nothing once the transport has been dropped.
Unregister(s) ==
    /\ \/ TransportLive(s) /\ MonitorFree(s) /\ Clear(registered, s)
       \/ (AttachFails \/ ~TransportLive(s)) /\ UNCHANGED registered
    /\ UNCHANGED <<gate, brokerActive, fatalWake, current, assigner, opener>>

\* Fault: the in-flight calls are not awaited.
DrainWithoutWaiting(s) ==
    /\ current' = IF current = s THEN NoServer ELSE current
    /\ UNCHANGED <<gate, brokerActive, fatalWake, registered, assigner, opener>>

\* Fault: roots.current is not released.
DrainKeepingRoots(s) ==
    /\ InFlight(s) = {}
    /\ UNCHANGED ingress

Drain(s) ==
    /\ InFlight(s) = {}
    /\ current' = IF current = s THEN NoServer ELSE current
    /\ UNCHANGED <<gate, brokerActive, fatalWake, registered, assigner, opener>>

IsoStop(s) ==
    /\ \/ iso[s] = "gate" /\ CloseGate(s) /\ Goto(iso, s, "unregister")
       \/ iso[s] = "unregister" /\ Unregister(s) /\ Goto(iso, s, "drain")
       \/ iso[s] = "drain" /\ Drain(s) /\ Goto(iso, s, "abort")
    /\ UNCHANGED <<main, stopper, canceled, isolate, latch, running, runDone,
                   runExited, createErr, tearDown, probe>>

IsoAbort(s) ==
    /\ iso[s] = "abort"
    /\ Abandon(s)
    /\ UNCHANGED <<main, stopper, canceled, latch, running, runDone, runExited,
                   tearDown, ingress, probe>>

IsoStep(s) ==
    \/ IsoCreate(s) \/ IsoCheck(s) \/ IsoInit(s) \/ IsoStart(s)
    \/ IsoRegister(s) \/ IsoRefused(s) \/ IsoCheckRegistered(s) \/ HandOver(s)
    \/ IsoSendCanceled(s) \/ IsoRun(s) \/ IsoBoot(s) \/ IsoRunReturns(s)
    \/ IsoTearDown(s) \/ IsoStop(s) \/ IsoAbort(s)

----------------------------------------------------------------------------
(***************************************************************************)
(* The supervisor.                                                         *)
(***************************************************************************)
\* Locating and loading the library and staging the working directory either
\* fails, which ends Start, or leads to the isolate goroutine.
MainPrepare(s) ==
    /\ main[s] = "prepare"
    /\ \/ Goto(main, s, "returned") /\ UNCHANGED iso
       \/ Goto(main, s, "create") /\ Goto(iso, s, "create")
    /\ UNCHANGED <<stopper, canceled, isolate, latch, running, runDone,
                   runExited, createErr, tearDown, ingress, probe>>

\* The first select, besides the hand-over: an error, or the context is done.
MainCreateFails(s) ==
    /\ main[s] = "create"
    /\ createErr[s] \/ canceled[s]
    /\ Goto(main, s, "returned")
    /\ UNCHANGED <<iso, stopper, canceled, isolate, latch, running, runDone,
                   runExited, createErr, tearDown, ingress, probe>>

\* The second select: fatalWake, runDone or the context.
MainWakes(s) ==
    /\ main[s] = "supervise"
    /\ \/ runDone[s] /\ Clear(runDone, s) /\ Set(runExited, s)
       \/ (fatalWake[s] \/ canceled[s]) /\ UNCHANGED <<runDone, runExited>>
    /\ Goto(main, s, "gate")
    /\ UNCHANGED <<iso, stopper, canceled, isolate, latch, running, createErr,
                   tearDown, ingress, probe>>

MainStop(s) ==
    /\ \/ main[s] = "gate" /\ CloseGate(s) /\ Goto(main, s, "unregister")
       \/ main[s] = "unregister" /\ Unregister(s) /\ Goto(main, s, "drain")
       \/ main[s] = "drain" /\ Drain(s) /\ Goto(main, s, "health")
    /\ UNCHANGED <<iso, stopper, canceled, isolate, latch, running, runDone,
                   runExited, createErr, tearDown, probe>>

\* Fault: the poller is canceled but not awaited.
HealthAbandoned(s) == TRUE

\* healthWG.Wait()
HealthJoined(s) == health[s] = "done"

\* cancelHealth and healthWG.Wait.
MainHealth(s) ==
    /\ main[s] = "health"
    /\ HealthJoined(s)
    /\ Goto(main, s, IF runExited[s] THEN "tearDown" ELSE "shutdown")
    /\ UNCHANGED <<iso, stopper, canceled, isolate, latch, running, runDone,
                   runExited, createErr, tearDown, ingress, probe>>

\* geyser_shutdown counts down the latch that is current at that moment.
MainShutdown(s) ==
    /\ main[s] = "shutdown"
    /\ \/ Set(latch, s)
       \/ AttachFails /\ UNCHANGED latch
    /\ Goto(main, s, "awaitRun")
    /\ UNCHANGED <<iso, stopper, canceled, isolate, running, runDone,
                   runExited, createErr, tearDown, ingress, probe>>

MainAwaitRun(s) ==
    /\ main[s] = "awaitRun"
    /\ runDone[s]
    /\ Clear(runDone, s)
    /\ Goto(main, s, "tearDown")
    /\ UNCHANGED <<iso, stopper, canceled, isolate, latch, running, runExited,
                   createErr, tearDown, ingress, probe>>

MainTearDown(s) ==
    /\ main[s] = "tearDown"
    /\ tearDown' = [tearDown EXCEPT ![s] = "closed"]
    /\ Goto(main, s, "awaitTearDown")
    /\ UNCHANGED <<iso, stopper, canceled, isolate, latch, running, runDone,
                   runExited, createErr, ingress, probe>>

\* Fault: the result of the tear-down is not awaited.
MainReturnsEarly(s) ==
    /\ main[s] = "awaitTearDown"
    /\ Goto(main, s, "returned")
    /\ Clear(healthy, s)
    /\ UNCHANGED <<iso, stopper, canceled, isolate, latch, running, runDone,
                   runExited, createErr, tearDown, ingress, health>>

\* The deferred healthyFlag.Store(false) runs on return.
MainReturns(s) ==
    /\ main[s] = "awaitTearDown"
    /\ tearDown[s] = "done"
    /\ Goto(main, s, "returned")
    /\ Clear(healthy, s)
    /\ UNCHANGED <<iso, stopper, canceled, isolate, latch, running, runDone,
                   runExited, createErr, tearDown, ingress, health>>

MainStep(s) ==
    \/ MainPrepare(s) \/ MainCreateFails(s) \/ MainWakes(s) \/ MainStop(s)
    \/ MainHealth(s) \/ MainShutdown(s) \/ MainAwaitRun(s) \/ MainTearDown(s)
    \/ MainReturns(s)

----------------------------------------------------------------------------
(***************************************************************************)
(* Native threads in the ingress entry points.                             *)
(***************************************************************************)
\* callbackRoots: the trampoline loads roots.current and enters its gate.
\* The result is the thread's record inside the callback, or `back' when there
\* is no generation or its gate is closed.
Trampoline(back) ==
    IF current # NoServer /\ gate[current]
    THEN [pc |-> "callback", in |-> current]
    ELSE back

\* The broker call of a callback that is inside generation g: it succeeds, or
\* its error fails the generation (callbackGeneration.fail).  It always fails
\* once the broker has been deactivated.
BrokerCall(g) ==
    \/ brokerActive[g] /\ UNCHANGED <<brokerActive, gate, fatalWake>>
    \/ Clear(brokerActive, g) /\ Clear(gate, g) /\ Set(fatalWake, g)

\* broker.assign has read assignNative under b.mu and released it.
AssignCapture(s) ==
    /\ assigner[s].pc = "idle"
    /\ brokerActive[s]
    /\ assigner' = [assigner EXCEPT ![s].pc = "captured"]
    /\ UNCHANGED <<lifecycle, gate, brokerActive, fatalWake, registered,
                   current, opener, probe>>

\* callbackGeneration.enter
MayEnter(s) == gate[s]

AssignEnter(s) ==
    /\ assigner[s].pc = "captured"
    /\ assigner' = [assigner EXCEPT ![s].pc =
                      IF MayEnter(s) THEN "entered" ELSE "idle"]
    /\ UNCHANGED <<lifecycle, gate, brokerActive, fatalWake, registered,
                   current, opener, probe>>

AssignAttach(s) ==
    /\ assigner[s].pc = "entered"
    /\ \/ assigner' = [assigner EXCEPT ![s].pc = "attached"]
       \/ AttachFails /\ assigner' = [assigner EXCEPT ![s] = Idle]
    /\ UNCHANGED <<lifecycle, gate, brokerActive, fatalWake, registered,
                   current, opener, probe>>

\* IngressTransport.assign and publishVerified up to the read of the callback
\* pointer, in the monitor; the pointer is invoked outside it.
NativeAssign(s) ==
    /\ assigner[s].pc = "attached"
    /\ MonitorFree(s)
    /\ assigner' = [assigner EXCEPT ![s].pc =
                      IF TransportLive(s) /\ registered[s] THEN "pointer" ELSE "return"]
    /\ UNCHANGED <<lifecycle, gate, brokerActive, fatalWake, registered,
                   current, opener, probe>>

VerifiedInvoke(s) ==
    /\ assigner[s].pc = "pointer"
    /\ assigner' = [assigner EXCEPT ![s] =
                      Trampoline([pc |-> "return", in |-> NoServer])]
    /\ UNCHANGED <<lifecycle, gate, brokerActive, fatalWake, registered,
                   current, opener, probe>>

\* Fault: inFlight.Done is missing.
VerifiedReturnWithoutDone(s) ==
    /\ assigner[s].pc = "callback"
    /\ BrokerCall(assigner[s].in)
    /\ assigner' = [assigner EXCEPT ![s].pc = "return"]
    /\ UNCHANGED <<lifecycle, registered, current, opener, probe>>

VerifiedReturn(s) ==
    /\ assigner[s].pc = "callback"
    /\ BrokerCall(assigner[s].in)
    /\ assigner' = [assigner EXCEPT ![s] = [pc |-> "return", in |-> NoServer]]
    /\ UNCHANGED <<lifecycle, registered, current, opener, probe>>

\* The thread detaches and leaves the in-flight group.
AssignReturn(s) ==
    /\ assigner[s].pc = "return"
    /\ assigner' = [assigner EXCEPT ![s] = Idle]
    /\ UNCHANGED <<lifecycle, gate, brokerActive, fatalWake, registered,
                   current, opener, probe>>

AssignerStep(s) ==
    \/ AssignEnter(s) \/ AssignAttach(s) \/ NativeAssign(s)
    \/ VerifiedInvoke(s) \/ VerifiedReturn(s) \/ AssignReturn(s)

\* A Geyser thread reads VerifiedIngressHooks.sink without its lock.
OpenHook(s) ==
    /\ iso[s] \in {"boot", "await"}
    /\ opener[s] = Idle
    /\ opener' = [opener EXCEPT ![s].pc = "hooked"]
    /\ UNCHANGED <<lifecycle, gate, brokerActive, fatalWake, registered,
                   current, assigner, probe>>

\* openConnection takes the monitor and reads the pointer, which close() has
\* left in place.
OpenConnection(s) ==
    /\ opener[s].pc = "hooked"
    /\ opener' = [opener EXCEPT ![s].pc = IF registered[s] THEN "pointer" ELSE "idle"]
    /\ UNCHANGED <<lifecycle, gate, brokerActive, fatalWake, registered,
                   current, assigner, probe>>

OpenInvoke(s) ==
    /\ opener[s].pc = "pointer"
    /\ opener' = [opener EXCEPT ![s] = Trampoline(Idle)]
    /\ UNCHANGED <<lifecycle, gate, brokerActive, fatalWake, registered,
                   current, assigner, probe>>

OpenReturn(s) ==
    /\ opener[s].pc = "callback"
    /\ BrokerCall(opener[s].in)
    /\ opener' = [opener EXCEPT ![s] = Idle]
    /\ UNCHANGED <<lifecycle, registered, current, assigner, probe>>

OpenerStep(s) == OpenConnection(s) \/ OpenInvoke(s) \/ OpenReturn(s)

----------------------------------------------------------------------------
(***************************************************************************)
(* pollHealth.                                                             *)
(***************************************************************************)
HealthAttach(s) ==
    /\ health[s] = "attach"
    /\ \/ health' = [health EXCEPT ![s] = "poll"]
       \/ AttachFails /\ health' = [health EXCEPT ![s] = "done"]
    /\ UNCHANGED <<lifecycle, ingress, healthy>>

HealthUp(s) ==
    /\ health[s] = "poll"
    /\ running[s]
    /\ Set(healthy, s)
    /\ health' = [health EXCEPT ![s] = "done"]
    /\ UNCHANGED <<lifecycle, ingress>>

\* The health context is done: canceled with the run context, or by the
\* supervisor once the ingress is drained.
HealthCanceled(s) ==
    /\ health[s] = "poll"
    /\ canceled[s] \/ main[s] \notin {"supervise", "gate", "unregister", "drain"}
    /\ health' = [health EXCEPT ![s] = "done"]
    /\ UNCHANGED <<lifecycle, ingress, healthy>>

HealthStep(s) == HealthAttach(s) \/ HealthUp(s) \/ HealthCanceled(s)

----------------------------------------------------------------------------
Next ==
    \E s \in Servers :
        \/ Start(s) \/ Cancel(s) \/ Stop(s) \/ StopReturns(s)
        \/ MainStep(s) \/ IsoStep(s)
        \/ AssignCapture(s) \/ AssignerStep(s)
        \/ OpenHook(s) \/ OpenerStep(s)
        \/ HealthStep(s)

\* Goroutines and native threads keep running; the two that need the
\* transport's monitor get it although connections keep opening.
Fairness ==
    \A s \in Servers :
        /\ SF_vars(MainStep(s))
        /\ SF_vars(IsoStep(s))
        /\ SF_vars(AssignerStep(s))
        /\ WF_vars(OpenerStep(s))
        /\ WF_vars(HealthStep(s))
        /\ WF_vars(StopReturns(s))

Spec == Init /\ [][Next]_vars /\ Fairness

----------------------------------------------------------------------------
(***************************************************************************)
(* Properties.                                                             *)
(***************************************************************************)
\* Every variable has its type.
TypeOK ==
    /\ main \in [Servers -> MainStates]
    /\ iso \in [Servers -> IsoStates]
    /\ stopper \in [Servers -> {"idle", "waiting", "returned"}]
    /\ canceled \in [Servers -> BOOLEAN]
    /\ isolate \in [Servers -> {"none", "alive", "torn"}]
    /\ latch \in [Servers -> BOOLEAN]
    /\ running \in [Servers -> BOOLEAN]
    /\ runDone \in [Servers -> BOOLEAN]
    /\ runExited \in [Servers -> BOOLEAN]
    /\ createErr \in [Servers -> BOOLEAN]
    /\ tearDown \in [Servers -> {"open", "closed", "done"}]
    /\ gate \in [Servers -> BOOLEAN]
    /\ brokerActive \in [Servers -> BOOLEAN]
    /\ fatalWake \in [Servers -> BOOLEAN]
    /\ registered \in [Servers -> BOOLEAN]
    /\ current \in Servers \cup {NoServer}
    /\ assigner \in [Servers -> Threads]
    /\ opener \in [Servers -> Threads]
    /\ health \in [Servers -> {"none", "attach", "poll", "done"}]
    /\ healthy \in [Servers -> BOOLEAN]

\* The verified callback of an assignment only ever enters the generation of
\* its own isolate, although the callback pointers are process-wide and the
\* pointer is invoked outside the transport's monitor.
VerifiedOwnGeneration ==
    \A s \in Servers : assigner[s].in \in {s, NoServer}

\* Isolate shutdown begins only when no call of the generation is in flight
\* and roots.current no longer names it (the comment at embedded.go:193-195).
DrainedBeforeShutdown ==
    \A s \in Servers :
        main[s] \in {"health", "shutdown", "awaitRun", "tearDown", "awaitTearDown"}
            => InFlight(s) = {} /\ current # s

\* No thread that the Go side attached is inside, or about to call into, an
\* isolate that was torn down.
NoCallIntoTornIsolate ==
    \A s \in Servers :
        isolate[s] = "torn" =>
            /\ assigner[s].pc \in {"idle", "captured"}
            /\ health[s] \in {"none", "done"}
            /\ main[s] \notin {"unregister", "shutdown"}
            /\ iso[s] \notin {"unregister", "refused"}

\* embeddedRunner.run never returns while the isolate it took over still runs
\* Geyser, and never leaves the server reporting healthy.
NoOrphanedRun ==
    \A s \in Servers :
        main[s] = "returned" =>
            /\ iso[s] \notin {"run", "boot", "await", "awaitTearDown"}
            /\ ~healthy[s]

\* However the start is abandoned, the isolate goroutine ends, tears its
\* isolate down and releases the process-wide callback roots.
IsolateReleased ==
    \A s \in Servers :
        main[s] = "returned" ~>
            iso[s] \in {"none", "done"} /\ isolate[s] # "alive" /\ current # s

\* A shutdown that reaches Geyser after geyser_run installed its latch ends
\* the run and lets Start return.
ShutdownHeard ==
    \A s \in Servers :
        main[s] = "awaitRun" /\ iso[s] \in {"boot", "await"} /\ latch[s]
            ~> main[s] = "returned"

\* Stop returns (server.go: "Returns when the server has stopped or ctx is
\* canceled"); GeyserBridge.shutdown says a call before run is harmless.
StopCompletes ==
    \A s \in Servers : stopper[s] = "waiting" ~> stopper[s] = "returned"
============================================================================
