--------------------------- MODULE IngressBroker ---------------------------
(***************************************************************************)
(* The verified-ingress broker of go/ingress.go.                           *)
(*                                                                         *)
(* The native side (an embedded isolate or a child process) reports opened *)
(* Bedrock connections; Gate assigns a correlation to one of them; the     *)
(* native side later delivers the verified frame of that correlation,      *)
(* which the broker publishes on a bounded queue.  All broker state is     *)
(* guarded by b.mu, so every critical section is one action; whatever the  *)
(* code does before taking the lock or after releasing it is a step of its *)
(* own, and any number of other goroutines may run in between.             *)
(*                                                                         *)
(* An expiry timer lives exactly as long as its map entry: every deletion  *)
(* of an entry stops the timer, which is lost once the timer has started   *)
(* its goroutine.  So an entry carries "fired", and `expiring' holds the   *)
(* goroutines that have started and still wait for the lock.               *)
(*                                                                         *)
(* assign and expire keep an expiry in full; the native side knows it as   *)
(* milliseconds, so deliver compares, checks and publishes what is left of *)
(* it then.  A millisecond has Milli instants of the clock.                *)
(***************************************************************************)
EXTENDS Integers, Sequences, FiniteSets, Functions

CONSTANTS
    Handles,          \* native connection handles
    NoHandle,         \* the zero handle, which no connection has
    Correlations,     \* correlation ids
    NoCorrelation,    \* the all-zero correlation id
    Callers,          \* goroutines in AssignConnection
    Deliverers,       \* goroutines delivering a frame
    MaxGeneration,    \* bound: number of native generations
    MaxTime,          \* bound: last instant of the clock
    Milli,            \* instants of the clock in a millisecond
    MaxLifetime,      \* geyserliteabi.MaxIngressLifetime
    HandleTTL,        \* ingressHandleTTL
    MaxHandles,       \* maxIngressHandles
    Capacity          \* capacity of the two queues

ASSUME HandleAssumption == NoHandle \notin Handles
ASSUME CorrelationAssumption == NoCorrelation \notin Correlations
ASSUME BoundAssumption ==
    /\ MaxGeneration \in Nat
    /\ MaxTime \in Nat
    /\ Milli \in Nat \ {0}
    /\ MaxLifetime \in Nat
    /\ HandleTTL \in Nat
    /\ MaxHandles \in Nat \ {0}
    /\ Capacity \in Nat \ {0}

VARIABLES
    active,         \* b.active
    generation,     \* b.generation, 0 before the first activation
    assignNative,   \* b.assignNative: the generation it sends to, 0 for nil
    fatal,          \* b.fatal: the generation it reports to, 0 for nil
    handles,        \* b.handles: open handle -> instant it was opened
    correlations,   \* b.correlations: correlation -> pending assignment
    opened,         \* b.opened, the queue of ConnectionOpen
    verified,       \* b.verified, the queue of VerifiedFrame
    expiring,       \* started expire goroutines waiting for b.mu
    fatalCalls,     \* generations whose fatal callback is about to run
    caller,         \* the goroutines in assign
    deliverer,      \* the goroutines in deliver
    clock,          \* b.now()
    reported,       \* history: handles the native side reported as open
    granted,        \* history: assignments the broker admitted
    published       \* history: the frames published, in order

state == <<active, generation, assignNative, fatal, handles, correlations>>
queues == <<opened, verified>>
history == <<reported, granted, published>>
vars == <<state, queues, expiring, fatalCalls, caller, deliverer, clock, history>>

----------------------------------------------------------------------------
Generations == 1 .. MaxGeneration
Instants == 0 .. MaxTime + MaxLifetime + 1
\* time.Time.UnixMilli() cuts the rest of the millisecond off; time.UnixMilli
\* makes an instant of what is left.
UnixMilli(t) == t \div Milli
TimeOfMilli(ms) == ms * Milli
Milliseconds == {UnixMilli(t) : t \in Instants}

Results == {"none", "ok", "Generation", "Closed", "Duplicate", "Lifetime",
            "Mismatch", "Rejected"}

Pending == [handle : Handles, expiresAt : Instants, fired : BOOLEAN]
Opens == [generation : Generations, handle : Handles]
Frames == [generation : Generations, handle : Handles,
           correlation : Correlations, expiresAt : Instants]
Publications ==
    [handle : Handles, correlation : Correlations, expiresAt : Instants]

\* A goroutine in assign: "lock" waits for b.mu, "native" is inside
\* assignNative(a), "close" is about to call closeHandle.
CallerRecords ==
    [pc : {"idle", "lock", "native", "close"},
     generation : 0 .. MaxGeneration,
     handle : Handles \cup {NoHandle},
     correlation : Correlations \cup {NoCorrelation},
     expiresAt : Instants,
     native : 0 .. MaxGeneration,
     result : Results]

\* A goroutine in deliver: "check" has looked the expiry up for an IPC frame,
\* "lock" waits for b.mu, "close" is about to call closeCorrelation.
DelivererRecords ==
    [pc : {"idle", "check", "lock", "close"},
     generation : 0 .. MaxGeneration,
     correlation : Correlations \cup {NoCorrelation},
     expiresUnixMS : Milliseconds]

\* A goroutine with no assignment of its own, at pc with this result.
CallerAt(pc, g, h, result) ==
    [pc |-> pc, generation |-> g, handle |-> h, correlation |-> NoCorrelation,
     expiresAt |-> 0, native |-> 0, result |-> result]
IdleCaller == CallerAt("idle", 0, NoHandle, "none")
IdleDeliverer ==
    [pc |-> "idle", generation |-> 0, correlation |-> NoCorrelation,
     expiresUnixMS |-> 0]

\* A broker with nothing registered: newIngressBroker.
Empty == [x \in {} |-> x]
Without(f, S) == Restrict(f, DOMAIN f \ S)
With(f, x, v) == [y \in DOMAIN f \cup {x} |-> IF y = x THEN v ELSE f[y]]

Init ==
    /\ active = FALSE
    /\ generation = 0
    /\ assignNative = 0
    /\ fatal = 0
    /\ handles = Empty
    /\ correlations = Empty
    /\ opened = <<>>
    /\ verified = <<>>
    /\ expiring = {}
    /\ fatalCalls = {}
    /\ caller = [c \in Callers |-> IdleCaller]
    /\ deliverer = [d \in Deliverers |-> IdleDeliverer]
    /\ clock = 0
    /\ reported = {}
    /\ granted = {}
    /\ published = <<>>

----------------------------------------------------------------------------
(***************************************************************************)
(* Activation, deactivation and failure of a generation.                   *)
(***************************************************************************)
\* Fault: the verified queue is not drained.
clearLockedKeepingVerified ==
    /\ handles' = Empty
    /\ correlations' = Empty
    /\ opened' = <<>>
    /\ UNCHANGED verified

clearLocked ==
    /\ handles' = Empty
    /\ correlations' = Empty
    /\ opened' = <<>>
    /\ verified' = <<>>

\* The owners number generations with one counter and deactivate (or fail)
\* the previous one before they activate the next.
Activate ==
    /\ generation < MaxGeneration
    /\ fatal = 0
    /\ active' = TRUE
    /\ generation' = generation + 1
    /\ assignNative' = generation + 1
    /\ fatal' = generation + 1
    /\ clearLocked
    /\ reported' = {} /\ granted' = {} /\ published' = <<>>
    /\ UNCHANGED <<expiring, fatalCalls, caller, deliverer, clock>>

\* deactivate and failGeneration have the same effect.
CloseGeneration(g) ==
    IF g = generation
    THEN /\ active' = FALSE
         /\ assignNative' = 0
         /\ fatal' = 0
         /\ clearLocked
         /\ UNCHANGED generation
    ELSE UNCHANGED <<state, queues>>

Deactivate ==
    /\ fatal # 0
    /\ CloseGeneration(generation)
    /\ UNCHANGED <<expiring, fatalCalls, caller, deliverer, clock, history>>

\* Fault: the owner is never told.
failLockedSilently ==
    /\ active' = FALSE
    /\ assignNative' = 0
    /\ clearLocked
    /\ UNCHANGED <<generation, fatal, fatalCalls>>

\* failLocked keeps b.fatal; its result is called once b.mu is released.
failLocked ==
    /\ active' = FALSE
    /\ assignNative' = 0
    /\ clearLocked
    /\ fatalCalls' = IF fatal # 0 THEN fatalCalls \cup {fatal} ELSE fatalCalls
    /\ UNCHANGED <<generation, fatal>>

\* fatal(err): the owner of generation g closes it in the broker.
FatalCall(g) ==
    /\ g \in fatalCalls
    /\ fatalCalls' = fatalCalls \ {g}
    /\ CloseGeneration(g)
    /\ UNCHANGED <<expiring, caller, deliverer, clock, history>>

----------------------------------------------------------------------------
(***************************************************************************)
(* open: the native side reports a connection.  A call for another         *)
(* generation or on an inactive broker returns an error and changes        *)
(* nothing, so it is not an action.                                        *)
(***************************************************************************)
Assigning == {correlations[k].handle : k \in DOMAIN correlations}

\* The select that sends on a queue or takes its default branch.
\* Fault: one slot too many.
RoomBeyond(q) == Len(q) <= Capacity
Room(q) == Len(q) < Capacity

\* Unassigned handles that outlived the TTL.
\* Fault: handles in the middle of an assignment are not spared.
StaleOrAssigning == {h \in DOMAIN handles : clock - handles[h] > HandleTTL}
Stale == {h \in DOMAIN handles \ Assigning : clock - handles[h] > HandleTTL}

\* The unassigned handles that S keeps and none of S's is older than: the
\* code evicts one of them, whichever its map iteration meets first.
Oldest(S) ==
    {h \in S \ Assigning : \A o \in S \ Assigning : handles[h] <= handles[o]}

\* Fault: the limit is checked after one handle too many.
SurvivorsBeyond ==
    LET fresh == DOMAIN handles \ Stale
    IN  IF Cardinality(fresh) <= MaxHandles
        THEN {fresh}
        ELSE {fresh \ {h} : h \in Oldest(fresh)}

\* The sets of handles evictStaleHandlesLocked may leave; none when the map
\* is full of handles that are being assigned.
Survivors ==
    LET fresh == DOMAIN handles \ Stale
    IN  IF Cardinality(fresh) < MaxHandles
        THEN {fresh}
        ELSE {fresh \ {h} : h \in Oldest(fresh)}

\* A malformed report (zero handle, or one that is open already) is fatal.
OpenInvalid(h) ==
    /\ active
    /\ h = NoHandle \/ h \in DOMAIN handles
    /\ failLocked
    /\ UNCHANGED <<expiring, caller, deliverer, clock, history>>

OpenAccepted(h) ==
    /\ active
    /\ h \in Handles \ reported
    /\ Room(opened)
    /\ \E S \in Survivors : handles' = With(Restrict(handles, S), h, clock)
    /\ opened' = Append(opened, [generation |-> generation, handle |-> h])
    /\ reported' = reported \cup {h}
    /\ UNCHANGED <<active, generation, assignNative, fatal, correlations,
                   verified, expiring, fatalCalls, caller, deliverer, clock,
                   granted, published>>

OpenOverflow(h) ==
    /\ active
    /\ h \in Handles \ reported
    /\ Survivors = {} \/ ~Room(opened)
    /\ failLocked
    /\ reported' = reported \cup {h}
    /\ UNCHANGED <<expiring, caller, deliverer, clock, granted, published>>

Open(h) == OpenInvalid(h) \/ OpenAccepted(h) \/ OpenOverflow(h)

----------------------------------------------------------------------------
(***************************************************************************)
(* assign: Gate binds correlation k to handle h until instant e.           *)
(***************************************************************************)
ValidLifetime(e) == e > clock /\ e - clock <= MaxLifetime

PendingOf(h) == {k \in DOMAIN correlations : correlations[k].handle = h}

\* Fault: a caller of an earlier generation closes a handle of this one.
closeHandleAnyGeneration(g, h) ==
    /\ handles' = Without(handles, {h})
    /\ correlations' = Without(correlations, PendingOf(h))

closeHandle(g, h) ==
    IF g = generation
    THEN /\ handles' = Without(handles, {h})
         /\ correlations' = Without(correlations, PendingOf(h))
    ELSE UNCHANGED <<handles, correlations>>

\* Lifetime and zero-correlation checks, on the clock, before b.mu is taken.
AssignBegin(c, g, h, k, e) ==
    /\ caller[c].pc = "idle"
    /\ LET result == IF ~ValidLifetime(e) THEN "Lifetime"
                     ELSE IF k = NoCorrelation THEN "Mismatch"
                     ELSE "none"
       IN  caller' = [caller EXCEPT ![c] =
             IF result = "none"
             THEN [pc |-> "lock", generation |-> g, handle |-> h,
                   correlation |-> k, expiresAt |-> e, native |-> 0,
                   result |-> result]
             ELSE CallerAt("close", g, h, result)]
    /\ UNCHANGED <<state, queues, expiring, fatalCalls, deliverer, clock, history>>

\* assign returns; the record keeps what a refused call was about.
Return(c, result) ==
    caller' = [caller EXCEPT ![c] =
                 IF result = "ok" \/ @.generation # generation
                 THEN IdleCaller
                 ELSE CallerAt("idle", @.generation, @.handle, result)]

\* Whether the locked part of assign gets past its first three checks.
Assignable(a) ==
    a.generation = generation /\ active /\ a.handle \in DOMAIN handles

AssignRefused(c) ==
    /\ caller[c].pc = "lock"
    /\ ~Assignable(caller[c])
    /\ Return(c, IF caller[c].generation # generation
                 THEN "Generation" ELSE "Closed")
    /\ UNCHANGED <<state, queues, expiring, fatalCalls, deliverer, clock, history>>

\* Fault: only the owner of the duplicate correlation is closed.
clearAssignmentOwner(h, k) ==
    LET owner == {correlations[x].handle : x \in {k} \cap DOMAIN correlations}
    IN  /\ handles' = Without(handles, owner)
        /\ correlations' = Without(correlations, {k} \cup PendingOf(h))

\* clearAssignmentLocked: the handle, the pending entry of k with its handle,
\* and every other pending entry of the handle are removed.
clearAssignmentLocked(h, k) ==
    LET owner == {correlations[x].handle : x \in {k} \cap DOMAIN correlations}
    IN  /\ handles' = Without(handles, {h} \cup owner)
        /\ correlations' = Without(correlations, {k} \cup PendingOf(h))

\* The correlation is pending already, or else the handle is.
AssignDuplicate(c) ==
    LET a == caller[c]
    IN  /\ a.pc = "lock"
        /\ Assignable(a)
        /\ \/ /\ a.correlation \in DOMAIN correlations
              /\ clearAssignmentLocked(a.handle, a.correlation)
           \/ /\ a.correlation \notin DOMAIN correlations
              /\ \E k \in PendingOf(a.handle) :
                     clearAssignmentLocked(a.handle, k)
        /\ Return(c, "Duplicate")
        /\ UNCHANGED <<active, generation, assignNative, fatal, queues,
                       expiring, fatalCalls, deliverer, clock, history>>

\* The pending entry of assignment a, with its timer running.
\* Fault: the timer is never armed.
NewPendingUnarmed(a) ==
    [handle |-> a.handle, expiresAt |-> a.expiresAt, fired |-> TRUE]
NewPending(a) ==
    [handle |-> a.handle, expiresAt |-> a.expiresAt, fired |-> FALSE]

\* The entry is inserted with its timer and assignNative is read under b.mu;
\* the call itself happens after the unlock.
AssignPending(c) ==
    LET a == caller[c]
    IN  /\ a.pc = "lock"
        /\ Assignable(a)
        /\ a.correlation \notin DOMAIN correlations
        /\ PendingOf(a.handle) = {}
        /\ correlations' = With(correlations, a.correlation, NewPending(a))
        /\ caller' = [caller EXCEPT ![c] =
                        [pc |-> "native", generation |-> a.generation,
                         handle |-> a.handle, correlation |-> a.correlation,
                         expiresAt |-> a.expiresAt, native |-> assignNative,
                         result |-> a.result]]
        /\ granted' = granted \cup
             {[generation |-> generation, handle |-> a.handle,
               correlation |-> a.correlation, expiresAt |-> a.expiresAt]}
        /\ UNCHANGED <<active, generation, assignNative, fatal, handles,
                       queues, expiring, fatalCalls, deliverer, clock,
                       reported, published>>

\* assignNative returned AssignmentOK.
AssignOK(c) ==
    /\ caller[c].pc = "native"
    /\ Return(c, "ok")
    /\ UNCHANGED <<state, queues, expiring, fatalCalls, deliverer, clock, history>>

\* assignNative returned another code: the handle is closed next.
AssignRejected(c) ==
    /\ caller[c].pc = "native"
    /\ caller' = [caller EXCEPT ![c] =
                    CallerAt("close", @.generation, @.handle, "Rejected")]
    /\ UNCHANGED <<state, queues, expiring, fatalCalls, deliverer, clock, history>>

AssignClose(c) ==
    /\ caller[c].pc = "close"
    /\ closeHandle(caller[c].generation, caller[c].handle)
    /\ Return(c, caller[c].result)
    /\ UNCHANGED <<active, generation, assignNative, fatal, queues, expiring,
                   fatalCalls, deliverer, clock, history>>

AssignStep(c) ==
    \/ AssignRefused(c) \/ AssignDuplicate(c) \/ AssignPending(c)
    \/ AssignOK(c) \/ AssignRejected(c) \/ AssignClose(c)

----------------------------------------------------------------------------
(***************************************************************************)
(* expire: the timer of a pending assignment.                              *)
(***************************************************************************)
\* The timer was armed with a duration measured before b.mu was taken, so it
\* fires at the expiry or later and starts its goroutine.
TimerFires(k) ==
    /\ k \in DOMAIN correlations
    /\ ~correlations[k].fired
    /\ clock >= correlations[k].expiresAt
    /\ correlations' = [correlations EXCEPT ![k].fired = TRUE]
    /\ expiring' = expiring \cup
         {[generation |-> generation, handle |-> correlations[k].handle,
           correlation |-> k, expiresAt |-> correlations[k].expiresAt]}
    /\ UNCHANGED <<active, generation, assignNative, fatal, handles, queues,
                   fatalCalls, caller, deliverer, clock, history>>

\* Fault: any assignment of the correlation is taken for x's own.
MatchesCorrelation(x) ==
    x.generation = generation /\ x.correlation \in DOMAIN correlations

\* Whether the entry of x's correlation is the assignment x was started for.
Matches(x) ==
    /\ x.generation = generation
    /\ x.correlation \in DOMAIN correlations
    /\ correlations[x.correlation].handle = x.handle
    /\ correlations[x.correlation].expiresAt = x.expiresAt

Expire(x) ==
    /\ x \in expiring
    /\ expiring' = expiring \ {x}
    /\ IF Matches(x)
       THEN /\ correlations' = Without(correlations, {x.correlation})
            /\ handles' = Without(handles, {x.handle})
       ELSE UNCHANGED <<correlations, handles>>
    /\ UNCHANGED <<active, generation, assignNative, fatal, queues, fatalCalls,
                   caller, deliverer, clock, history>>

----------------------------------------------------------------------------
(***************************************************************************)
(* deliver: the native side hands over the verified frame of k.            *)
(***************************************************************************)
\* The checks before b.mu: frame length, then lifetime on the clock.
Checked(g, k, ms, frameOK) ==
    IF frameOK /\ ValidLifetime(TimeOfMilli(ms))
    THEN [pc |-> "lock", generation |-> g, correlation |-> k,
          expiresUnixMS |-> ms]
    ELSE [pc |-> "close", generation |-> g, correlation |-> k,
          expiresUnixMS |-> 0]

\* deliverCallback: the embedded native side names the expiry itself.
DeliverCallback(d, g, k, ms, frameOK) ==
    /\ deliverer[d].pc = "idle"
    /\ deliverer' = [deliverer EXCEPT ![d] = Checked(g, k, ms, frameOK)]
    /\ UNCHANGED <<state, queues, expiring, fatalCalls, caller, clock, history>>

\* deliverIPCFrame: looks the expiry up under b.mu and releases it again.  A
\* miss, or another handle, returns ErrIngressMismatch and changes nothing.
DeliverIPCFrame(d, g, h, k) ==
    /\ deliverer[d].pc = "idle"
    /\ k \in PendingOf(h)
    /\ deliverer' = [deliverer EXCEPT ![d] =
                       [pc |-> "check", generation |-> g, correlation |-> k,
                        expiresUnixMS |-> UnixMilli(correlations[k].expiresAt)]]
    /\ UNCHANGED <<state, queues, expiring, fatalCalls, caller, clock, history>>

DeliverCheck(d, frameOK) ==
    LET r == deliverer[d]
    IN  /\ r.pc = "check"
        /\ deliverer' = [deliverer EXCEPT ![d] =
                           Checked(r.generation, r.correlation,
                                   r.expiresUnixMS, frameOK)]
        /\ UNCHANGED <<state, queues, expiring, fatalCalls, caller, clock, history>>

Deliverable(r) ==
    r.generation = generation /\ active /\ r.correlation \in DOMAIN correlations

DeliverRefused(d) ==
    /\ deliverer[d].pc = "lock"
    /\ ~Deliverable(deliverer[d])
    /\ deliverer' = [deliverer EXCEPT ![d] = IdleDeliverer]
    /\ UNCHANGED <<state, queues, expiring, fatalCalls, caller, clock, history>>

\* Fault: nothing leaves either map.
ConsumeNothing(k) == k \in DOMAIN correlations /\ UNCHANGED <<handles, correlations>>

\* The pending assignment of k, with its handle, leaves both maps.
Consume(k) ==
    /\ handles' = Without(handles, {correlations[k].handle})
    /\ correlations' = Without(correlations, {k})

\* Fault: any expiry is accepted.
AnyExpiry(r) == TRUE

\* The delivered expiry is, to the millisecond, the one the assignment was
\* made with.
SameExpiry(r) ==
    UnixMilli(correlations[r.correlation].expiresAt) = r.expiresUnixMS

DeliverMismatch(d) ==
    LET r == deliverer[d]
    IN  /\ r.pc = "lock"
        /\ Deliverable(r)
        /\ ~SameExpiry(r)
        /\ Consume(r.correlation)
        /\ deliverer' = [deliverer EXCEPT ![d] = IdleDeliverer]
        /\ UNCHANGED <<active, generation, assignNative, fatal, queues,
                       expiring, fatalCalls, caller, clock, history>>

DeliverPublish(d) ==
    LET r == deliverer[d]
        frame == [generation |-> r.generation,
                  handle |-> correlations[r.correlation].handle,
                  correlation |-> r.correlation,
                  expiresAt |-> TimeOfMilli(r.expiresUnixMS)]
    IN  /\ r.pc = "lock"
        /\ Deliverable(r)
        /\ SameExpiry(r)
        /\ Room(verified)
        /\ Consume(r.correlation)
        /\ verified' = Append(verified, frame)
        /\ published' = Append(published,
             [handle |-> frame.handle, correlation |-> frame.correlation,
              expiresAt |-> frame.expiresAt])
        /\ deliverer' = [deliverer EXCEPT ![d] = IdleDeliverer]
        /\ UNCHANGED <<active, generation, assignNative, fatal, opened,
                       expiring, fatalCalls, caller, clock, reported, granted>>

\* The queue is full: the whole generation fails.
DeliverOverflow(d) ==
    LET r == deliverer[d]
    IN  /\ r.pc = "lock"
        /\ Deliverable(r)
        /\ SameExpiry(r)
        /\ ~Room(verified)
        /\ failLocked
        /\ deliverer' = [deliverer EXCEPT ![d] = IdleDeliverer]
        /\ UNCHANGED <<expiring, caller, clock, history>>

\* closeCorrelation, after a bad frame or lifetime.
DeliverClose(d) ==
    LET r == deliverer[d]
    IN  /\ r.pc = "close"
        /\ IF r.generation = generation /\ r.correlation \in DOMAIN correlations
           THEN Consume(r.correlation)
           ELSE UNCHANGED <<handles, correlations>>
        /\ deliverer' = [deliverer EXCEPT ![d] = IdleDeliverer]
        /\ UNCHANGED <<active, generation, assignNative, fatal, queues,
                       expiring, fatalCalls, caller, clock, history>>

DeliverStep(d) ==
    \/ \E frameOK \in BOOLEAN : DeliverCheck(d, frameOK)
    \/ DeliverRefused(d) \/ DeliverMismatch(d) \/ DeliverPublish(d)
    \/ DeliverOverflow(d) \/ DeliverClose(d)

----------------------------------------------------------------------------
(***************************************************************************)
(* The consumers of the two queues, and time.                              *)
(***************************************************************************)
ReceiveOpened ==
    /\ opened # <<>>
    /\ opened' = Tail(opened)
    /\ UNCHANGED <<state, verified, expiring, fatalCalls, caller, deliverer,
                   clock, history>>

ReceiveVerified ==
    /\ verified # <<>>
    /\ verified' = Tail(verified)
    /\ UNCHANGED <<state, opened, expiring, fatalCalls, caller, deliverer,
                   clock, history>>

Tick ==
    /\ clock < MaxTime
    /\ clock' = clock + 1
    /\ UNCHANGED <<state, queues, expiring, fatalCalls, caller, deliverer, history>>

----------------------------------------------------------------------------
\* Gate names handles it was told of, in the current or an earlier
\* generation, and expiries around the valid range: already over, valid, one
\* instant too long (a call refused for its lifetime may name any correlation,
\* so the zero one stands for all).  A valid expiry lies within the clock's
\* bound.
AssignCall(c) ==
    \E g \in 1 .. generation, h \in Handles,
       k \in Correlations \cup {NoCorrelation},
       e \in clock .. clock + MaxLifetime + 1 :
        /\ g = generation => h \in reported
        /\ IF ValidLifetime(e) THEN e <= MaxTime ELSE k = NoCorrelation
        /\ AssignBegin(c, g, h, k, e)

DeliverCall(d) ==
    \/ \E g \in 1 .. generation, k \in Correlations, frameOK \in BOOLEAN,
          ms \in {UnixMilli(t) : t \in clock .. MaxTime} :
              DeliverCallback(d, g, k, ms, frameOK)
    \/ \E g \in 1 .. generation, h \in Handles, k \in Correlations :
          DeliverIPCFrame(d, g, h, k)

Next ==
    \/ Activate
    \/ Deactivate
    \/ \E g \in Generations : FatalCall(g)
    \/ \E h \in Handles \cup {NoHandle} : Open(h)
    \/ \E c \in Callers : AssignCall(c) \/ AssignStep(c)
    \/ \E k \in Correlations : TimerFires(k)
    \/ \E x \in expiring : Expire(x)
    \/ \E d \in Deliverers : DeliverCall(d) \/ DeliverStep(d)
    \/ ReceiveOpened
    \/ ReceiveVerified
    \/ Tick

\* The clock advances, the runtime runs started timers, and a goroutine that
\* waits for b.mu gets it.
Fairness ==
    /\ WF_vars(Tick)
    /\ \A k \in Correlations : WF_vars(TimerFires(k))
    /\ \A k \in Correlations :
          WF_vars(\E x \in expiring : x.correlation = k /\ Expire(x))

Spec == Init /\ [][Next]_vars /\ Fairness

----------------------------------------------------------------------------
(***************************************************************************)
(* Properties.                                                             *)
(***************************************************************************)
ScalarsType ==
    /\ generation \in 0 .. MaxGeneration
    /\ assignNative \in 0 .. MaxGeneration
    /\ fatal \in 0 .. MaxGeneration
    /\ clock \in 0 .. MaxTime
MapsType ==
    /\ DOMAIN handles \subseteq Handles
    /\ handles \in [DOMAIN handles -> 0 .. MaxTime]
    /\ DOMAIN correlations \subseteq Correlations
    /\ correlations \in [DOMAIN correlations -> Pending]
QueuesType ==
    /\ opened \in Seq(Opens) /\ Len(opened) <= Capacity
    /\ verified \in Seq(Frames) /\ Len(verified) <= Capacity
ThreadsType ==
    /\ expiring \subseteq Frames
    /\ fatalCalls \subseteq Generations
    /\ caller \in [Callers -> CallerRecords]
    /\ deliverer \in [Deliverers -> DelivererRecords]
HistoryType ==
    /\ reported \subseteq Handles
    /\ granted \subseteq Frames
    /\ published \in Seq(Publications)

\* Every variable has its type and neither queue exceeds the capacity of its
\* channel (newIngressBroker).
TypeOK ==
    /\ active \in BOOLEAN
    /\ ScalarsType /\ MapsType /\ QueuesType /\ ThreadsType /\ HistoryType

\* A pending assignment always belongs to an open handle, and no handle has
\* two: eviction in open, expiry, delivery and every error path of assign
\* remove the two map entries together.
PendingHandleOpen ==
    /\ \A k \in DOMAIN correlations : correlations[k].handle \in DOMAIN handles
    /\ \A j, k \in DOMAIN correlations :
          correlations[j].handle = correlations[k].handle => j = k

\* Nothing survives the generation it belongs to: an inactive broker holds no
\* handle, assignment or queued event, and an active one queues only events of
\* its own generation (deactivate, failGeneration, failLocked, activate); and
\* the call of assignNative made outside b.mu goes to the native side of the
\* assignment's own generation, never to another one or to a nil function.
GenerationIsolated ==
    /\ ~active =>
          /\ DOMAIN handles = {} /\ DOMAIN correlations = {}
          /\ opened = <<>> /\ verified = <<>>
    /\ \A i \in 1 .. Len(opened) : opened[i].generation = generation
    /\ \A i \in 1 .. Len(verified) : verified[i].generation = generation
    /\ \A c \in Callers :
          caller[c].pc = "native" =>
              caller[c].native # 0 /\ caller[c].native = caller[c].generation

\* Every frame on the queue carries the generation, handle and correlation of
\* one assignment that Gate made and the broker admitted, and an expiry that is
\* never later than the admitted one and less than a millisecond earlier,
\* whatever the native side delivers (deliver's checks under b.mu, on expiries
\* converted to milliseconds and back).
GrantedAs(frame, x) ==
    /\ frame.generation = x.generation
    /\ frame.handle = x.handle
    /\ frame.correlation = x.correlation
    /\ frame.expiresAt <= x.expiresAt
    /\ x.expiresAt < frame.expiresAt + Milli
FramesGranted ==
    \A i \in 1 .. Len(verified) : \E x \in granted : GrantedAs(verified[i], x)

\* The phase of connection h, read off the broker's maps as long as it is in
\* one, and the terms of its pending assignment.
Delivered == {published[i].handle : i \in 1 .. Len(published)}
PhaseOf(h) ==
    IF h \in DOMAIN handles THEN (IF PendingOf(h) # {} THEN "bound" ELSE "open")
    ELSE IF h \in Delivered THEN "published"
    ELSE IF h \in reported THEN "closed" ELSE "unknown"
NoTerms == [correlation |-> NoCorrelation, expiresAt |-> 0]
EntryTerms(k) == [correlation |-> k, expiresAt |-> correlations[k].expiresAt]
TermsOf(h) ==
    IF PendingOf(h) # {} THEN EntryTerms(CHOOSE k \in PendingOf(h) : TRUE)
    ELSE NoTerms

Promise == INSTANCE HandOff WITH
    Connections <- Handles,
    Terms <- [correlation : Correlations, expiresAt : Instants],
    NoTerms <- NoTerms,
    Correlation <- LAMBDA t : t.correlation,
    Frame <- LAMBDA h, t : [handle |-> h, correlation |-> t.correlation,
                            expiresAt |-> TimeOfMilli(UnixMilli(t.expiresAt))],
    phase <- [h \in Handles |-> PhaseOf(h)],
    terms <- [h \in Handles |-> TermsOf(h)],
    frames <- published

\* The broker keeps HandOff's promise: no interleaving of callers, deliveries,
\* timers and generations reports a connection twice, binds it twice, binds a
\* correlation to two, publishes a second frame of a connection or one that
\* shows other terms (to the millisecond) than those of the assignment pending
\* at that moment, or revives a connection that was given up.
KeepsPromise == Promise!Spec

\* Once AssignConnection returned an error for a handle of the current
\* generation, that handle is neither open nor pending again.
RejectedStaysClosed ==
    \A c \in Callers :
        LET a == caller[c]
        IN  a.pc = "idle" /\ a.result \notin {"none", "ok"}
                /\ a.generation = generation
            => a.handle \notin DOMAIN handles /\ PendingOf(a.handle) = {}

\* A goroutine left over from an earlier generation (an assign after its
\* native call, a delivery, a started timer, a fatal callback) changes nothing
\* of the generation that is active when it gets b.mu.
StaleGenerationHarmless ==
    [][ \/ \E c \in Callers : /\ caller'[c] # caller[c]
                              /\ caller[c].pc # "idle"
                              /\ caller[c].generation # generation
        \/ \E d \in Deliverers : /\ deliverer'[d] # deliverer[d]
                                 /\ deliverer[d].pc # "idle"
                                 /\ deliverer[d].generation # generation
        \/ \E x \in expiring \ expiring' : x.generation # generation
        \/ \E g \in fatalCalls \ fatalCalls' : g # generation
        => UNCHANGED <<state, queues>>]_vars

\* An expire goroutine that lost the race with timer.Stop never takes away a
\* later assignment of the same correlation: what it removes has expired.
ExpireOnlyExpired ==
    [][\A k \in DOMAIN correlations \ DOMAIN correlations' :
          expiring' # expiring => correlations[k].expiresAt <= clock]_vars

\* A generation the broker failed by itself is known to its owner: until the
\* owner has closed it, the fatal callback is on its way.
FailureReported == ~active /\ fatal # 0 => fatal \in fatalCalls

\* Handles that are never assigned cannot fill the map beyond its limit
\* (evictStaleHandlesLocked).
HandlesBounded == Cardinality(DOMAIN handles) <= MaxHandles

\* Every pending assignment is eventually resolved (delivered, rejected,
\* expired or cleared with its generation) even if the native side is silent.
PendingResolved ==
    \A k \in Correlations :
        k \in DOMAIN correlations ~> k \notin DOMAIN correlations
============================================================================
