------------------------- MODULE SubprocessIngress -------------------------
(***************************************************************************)
(* The verified ingress in subprocess mode: the session of                 *)
(* go/subprocess_ingress.go, the child's endpoint of the same socket       *)
(* (VerifiedIngressSubprocess.java), and the SOCK_SEQPACKET socket, which  *)
(* keeps packets whole and in order.  One session, that is one generation. *)
(*                                                                         *)
(* The broker is reduced to its open handles and pending assignments; its  *)
(* critical sections are those of IngressBroker.  A queue overflow there   *)
(* is a failure that may happen at any delivery.  An instant here is a     *)
(* whole millisecond, which is what an assignment packet carries; the part *)
(* below it that the broker keeps is in IngressBroker.                     *)
(***************************************************************************)
EXTENDS Integers, Sequences, FiniteSets

CONSTANTS
    Handles,        \* connection handles of the child
    Correlations,   \* correlation ids
    Callers,        \* goroutines in AssignConnection
    MaxTime,        \* bound: last instant of the clock
    MaxLifetime,    \* geyserliteabi.MaxIngressLifetime
    Capacity        \* assignment packets that the socket's buffer holds

ASSUME TimeAssumption == MaxTime \in Nat /\ MaxLifetime \in Nat
ASSUME CapacityAssumption == Capacity \in Nat \ {0}

VARIABLES
    brokerActive,   \* the broker is active for this generation
    brokerHandles,  \* its open handles
    brokerPending,  \* its pending assignments
    caller,         \* goroutines in broker.assign and session.assign
    closing,        \* how far close has got; "open" before it is called
    closeErr,       \* session.closeErr
    pending,        \* session.pending
    reader,         \* the goroutine in session.readLoop
    owner,          \* the supervisor's use of the session (runOnce)
    writing,        \* the goroutine that holds session.writeMu, if any
    writeSequence,  \* session.writeSequence
    readSequence,   \* readLoop's sequence
    toChild,        \* packets on their way to the child
    toParent,       \* packets on their way to the session
    child,          \* "running", "closed" (closeTransport) or "dead"
    childErr,       \* why the child closed its transport
    connections,    \* the child's connections
    assignments,    \* the child's assignments
    correlations,   \* the child's correlations: correlation -> handle, as pairs
    childReader,    \* the child's reader thread
    childRead,      \* the child's readSequence
    childWrite,     \* the child's writeSequence
    clock,          \* the common clock of the two processes
    reported,       \* history: handles the child has used
    frames,         \* history: the frames published, in order: what Gate gets,
                    \* and the assignment the child produced it for
    refused         \* history: assignments Gate was refused after the hand-off

broker == <<brokerActive, brokerHandles, brokerPending>>
session == <<closing, closeErr, pending, reader, owner>>
sequences == <<writing, writeSequence, readSequence, childRead, childWrite>>
socket == <<toChild, toParent>>
endpoint == <<child, childErr, connections, assignments, correlations, childReader>>
history == <<reported, frames, refused>>
vars == <<broker, caller, session, sequences, socket, endpoint, clock, history>>

----------------------------------------------------------------------------
Instants == 0 .. MaxTime
Assignments ==
    [handle : Handles, correlation : Correlations, expiresAt : Instants]

\* The key of session.pending.
Key(x) == <<x.handle, x.correlation>>

\* The stages of close: each is the step to come.
Accepting == closing \in {"open", "gate"}
Done == closing \in {"conn", "clear", "closed"}
ConnOpen == closing \notin {"clear", "closed"}

\* session.opWG
InFlight ==
    {c \in Callers : caller[c].pc \in {"insert", "write", "failing", "select", "remove"}}

Listening == [pc |-> "read", a |-> <<>>, expiresAt |-> 0]
IdleCaller == [pc |-> "idle", a |-> <<>>, waiter |-> "none"]

Init ==
    /\ brokerActive = TRUE /\ brokerHandles = {} /\ brokerPending = {}
    /\ caller = [c \in Callers |-> IdleCaller]
    /\ closing = "open" /\ closeErr = "none"
    /\ pending = {}
    /\ reader = Listening
    /\ owner = "select"
    /\ writing = {}
    /\ writeSequence = 0 /\ readSequence = 1
    /\ childRead = 1 /\ childWrite = 1
    /\ toChild = <<>> /\ toParent = <<>>
    /\ child = "running" /\ childErr = "none"
    /\ connections = {} /\ assignments = {} /\ correlations = {}
    /\ childReader = [pc |-> "read", a |-> <<>>, ok |-> FALSE]
    /\ clock = 0
    /\ reported = {} /\ frames = <<>> /\ refused = {}

----------------------------------------------------------------------------
(***************************************************************************)
(* close, run once, by whichever goroutine calls it first; the others wait *)
(* inside closeOnce until it has finished.                                 *)
(***************************************************************************)
Fail(reason) ==
    IF closing = "open"
    THEN closing' = "gate" /\ closeErr' = reason
    ELSE UNCHANGED <<closing, closeErr>>

\* broker.deactivate, and what the broker's own failure does first.
BrokerCleared ==
    brokerActive' = FALSE /\ brokerHandles' = {} /\ brokerPending' = {}

\* The goroutine that inserted an entry of S and still holds its waiter.
Waiting(c, S) ==
    /\ caller[c].pc \in {"write", "failing", "select", "remove"}
    /\ \E p \in S : Key(p) = Key(caller[c].a)

\* Tells the waiters of the entries S; a waiter channel holds one status, a
\* second one is dropped.
Notify(status, S) ==
    caller' = [c \in Callers |->
                 IF Waiting(c, S) /\ caller[c].waiter = "none"
                 THEN [caller[c] EXCEPT !.waiter = status]
                 ELSE caller[c]]

CloseGate ==
    /\ closing = "gate"
    /\ closing' = "deactivate"
    /\ UNCHANGED <<broker, caller, closeErr, pending, reader, owner, sequences,
                   socket, endpoint, clock, history>>

CloseDeactivate ==
    /\ closing = "deactivate"
    /\ closing' = "done"
    /\ BrokerCleared
    /\ UNCHANGED <<caller, closeErr, pending, reader, owner, sequences, socket,
                   endpoint, clock, history>>

CloseDone ==
    /\ closing = "done"
    /\ closing' = "conn"
    /\ UNCHANGED <<broker, caller, closeErr, pending, reader, owner, sequences,
                   socket, endpoint, clock, history>>

\* Fault: the socket is closed only after the operations under way are done.
CloseConnAfterDrain ==
    /\ closing = "conn"
    /\ InFlight = {}
    /\ closing' = "clear"
    /\ toParent' = <<>>
    /\ UNCHANGED <<broker, caller, closeErr, pending, reader, owner, sequences,
                   toChild, endpoint, clock, history>>

\* conn.Close: what the child has sent is lost, what it was sent is not.
CloseConn ==
    /\ closing = "conn"
    /\ closing' = "clear"
    /\ toParent' = <<>>
    /\ UNCHANGED <<broker, caller, closeErr, pending, reader, owner, sequences,
                   toChild, endpoint, clock, history>>

CloseClear ==
    /\ closing = "clear"
    /\ closing' = "closed"
    /\ pending' = {}
    /\ Notify("negative", pending)
    /\ UNCHANGED <<broker, closeErr, reader, owner, sequences, socket, endpoint,
                   clock, history>>

CloseStep == CloseGate \/ CloseDeactivate \/ CloseDone \/ CloseConn \/ CloseClear

----------------------------------------------------------------------------
(***************************************************************************)
(* assign: first the locked part of broker.assign, then session.assign.    *)
(***************************************************************************)
Goto(c, pc) == caller' = [caller EXCEPT ![c].pc = pc]

AssignGranted(c, a) ==
    /\ caller[c].pc = "idle"
    /\ a.handle \in brokerHandles
    /\ \A p \in brokerPending :
          p.handle # a.handle /\ p.correlation # a.correlation
    /\ brokerPending' = brokerPending \cup {a}
    /\ caller' = [caller EXCEPT ![c] = [pc |-> "enter", a |-> a, waiter |-> "none"]]
    /\ UNCHANGED <<brokerActive, brokerHandles, session, sequences, socket,
                   endpoint, clock, history>>

\* A duplicate closes both handles in the broker; the session is not called.
AssignDuplicate(c, a) ==
    LET clash == {p \in brokerPending :
                    p.handle = a.handle \/ p.correlation = a.correlation}
    IN  /\ caller[c].pc = "idle"
        /\ a.handle \in brokerHandles
        /\ clash # {}
        /\ brokerPending' = brokerPending \ clash
        /\ brokerHandles' =
              brokerHandles \ ({a.handle} \cup {p.handle : p \in clash})
        /\ UNCHANGED <<brokerActive, caller, session, sequences, socket,
                       endpoint, clock, history>>

\* A lifetime that is over or too long, or no correlation: closeHandle.
AssignInvalid(c, h) ==
    /\ caller[c].pc = "idle"
    /\ brokerHandles' = brokerHandles \ {h}
    /\ brokerPending' = {p \in brokerPending : p.handle # h}
    /\ UNCHANGED <<brokerActive, caller, session, sequences, socket, endpoint,
                   clock, history>>

AssignCall(c) ==
    \E h \in reported :
        \/ AssignInvalid(c, h)
        \/ \E k \in Correlations, e \in clock + 1 .. clock + MaxLifetime :
              LET a == [handle |-> h, correlation |-> k, expiresAt |-> e]
              IN  e <= MaxTime /\ (AssignGranted(c, a) \/ AssignDuplicate(c, a))

\* Fault: the gate is not asked.
EnterAlways == TRUE

\* The gate of opMu.
MayEnter == Accepting

\* The gate, then the lifetime.
AssignEnter(c) ==
    /\ caller[c].pc = "enter"
    /\ Goto(c, IF MayEnter /\ clock < caller[c].a.expiresAt THEN "insert" ELSE "close")
    /\ UNCHANGED <<broker, session, sequences, socket, endpoint, clock, history>>

AssignInsert(c) ==
    LET a == caller[c].a
    IN  /\ caller[c].pc = "insert"
        /\ IF \E p \in pending : Key(p) = Key(a)
           THEN Goto(c, "close") /\ UNCHANGED pending
           ELSE /\ Goto(c, "write")
                /\ pending' = pending \cup
                     {[handle |-> a.handle, correlation |-> a.correlation,
                       expiresAt |-> a.expiresAt, acknowledged |-> FALSE]}
        /\ UNCHANGED <<broker, closing, closeErr, reader, owner, sequences,
                       socket, endpoint, clock, history>>

\* Fault: writeMu is not released when the lifetime has passed.
LockKept(c) ==
    /\ caller[c].pc = "write"
    /\ writing = {}
    /\ writing' = {c}
    /\ IF clock < caller[c].a.expiresAt THEN UNCHANGED caller ELSE Goto(c, "remove")
    /\ UNCHANGED <<broker, session, writeSequence, readSequence, childRead,
                   childWrite, socket, endpoint, clock, history>>

\* writeMu, and the lifetime again: it may have passed while another
\* goroutine held the lock.
AssignLock(c) ==
    /\ caller[c].pc = "write"
    /\ writing = {}
    /\ IF clock < caller[c].a.expiresAt
       THEN writing' = {c} /\ UNCHANGED caller
       ELSE Goto(c, "remove") /\ UNCHANGED writing
    /\ UNCHANGED <<broker, session, writeSequence, readSequence, childRead,
                   childWrite, socket, endpoint, clock, history>>

\* The write, which has no deadline: it waits, with writeMu held, as long as
\* the socket is full, and fails once either side has closed.
AssignWrite(c) ==
    LET packet == [sequence |-> writeSequence + 1, a |-> caller[c].a]
    IN  /\ caller[c].pc = "write"
        /\ c \in writing
        /\ writing' = {}
        /\ writeSequence' = writeSequence + 1
        /\ \/ /\ ConnOpen /\ child = "running"
              /\ Len(toChild) < Capacity
              /\ toChild' = Append(toChild, packet)
              /\ Goto(c, "select")
              /\ UNCHANGED <<closing, closeErr>>
           \/ /\ ~(ConnOpen /\ child = "running")
              /\ Fail("write")
              /\ Goto(c, "failing")
              /\ UNCHANGED toChild
        /\ UNCHANGED <<broker, pending, reader, owner, readSequence, childRead,
                       childWrite, toParent, endpoint, clock, history>>

AssignFailed(c) ==
    /\ caller[c].pc = "failing"
    /\ closing = "closed"
    /\ Goto(c, "remove")
    /\ UNCHANGED <<broker, session, sequences, socket, endpoint, clock, history>>

\* Fault: the status of the acknowledgement is not told apart.
SelectAnyStatus(c) ==
    LET r == caller[c]
    IN  /\ r.pc = "select"
        /\ \/ r.waiter # "none" /\ Goto(c, "remove")
           \/ clock >= r.a.expiresAt /\ Goto(c, "remove")
           \/ Done /\ Goto(c, "close")
        /\ UNCHANGED <<broker, session, sequences, socket, endpoint, clock, history>>

\* The select between the waiter, the timer and done; an acknowledgement that
\* is read too late counts as an expiry.
AssignSelect(c) ==
    LET r == caller[c]
    IN  /\ r.pc = "select"
        /\ \/ /\ r.waiter = "positive"
              /\ clock < r.a.expiresAt
              /\ caller' = [caller EXCEPT ![c] = IdleCaller]
           \/ /\ \/ r.waiter = "negative"
                 \/ clock >= r.a.expiresAt
              /\ Goto(c, "remove")
           \/ Done /\ Goto(c, "close")
        /\ UNCHANGED <<broker, session, sequences, socket, endpoint, clock, history>>

\* removePending
AssignRemove(c) ==
    /\ caller[c].pc = "remove"
    /\ pending' = {p \in pending : Key(p) # Key(caller[c].a)}
    /\ Goto(c, "close")
    /\ UNCHANGED <<broker, closing, closeErr, reader, owner, sequences, socket,
                   endpoint, clock, history>>

\* Fault: the refused handle stays open.
KeepHandle(c) ==
    LET a == caller[c].a
    IN  /\ caller[c].pc = "close"
        /\ brokerPending' = {p \in brokerPending : p.handle # a.handle}
        /\ refused' = refused \cup {a}
        /\ caller' = [caller EXCEPT ![c] = IdleCaller]
        /\ UNCHANGED <<brokerActive, brokerHandles, session, sequences, socket,
                       endpoint, clock, reported, frames>>

\* The error path of broker.assign: closeHandle.
AssignClose(c) ==
    LET a == caller[c].a
    IN  /\ caller[c].pc = "close"
        /\ brokerHandles' = brokerHandles \ {a.handle}
        /\ brokerPending' = {p \in brokerPending : p.handle # a.handle}
        /\ refused' = refused \cup {a}
        /\ caller' = [caller EXCEPT ![c] = IdleCaller]
        /\ UNCHANGED <<brokerActive, session, sequences, socket, endpoint,
                       clock, reported, frames>>

AssignStep(c) ==
    \/ AssignEnter(c) \/ AssignInsert(c) \/ AssignLock(c) \/ AssignWrite(c)
    \/ AssignFailed(c) \/ AssignSelect(c) \/ AssignRemove(c) \/ AssignClose(c)

\* The two timers of an assignment, in the broker and in the session.
BrokerExpire(a) ==
    /\ a \in brokerPending
    /\ clock >= a.expiresAt
    /\ brokerPending' = brokerPending \ {a}
    /\ brokerHandles' = brokerHandles \ {a.handle}
    /\ UNCHANGED <<brokerActive, caller, session, sequences, socket, endpoint,
                   clock, history>>

expirePending(p) ==
    /\ p \in pending
    /\ clock >= p.expiresAt
    /\ pending' = pending \ {p}
    /\ Notify("negative", {p})
    /\ UNCHANGED <<broker, closing, closeErr, reader, owner, sequences, socket,
                   endpoint, clock, history>>

----------------------------------------------------------------------------
(***************************************************************************)
(* readLoop                                                                *)
(***************************************************************************)
Reading == reader.pc = "read" /\ ConnOpen /\ toParent # <<>>

\* The packet is taken and its sequence number is the expected one.
Receive(type) ==
    /\ Reading
    /\ Head(toParent).type = type
    /\ Head(toParent).sequence = readSequence
    /\ toParent' = Tail(toParent)
    /\ readSequence' = readSequence + 1

ReaderFails(reason) ==
    /\ Fail(reason)
    /\ reader' = [reader EXCEPT !.pc = "failing"]

\* The end of the socket, or a packet that is not the next in sequence.
ReadError ==
    LET ended == ~ConnOpen \/ (toParent = <<>> /\ child # "running")
        gap == ~ended /\ toParent # <<>> /\ Head(toParent).sequence # readSequence
    IN  /\ reader.pc = "read"
        /\ ended \/ gap
        /\ ReaderFails(IF gap THEN "Sequence" ELSE "EOF")
        /\ UNCHANGED <<broker, caller, pending, owner, sequences, socket,
                       endpoint, clock, history>>

ReaderEnds ==
    /\ reader.pc = "failing"
    /\ closing = "closed"
    /\ reader' = [Listening EXCEPT !.pc = "ended"]
    /\ UNCHANGED <<broker, caller, closing, closeErr, pending, owner, sequences,
                   socket, endpoint, clock, history>>

\* broker.open: a handle that is new to an active broker, unless its queue or
\* its map is full.
ReadOpen ==
    LET h == Head(toParent).a.handle
    IN  /\ Receive("open")
        /\ \/ /\ brokerActive /\ h \notin brokerHandles
              /\ brokerHandles' = brokerHandles \cup {h}
              /\ UNCHANGED <<brokerActive, brokerPending, closing, closeErr, reader>>
           \/ BrokerCleared /\ ReaderFails("broker")
        /\ UNCHANGED <<caller, pending, owner, writing, writeSequence, childRead,
                       childWrite, toChild, endpoint, clock, history>>

\* Fault: the entry is looked up by its correlation alone.
PendingByCorrelation(packet) ==
    {p \in pending : p.correlation = packet.a.correlation}

\* s.pending[key]
PendingOf(packet) == {p \in pending : Key(p) = Key(packet.a)}

\* The acknowledgement of an assignment.
ReadACK ==
    LET packet == Head(toParent)
        found == PendingOf(packet)
        late == {p \in found : clock >= p.expiresAt}
        again == {p \in found \ late : p.acknowledged}
        fresh == found \ (late \cup again)
    IN  /\ Receive("ack")
        /\ IF again # {}
           THEN /\ ReaderFails(IF packet.ok THEN "Duplicate" ELSE "Rejected")
                /\ UNCHANGED <<pending, caller>>
           ELSE /\ pending' = (pending \ found) \cup
                     (IF packet.ok
                      THEN {[p EXCEPT !.acknowledged = TRUE] : p \in fresh} ELSE {})
                /\ Notify(IF packet.ok /\ late = {} THEN "positive" ELSE "negative",
                          found)
                /\ UNCHANGED <<closing, closeErr, reader>>
        /\ UNCHANGED <<broker, owner, writing, writeSequence, childRead, childWrite,
                       toChild, endpoint, clock, history>>

\* A verified frame: its pending entry is consumed; without one it is dropped.
ReadVerified ==
    LET packet == Head(toParent)
        found == PendingOf(packet)
    IN  /\ Receive("verified")
        /\ pending' = pending \ found
        /\ IF \E p \in found : ~p.acknowledged
           THEN ReaderFails("Rejected")
           ELSE /\ reader' = IF found = {} THEN reader
                             ELSE [pc |-> "lookup", a |-> packet.a, expiresAt |-> 0]
                /\ UNCHANGED <<closing, closeErr>>
        /\ UNCHANGED <<broker, caller, owner, writing, writeSequence, childRead,
                       childWrite, toChild, endpoint, clock, history>>

\* deliverIPCFrame's lookup: the pending assignment of the correlation, when
\* it is this connection's.  b.mu is released before deliver takes it again.
DeliverLookup ==
    LET found == {p \in brokerPending : Key(p) = Key(reader.a)}
    IN  /\ reader.pc = "lookup"
        /\ \/ /\ found = {}
              /\ reader' = Listening
           \/ \E p \in found :
                 reader' = [reader EXCEPT !.pc = "deliver", !.expiresAt = p.expiresAt]
        /\ UNCHANGED <<broker, caller, closing, closeErr, pending, owner,
                       sequences, socket, endpoint, clock, history>>

\* Fault: a frame is published and its assignment stays.
ConsumeNothing(found) == UNCHANGED <<brokerPending, brokerHandles>>

\* deliver takes the assignments found, with their handles, out of the maps.
Consume(found) ==
    /\ brokerPending' = brokerPending \ found
    /\ brokerHandles' = brokerHandles \ {p.handle : p \in found}

\* verifiedFrameValue: the handle is the pending entry's, the correlation and
\* the expiry are deliver's arguments.
FrameOf(p) ==
    [handle |-> p.handle, correlation |-> reader.a.correlation, expiresAt |-> reader.expiresAt]

\* deliver: an expired or replaced assignment is dropped with its handle, a
\* matching one is published, unless the queue is full.
Deliver ==
    LET found == {p \in brokerPending : p.correlation = reader.a.correlation}
        valid == {p \in found : clock < reader.expiresAt /\ p.expiresAt = reader.expiresAt}
    IN  /\ reader.pc = "deliver"
        /\ \/ /\ brokerActive \/ clock >= reader.expiresAt
              /\ Consume(found)
              /\ \/ valid = {} /\ UNCHANGED frames
                 \/ \E p \in valid :
                       frames' = Append(frames, [to |-> FrameOf(p), for |-> reader.a])
              /\ reader' = Listening
              /\ UNCHANGED <<brokerActive, closing, closeErr>>
           \/ /\ valid # {} \/ (~brokerActive /\ clock < reader.expiresAt)
              /\ BrokerCleared
              /\ ReaderFails("broker")
              /\ UNCHANGED frames
        /\ UNCHANGED <<caller, pending, owner, sequences, socket, endpoint,
                       clock, reported, refused>>

ReaderStep ==
    \/ ReadError \/ ReaderEnds \/ ReadOpen \/ ReadACK \/ ReadVerified
    \/ DeliverLookup \/ Deliver

----------------------------------------------------------------------------
(***************************************************************************)
(* runOnce's side of the session, and its wait, which wipes the key.       *)
(***************************************************************************)
OwnerStep ==
    /\ \/ /\ owner = "select" /\ child = "dead"
          /\ Fail("exit")
          /\ owner' = "close"
       \/ /\ owner = "close" /\ closing = "closed"
          /\ owner' = "wait"
          /\ UNCHANGED <<closing, closeErr>>
       \/ /\ owner = "select" /\ Done
          /\ owner' = "reap"
          /\ UNCHANGED <<closing, closeErr>>
       \/ /\ owner = "reap" /\ child = "dead"
          /\ owner' = "wait"
          /\ UNCHANGED <<closing, closeErr>>
       \/ /\ owner = "wait" /\ reader.pc = "ended" /\ InFlight = {}
          /\ owner' = "wiped"
          /\ UNCHANGED <<closing, closeErr>>
    /\ UNCHANGED <<broker, caller, pending, reader, sequences, socket, endpoint,
                   clock, history>>

----------------------------------------------------------------------------
(***************************************************************************)
(* The child.                                                              *)
(***************************************************************************)
\* closeTransport
CloseTransport(reason) ==
    /\ child' = "closed"
    /\ childErr' = IF childErr = "none" THEN reason ELSE childErr
    /\ connections' = {} /\ assignments' = {} /\ correlations' = {}

Forget(S) ==
    /\ assignments' = assignments \ S
    /\ correlations' = correlations \ {<<a.correlation, a.handle>> : a \in S}

\* A packet of the child: it takes the next sequence number in the monitor.
\* x is what the packet is about; only its Key is on the wire.
Packet(type, x, ok) ==
    [type |-> type, sequence |-> childWrite, a |-> x, ok |-> ok]

Send(packet) ==
    toParent' = Append(toParent, packet) /\ childWrite' = childWrite + 1

CanSend == child = "running" /\ ConnOpen

\* open, on one of Geyser's threads.
ChildOpen(h) ==
    /\ child = "running"
    /\ h \notin reported
    /\ reported' = reported \cup {h}
    /\ \/ /\ ConnOpen
          /\ connections' = connections \cup {h}
          /\ Send(Packet("open", [handle |-> h], TRUE))
          /\ UNCHANGED <<child, childErr, assignments, correlations>>
       \/ /\ ~ConnOpen
          /\ CloseTransport("write")
          /\ UNCHANGED <<childWrite, toParent>>
    /\ UNCHANGED <<broker, caller, session, writing, writeSequence, readSequence,
                   childRead, toChild, childReader, clock, frames, refused>>

\* Fault: the correlation of a closed connection stays taken.
ForgetAssignment(h) ==
    /\ assignments' = {a \in assignments : a.handle # h}
    /\ UNCHANGED correlations

\* The assignment of h, with its correlation, leaves both maps.
ForgetHandle(h) == Forget({a \in assignments : a.handle = h})

\* close, on one of Geyser's threads.
ChildClose(h) ==
    /\ h \in connections
    /\ connections' = connections \ {h}
    /\ ForgetHandle(h)
    /\ UNCHANGED <<broker, caller, session, sequences, socket, child, childErr,
                   childReader, clock, history>>

\* accept
Acceptable(a) ==
    /\ a.handle \in connections
    /\ clock < a.expiresAt /\ a.expiresAt - clock <= MaxLifetime
    /\ \A x \in assignments : x.handle # a.handle
    /\ \A x \in correlations : x[1] # a.correlation

\* readAssignment up to accept.
ChildRead ==
    LET packet == Head(toChild)
        a == packet.a
    IN  /\ childReader.pc = "read" /\ child = "running"
        /\ toChild # <<>>
        /\ toChild' = Tail(toChild)
        /\ IF packet.sequence = childRead
           THEN /\ childRead' = childRead + 1
                /\ childReader' = [pc |-> "ack", a |-> a, ok |-> Acceptable(a)]
                /\ assignments' = assignments \cup (IF Acceptable(a) THEN {a} ELSE {})
                /\ correlations' = correlations \cup
                     (IF Acceptable(a) THEN {<<a.correlation, a.handle>>} ELSE {})
                /\ UNCHANGED <<child, childErr, connections>>
           ELSE /\ CloseTransport("Sequence")
                /\ childReader' = [childReader EXCEPT !.pc = "ended"]
                /\ UNCHANGED childRead
        /\ UNCHANGED <<broker, caller, session, writing, writeSequence, readSequence,
                       childWrite, toParent, clock, history>>

\* The reader meets the end of the socket, or another thread closed it.
ChildEOF ==
    /\ childReader.pc = "read" /\ child # "dead"
    /\ child = "closed" \/ (toChild = <<>> /\ ~ConnOpen)
    /\ CloseTransport("EOF")
    /\ childReader' = [childReader EXCEPT !.pc = "ended"]
    /\ UNCHANGED <<broker, caller, session, sequences, socket, clock, history>>

\* The reader writes an acknowledgement or a frame and goes on; when it
\* cannot, it closes the transport and stops.
ReaderWrites(type, next) ==
    /\ \/ /\ CanSend
          /\ Send(Packet(type, childReader.a, childReader.ok))
          /\ childReader' = [childReader EXCEPT !.pc = next]
          /\ UNCHANGED <<child, childErr, connections, assignments, correlations>>
       \/ /\ ~CanSend
          /\ CloseTransport("write")
          /\ childReader' = [childReader EXCEPT !.pc = "ended"]
          /\ UNCHANGED <<toParent, childWrite>>
    /\ UNCHANGED <<broker, caller, session, writing, writeSequence, readSequence,
                   childRead, toChild, clock, history>>

\* writeAck
ChildAck ==
    /\ childReader.pc = "ack" /\ child # "dead"
    /\ ReaderWrites("ack", IF childReader.ok THEN "emit" ELSE "read")

\* emitVerified: the producer may have nothing for the connection.
ChildEmit ==
    /\ childReader.pc = "emit"
    /\ \/ /\ clock < childReader.a.expiresAt
          /\ childReader.a.handle \in connections
          /\ childReader' = [childReader EXCEPT !.pc = "claim"]
       \/ childReader' = [childReader EXCEPT !.pc = "clear"]
    /\ UNCHANGED <<broker, caller, session, sequences, socket, child, childErr,
                   connections, assignments, correlations, clock, history>>

\* claimAssignment takes whatever assignment the handle has.
ChildClaim ==
    LET claimed == {a \in assignments : a.handle = childReader.a.handle}
    IN  /\ childReader.pc = "claim"
        /\ Forget(claimed)
        /\ childReader' = [childReader EXCEPT !.pc =
              IF child = "running" /\ \E a \in claimed : clock < a.expiresAt
              THEN "send" ELSE "clear"]
        /\ UNCHANGED <<broker, caller, session, sequences, socket, child,
                       childErr, connections, clock, history>>

\* writeVerified
ChildSend ==
    /\ childReader.pc = "send" /\ child # "dead"
    /\ ReaderWrites("verified", "read")

\* Fault: an assignment without a frame is left to its timer.
ClearNothing ==
    /\ childReader.pc = "clear"
    /\ childReader' = [childReader EXCEPT !.pc = "read"]
    /\ UNCHANGED <<broker, caller, session, sequences, socket, child, childErr,
                   connections, assignments, correlations, clock, history>>

\* clearAssignment
ChildClear ==
    /\ childReader.pc = "clear"
    /\ Forget({childReader.a} \cap assignments)
    /\ childReader' = [childReader EXCEPT !.pc = "read"]
    /\ UNCHANGED <<broker, caller, session, sequences, socket, child, childErr,
                   connections, clock, history>>

ChildExpire(a) ==
    /\ a \in assignments
    /\ clock >= a.expiresAt
    /\ Forget({a})
    /\ UNCHANGED <<broker, caller, session, sequences, socket, child, childErr,
                   connections, childReader, clock, history>>

\* The process ends, by itself or because of SIGTERM.
ChildDies ==
    /\ child # "dead"
    /\ child' = "dead"
    /\ connections' = {} /\ assignments' = {} /\ correlations' = {}
    /\ childReader' = [childReader EXCEPT !.pc = "ended"]
    /\ toChild' = <<>>
    /\ UNCHANGED <<broker, caller, session, sequences, toParent, childErr,
                   clock, history>>

ChildStep ==
    ChildRead \/ ChildEOF \/ ChildAck \/ ChildEmit \/ ChildClaim \/ ChildSend \/ ChildClear

----------------------------------------------------------------------------
Tick ==
    /\ clock < MaxTime
    /\ clock' = clock + 1
    /\ UNCHANGED <<broker, caller, session, sequences, socket, endpoint, history>>

Next ==
    \/ CloseStep
    \/ \E c \in Callers : AssignCall(c) \/ AssignStep(c)
    \/ \E a \in brokerPending : BrokerExpire(a)
    \/ \E p \in pending : expirePending(p)
    \/ ReaderStep
    \/ OwnerStep
    \/ \E h \in Handles : ChildOpen(h) \/ ChildClose(h)
    \/ ChildStep
    \/ \E a \in assignments : ChildExpire(a)
    \/ ChildDies
    \/ Tick

\* Goroutines run and the clock advances; a child that was sent SIGTERM ends.
\* Nothing is assumed of the child otherwise.
Fairness ==
    /\ WF_vars(Tick)
    /\ WF_vars(CloseStep)
    /\ WF_vars(ReaderStep)
    /\ WF_vars(OwnerStep)
    /\ WF_vars(owner = "reap" /\ ChildDies)
    /\ \A c \in Callers : WF_vars(AssignStep(c))

Spec == Init /\ [][Next]_vars /\ Fairness

----------------------------------------------------------------------------
CallerType ==
    \A c \in Callers :
        /\ caller[c].pc \in {"idle", "enter", "insert", "write", "failing",
                             "select", "remove", "close"}
        /\ caller[c].pc # "idle" => caller[c].a \in Assignments
        /\ caller[c].waiter \in {"none", "positive", "negative"}

\* writeMu is held by one goroutine at most, and only while it writes.
WriteLock ==
    /\ writing \subseteq Callers
    /\ \A c \in writing : caller[c].pc = "write" /\ writing = {c}

PendingType ==
    pending \subseteq [handle : Handles, correlation : Correlations,
                      expiresAt : Instants, acknowledged : BOOLEAN]

EndpointType ==
    /\ child \in {"running", "closed", "dead"}
    /\ connections \subseteq Handles
    /\ assignments \subseteq Assignments
    /\ correlations \subseteq Correlations \X Handles
    /\ Cardinality(assignments) <= 1
    /\ childReader.pc \in {"read", "ack", "emit", "claim", "send", "clear", "ended"}

\* The fields of the broker, the session and the child have their types; and
\* since its reader answers one assignment before it reads the next, the child
\* never holds two.
TypeOK ==
    /\ brokerActive \in BOOLEAN
    /\ brokerHandles \subseteq Handles /\ brokerPending \subseteq Assignments
    /\ closing \in {"open", "gate", "deactivate", "done", "conn", "clear", "closed"}
    /\ reader.pc \in {"read", "lookup", "deliver", "failing", "ended"}
    /\ owner \in {"select", "close", "reap", "wait", "wiped"}
    /\ CallerType /\ WriteLock /\ PendingType /\ EndpointType

\* Two correct peers never accuse each other: however opens, assignments,
\* acknowledgements, expiries and closings interleave, readLoop meets no packet
\* out of sequence, no second acknowledgement and no frame that was not
\* acknowledged, and readAssignment no assignment out of sequence.  Each of
\* these would end the session, and with it every player's connection.
HonestPeers ==
    /\ closeErr \notin {"Sequence", "Duplicate", "Rejected"}
    /\ childErr # "Sequence"

\* wait wipes the key only when nothing can use it again: the reader has
\* ended, close is complete, and no assign is under way or still has an entry.
WipedKeyUnused ==
    owner = "wiped" =>
        /\ reader.pc = "ended" /\ closing = "closed"
        /\ InFlight = {} /\ pending = {}

\* What Gate got, whatever the order.
published == {frames[i] : i \in 1 .. Len(frames)}

\* A frame that reaches Gate was produced by the child for the very lifetime
\* and correlation it is published under, although neither acknowledgement
\* nor frame carries the expiry and deliverIPCFrame looks it up: a handle is
\* assigned once, so an old answer never meets a newer assignment.
PublishedAsProduced ==
    \A p \in published :
        /\ p.to.correlation = p.for.correlation
        /\ p.to.expiresAt = p.for.expiresAt

\* The child's two maps describe the same assignments: a correlation is taken
\* exactly as long as its assignment is held, on every path that ends one
\* (close, claimAssignment, clearAssignment, expire, closeTransport).
ChildMapsAgree ==
    correlations = {<<a.correlation, a.handle>> : a \in assignments}

\* A write that waits: the session is open, the child lives, and the socket
\* is full of assignments that it does not read.
WriteBlocked ==
    /\ writing # {}
    /\ closing = "open" /\ child = "running"
    /\ Len(toChild) = Capacity

\* An AssignConnection that reached the session returns: the acknowledgement,
\* the expiry or the end of the session wakes it.  The one exception is the
\* write, which has no deadline: a child that lives and never reads again
\* holds the writer, and with it every goroutine waiting for writeMu, past
\* their expiries for as long as the session stays open.
AssignReturns ==
    \A c \in Callers :
        \/ []<>(caller[c].pc = "idle")
        \/ <>[](caller[c].pc = "write" /\ WriteBlocked)

\* A session that failed is drained: runOnce gets past its wait, so that the
\* supervisor can start the next child.
SessionDrained == closing # "open" ~> owner = "wiped"

\* Assign fails closed: when it has refused an assignment and Gate
\* nevertheless gets the frame produced for it, the assignment expired or the
\* session ended between readLoop's publishing and assign's return, and never
\* because the two sides disagree about the acknowledgement.
RefusedNotPublished ==
    \A a \in refused \cap {p.for : p \in published} :
        clock >= a.expiresAt \/ closing # "open"

\* The phase of connection h as Gate sees it: unknown until readLoop has taken
\* its open packet.  The broker's maps come first: a connection that is still
\* in them can be published, whatever was published before.
PhaseOf(h) ==
    IF h \in brokerHandles
    THEN IF \E a \in brokerPending : a.handle = h THEN "bound" ELSE "open"
    ELSE IF \E p \in published : p.to.handle = h THEN "published"
    ELSE IF h \in reported
            /\ \A i \in 1 .. Len(toParent) : toParent[i].type = "open" => toParent[i].a.handle # h
    THEN "closed" ELSE "unknown"

\* The terms of a bound connection are those of its pending entry.
TermsOf(h) ==
    {[correlation |-> a.correlation, expiresAt |-> a.expiresAt] :
        a \in {x \in brokerPending : x.handle = h}}

\* What Gate got of each frame, in order.
Log == [i \in 1 .. Len(frames) |-> {frames[i].to}]

Promise == INSTANCE HandOff WITH
    Connections <- Handles,
    Terms <- {{t} : t \in [correlation : Correlations, expiresAt : Instants]},
    NoTerms <- {},
    Correlation <- LAMBDA t : {x.correlation : x \in t},
    Frame <- LAMBDA h, t :
        {[handle |-> h, correlation |-> x.correlation, expiresAt |-> x.expiresAt] : x \in t},
    phase <- [h \in Handles |-> PhaseOf(h)],
    terms <- [h \in Handles |-> TermsOf(h)],
    frames <- Log

\* The session, the socket and the child together keep the promise of HandOff:
\* the answers that cross expiries, closings and the child's death on the
\* socket never make the session report, bind or publish a connection twice,
\* put another correlation or expiry into its frame than it is bound with, or
\* revive one that was given up.
KeepsPromise == Promise!Spec
============================================================================
