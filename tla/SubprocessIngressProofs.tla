----------------------- MODULE SubprocessIngressProofs -----------------------
(***************************************************************************)
(* Safety of the subprocess session for any number of connections,         *)
(* correlations and goroutines, and any clock.                             *)
(***************************************************************************)
EXTENDS SubprocessIngress, FiniteSetTheorems, TLAPS

----------------------------------------------------------------------------
(***************************************************************************)
(* The shape of the records and of the packets on the socket.              *)
(***************************************************************************)
CallerSteps == {"idle", "enter", "insert", "write", "failing", "select", "remove", "close"}
ReaderSteps == {"read", "lookup", "deliver", "failing", "ended"}
AnswerSteps == {"ack", "emit", "claim", "send", "clear"}

Requests == [sequence : Nat, a : Assignments]
Packets ==
    [type : {"open", "ack", "verified"}, sequence : Nat,
     a : Assignments \cup [handle : Handles], ok : BOOLEAN]

\* Whoever works on an assignment has one.
CallerShape ==
    /\ caller \in [Callers -> [pc : CallerSteps, a : Assignments \cup {<<>>},
                               waiter : {"none", "positive", "negative"}]]
    /\ \A c \in Callers : caller[c].pc # "idle" => caller[c].a \in Assignments

ReaderShape ==
    /\ reader \in [pc : ReaderSteps, a : Assignments \cup {<<>>}, expiresAt : Instants]
    /\ reader.pc \in {"lookup", "deliver"} => reader.a \in Assignments

AnswerShape ==
    /\ childReader \in [pc : AnswerSteps \cup {"read", "ended"},
                        a : Assignments \cup {<<>>}, ok : BOOLEAN]
    /\ childReader.pc \in AnswerSteps => childReader.a \in Assignments

SocketShape ==
    /\ toChild \in Seq(Requests) /\ toParent \in Seq(Packets)
    /\ \A i \in 1 .. Len(toParent) : toParent[i].type # "open" => toParent[i].a \in Assignments
    /\ writeSequence \in Nat /\ readSequence \in Nat
    /\ childRead \in Nat /\ childWrite \in Nat

HistoryShape ==
    /\ clock \in Instants
    /\ reported \subseteq Handles
    /\ frames \in Seq([to : Assignments, for : Assignments])
    /\ published \subseteq [to : Assignments, for : Assignments]
    /\ refused \subseteq Assignments

ShapeInv == CallerShape /\ ReaderShape /\ AnswerShape /\ SocketShape /\ HistoryShape

----------------------------------------------------------------------------
(***************************************************************************)
(* The ends of the socket.                                                 *)
(***************************************************************************)
\* The child holds at most the assignment its reader is answering.
ChildInv ==
    /\ assignments \subseteq {childReader.a}
    /\ childReader.pc \in {"read", "send", "ended"} => assignments = {}
    /\ childReader.pc = "ack" /\ ~childReader.ok => assignments = {}
    /\ childReader.pc \in {"emit", "claim", "send"} => childReader.ok
    /\ ChildMapsAgree

\* An entry that a late assign adds to a closed session is removed by it.
CloseInv ==
    /\ reader.pc = "ended" => closing = "closed"
    /\ closing = "closed" =>
        \A p \in pending : \E c \in Callers :
            caller[c].pc \in {"write", "failing", "remove"} /\ Key(caller[c].a) = Key(p)
    /\ owner = "wiped" => reader.pc = "ended" /\ InFlight = {}

\* The numbers on the socket are consecutive, from the one that is expected.
SequenceInv ==
    /\ ConnOpen =>
        /\ childWrite = readSequence + Len(toParent)
        /\ \A i \in 1 .. Len(toParent) : toParent[i].sequence = readSequence + i - 1
    /\ \A i \in 1 .. Len(toChild) : toChild[i].sequence = childRead + i - 1
    /\ ConnOpen /\ child = "running" => writeSequence + 1 = childRead + Len(toChild)

----------------------------------------------------------------------------
(***************************************************************************)
(* A connection is assigned once.                                          *)
(***************************************************************************)
AssignmentOf(p) ==
    [handle |-> p.handle, correlation |-> p.correlation, expiresAt |-> p.expiresAt]

\* Assignment a is somewhere in the session, on the socket or in the child.
Carried(a) ==
    \/ \E c \in Callers : caller[c].pc # "idle" /\ caller[c].a = a
    \/ \E i \in 1 .. Len(toChild) : toChild[i].a = a
    \/ childReader.pc \in AnswerSteps /\ childReader.a = a
    \/ \E i \in 1 .. Len(toParent) : toParent[i].type # "open" /\ toParent[i].a = a
    \/ \E p \in pending : AssignmentOf(p) = a
    \/ reader.pc \in {"lookup", "deliver"} /\ reader.a = a
    \/ a \in brokerPending
    \/ \E p \in published : p.for = a
    \/ a \in refused

\* Connection h can still be assigned.
Announced(h) == \E i \in 1 .. Len(toParent) : toParent[i].type = "open" /\ toParent[i].a.handle = h
Unbound(h) ==
    \/ h \notin reported
    \/ Announced(h)
    \/ h \in brokerHandles /\ \A p \in brokerPending : p.handle # h

\* Each connection is reported once, and assigned once.
OpenInv ==
    /\ brokerHandles \subseteq reported
    /\ \A h \in Handles : Announced(h) => h \in reported /\ h \notin brokerHandles
    /\ \A i, j \in 1 .. Len(toParent) :
        toParent[i].type = "open" /\ toParent[j].type = "open"
          /\ toParent[i].a.handle = toParent[j].a.handle => i = j

OnceInv ==
    /\ \A a \in Assignments : Carried(a) => ~Unbound(a.handle)
    /\ \A a, b \in Assignments : Carried(a) /\ Carried(b) /\ a.handle = b.handle => a = b

----------------------------------------------------------------------------
(***************************************************************************)
(* How far the assignment of a connection has got.                         *)
(***************************************************************************)
Unwritten(h) ==
    \E c \in Callers : caller[c].pc \in {"enter", "insert", "write"} /\ caller[c].a.handle = h
Requested(h) == \E i \in 1 .. Len(toChild) : toChild[i].a.handle = h
Answering(h) == childReader.pc \in AnswerSteps /\ childReader.a.handle = h
Replying(h) == childReader.pc = "ack" /\ childReader.a.handle = h
Acking(h) == \E i \in 1 .. Len(toParent) : toParent[i].type = "ack" /\ toParent[i].a.handle = h
Nacking(h) ==
    \E i \in 1 .. Len(toParent) :
        toParent[i].type = "ack" /\ toParent[i].a.handle = h /\ ~toParent[i].ok
Acknowledged(h) == \E p \in pending : p.handle = h /\ p.acknowledged
Framed(h) ==
    \/ \E i \in 1 .. Len(toParent) : toParent[i].type = "verified" /\ toParent[i].a.handle = h
    \/ reader.pc \in {"lookup", "deliver"} /\ reader.a.handle = h
    \/ \E p \in published : p.for.handle = h

\* The request, the acknowledgement and what it sets come one after the other;
\* there is a frame only after a positive one.
StageInv ==
    \A h \in Handles :
        /\ Unwritten(h) => ~Requested(h)
        /\ Unwritten(h) \/ Requested(h) => ~Answering(h)
        /\ Unwritten(h) \/ Requested(h) \/ Replying(h) => ~Acking(h) /\ ~Framed(h)
        /\ Unwritten(h) \/ Requested(h) \/ Replying(h) \/ Acking(h) => ~Acknowledged(h)
        /\ Nacking(h) => ~Answering(h) /\ ~Framed(h)

\* A connection has one goroutine, which adds one entry, one request and one
\* acknowledgement.
OneCaller ==
    \A c, d \in Callers :
        caller[c].pc # "idle" /\ caller[d].pc # "idle" /\ caller[c].a.handle = caller[d].a.handle
            => c = d
OneEntry ==
    \A c \in Callers : caller[c].pc \in {"enter", "insert"} =>
        \A p \in pending : p.handle # caller[c].a.handle
OneRequest ==
    \A i, j \in 1 .. Len(toChild) : toChild[i].a.handle = toChild[j].a.handle => i = j
OneAck ==
    \A i, j \in 1 .. Len(toParent) :
        toParent[i].type = "ack" /\ toParent[j].type = "ack"
          /\ toParent[i].a.handle = toParent[j].a.handle => i = j

UniqueInv == OneCaller /\ OneEntry /\ OneRequest /\ OneAck

\* A positive acknowledgement of h is among the first n packets of q.
AckedBefore(q, h, n) ==
    \E i \in 1 .. n : q[i].type = "ack" /\ q[i].a.handle = h /\ q[i].ok

\* A frame follows the acknowledgement of its entry, until the socket closes.
FrameInv ==
    ConnOpen =>
        /\ \A j \in 1 .. Len(toParent), p \in pending :
            toParent[j].type = "verified" /\ toParent[j].a.handle = p.handle =>
                p.acknowledged \/ AckedBefore(toParent, p.handle, j)
        /\ childReader.pc \in {"emit", "claim", "send"} =>
            \A p \in pending : p.handle = childReader.a.handle =>
                p.acknowledged \/ AckedBefore(toParent, p.handle, Len(toParent))

\* Why an assignment is refused: it is over, or the child has rejected it and
\* will never produce its frame.
Over(a) == clock >= a.expiresAt \/ closing # "open"
Rejected(h) == ~Unwritten(h) /\ ~Requested(h) /\ ~Answering(h) /\ ~Framed(h)

Lost(a) == Over(a) \/ Rejected(a.handle)

RefusedInv ==
    /\ \A c \in Callers :
        /\ caller[c].pc \in {"enter", "insert"} => caller[c].waiter = "none"
        /\ caller[c].pc = "failing" => closing # "open"
        /\ caller[c].pc \in {"write", "failing", "select", "remove"} /\ caller[c].waiter = "negative"
            => Lost(caller[c].a)
        /\ caller[c].pc \in {"remove", "close"} => Lost(caller[c].a)
    /\ \A a \in refused : Lost(a)

\* The frame being delivered is looked up under its own lifetime.
DeliverInv ==
    /\ reader.pc = "deliver" => reader.expiresAt = reader.a.expiresAt
    /\ PublishedAsProduced

Inv ==
    /\ TypeOK /\ ShapeInv
    /\ ChildInv /\ CloseInv /\ SequenceInv /\ HonestPeers
    /\ OpenInv /\ OnceInv /\ StageInv /\ UniqueInv /\ FrameInv
    /\ RefusedInv /\ DeliverInv

----------------------------------------------------------------------------
(***************************************************************************)
(* Sequences.                                                              *)
(***************************************************************************)
\* What is left of a queue when its head is taken.
LEMMA TailFacts ==
    ASSUME NEW S, NEW q \in Seq(S), q # <<>>
    PROVE  /\ Head(q) \in S /\ Head(q) = q[1] /\ Len(q) >= 1
           /\ Tail(q) \in Seq(S) /\ Len(Tail(q)) = Len(q) - 1
           /\ \A i \in 1 .. Len(Tail(q)) : Tail(q)[i] = q[i + 1] /\ i + 1 \in 1 .. Len(q)
OBVIOUS

\* A queue to which a packet is added.
LEMMA AppendFacts ==
    ASSUME NEW S, NEW q \in Seq(S), NEW x \in S
    PROVE  /\ Append(q, x) \in Seq(S) /\ Len(Append(q, x)) = Len(q) + 1
           /\ \A i \in 1 .. Len(q) : Append(q, x)[i] = q[i]
           /\ Append(q, x)[Len(q) + 1] = x
OBVIOUS

----------------------------------------------------------------------------
(***************************************************************************)
(* Records.                                                                *)
(***************************************************************************)
LEMMA RecordFacts ==
    /\ 0 \in Instants /\ Instants \subseteq Nat
    /\ \A h \in Handles, k \in Correlations, e \in Instants :
        [handle |-> h, correlation |-> k, expiresAt |-> e] \in Assignments
    /\ \A a \in Assignments :
        a.handle \in Handles /\ a.correlation \in Correlations /\ a.expiresAt \in Instants
BY TimeAssumption DEF Instants, Assignments

\* A call of AssignConnection is granted, meets a duplicate or is invalid.
LEMMA AssignCases ==
    ASSUME Inv, NEW c \in Callers, AssignCall(c)
    PROVE  \/ \E a \in Assignments : AssignGranted(c, a) \/ AssignDuplicate(c, a)
           \/ \E h \in Handles : AssignInvalid(c, h)
<1>1. PICK h \in reported :
        \/ AssignInvalid(c, h)
        \/ \E k \in Correlations, e \in clock + 1 .. clock + MaxLifetime :
              LET a == [handle |-> h, correlation |-> k, expiresAt |-> e]
              IN  e <= MaxTime /\ (AssignGranted(c, a) \/ AssignDuplicate(c, a))
    BY DEF AssignCall
<1>2. h \in Handles
    BY <1>1 DEF Inv, ShapeInv, HistoryShape
<1>3. ASSUME NEW k \in Correlations, NEW e \in clock + 1 .. clock + MaxLifetime, e <= MaxTime
      PROVE  [handle |-> h, correlation |-> k, expiresAt |-> e] \in Assignments
  <2>1. e \in Instants
      BY <1>3, TimeAssumption DEF Inv, ShapeInv, HistoryShape, Instants
  <2> QED
      BY <1>2, <2>1, RecordFacts
<1> QED
    BY <1>1, <1>2, <1>3

\* Whoever publishes nothing leaves what was published.
LEMMA PublishedKept == UNCHANGED frames => published' = published
BY DEF published

\* deliver publishes at most one frame: that of the assignment it consumes.
LEMMA DeliverFacts ==
    ASSUME Inv, Deliver
    PROVE  /\ frames' \in Seq([to : Assignments, for : Assignments])
           /\ \/ frames' = frames /\ published' = published
              \/ \E p \in brokerPending :
                    /\ p.correlation = reader.a.correlation /\ p.expiresAt = reader.expiresAt
                    /\ frames' = Append(frames, [to |-> p, for |-> reader.a])
                    /\ published' = published \cup {[to |-> p, for |-> reader.a]}
           /\ \A x \in published' :
                \/ x \in published
                \/ /\ x.for = reader.a /\ x.to \in brokerPending
                   /\ x.to.correlation = reader.a.correlation /\ x.to.expiresAt = reader.expiresAt
<1> DEFINE S == [to : Assignments, for : Assignments]
<1>1. frames \in Seq(S) /\ reader.a \in Assignments /\ brokerPending \subseteq Assignments
    BY DEF Inv, TypeOK, ShapeInv, HistoryShape, ReaderShape, Deliver
<1>3. ASSUME NEW p \in brokerPending, p.correlation = reader.a.correlation,
             p.expiresAt = reader.expiresAt,
             frames' = Append(frames, [to |-> FrameOf(p), for |-> reader.a])
      PROVE  /\ frames' = Append(frames, [to |-> p, for |-> reader.a]) /\ frames' \in Seq(S)
             /\ published' = published \cup {[to |-> p, for |-> reader.a]}
  <2> DEFINE x == [to |-> p, for |-> reader.a]
  <2>1. FrameOf(p) = p
      BY <1>1, <1>3 DEF FrameOf, Assignments
  <2>2. x \in S
      BY <1>1
  <2>3. frames' = Append(frames, x)
      BY <1>3, <2>1
  <2> HIDE DEF x
  <2>4. /\ frames' \in Seq(S) /\ Len(frames') = Len(frames) + 1 /\ Len(frames) \in Nat
        /\ \A i \in 1 .. Len(frames) : frames'[i] = frames[i]
        /\ frames'[Len(frames) + 1] = x
      BY <1>1, <2>2, <2>3, AppendFacts
  <2>5. published' = published \cup {x}
    <3>1. 1 .. Len(frames') = (1 .. Len(frames)) \cup {Len(frames) + 1}
        BY <2>4
    <3> QED
        BY <2>4, <3>1 DEF published
  <2> QED
      BY <2>3, <2>4, <2>5 DEF x
<1>4. \/ UNCHANGED frames
      \/ \E p \in brokerPending :
            /\ p.correlation = reader.a.correlation /\ p.expiresAt = reader.expiresAt
            /\ frames' = Append(frames, [to |-> FrameOf(p), for |-> reader.a])
    BY DEF Deliver
<1>5. ASSUME NEW p \in brokerPending, p.correlation = reader.a.correlation,
             p.expiresAt = reader.expiresAt,
             published' = published \cup {[to |-> p, for |-> reader.a]},
             NEW x \in published', x \notin published
      PROVE  /\ x.for = reader.a /\ x.to \in brokerPending
             /\ x.to.correlation = reader.a.correlation /\ x.to.expiresAt = reader.expiresAt
  <2>1. x = [to |-> p, for |-> reader.a]
      BY <1>5
  <2>2. x.to = p /\ x.for = reader.a
      BY <2>1
  <2> QED
      BY <1>5, <2>2
<1>6. \/ frames' = frames /\ published' = published /\ frames' \in Seq(S)
      \/ \E p \in brokerPending :
            /\ p.correlation = reader.a.correlation /\ p.expiresAt = reader.expiresAt
            /\ frames' = Append(frames, [to |-> p, for |-> reader.a]) /\ frames' \in Seq(S)
            /\ published' = published \cup {[to |-> p, for |-> reader.a]}
  <2>1. CASE UNCHANGED frames
      BY <1>1, <2>1, PublishedKept
  <2> QED
      BY <1>3, <1>4, <2>1
<1>7. CASE published' = published
    BY <1>6, <1>7
<1> QED
    BY <1>5, <1>6, <1>7

\* The next packet of each direction.
LEMMA HeadFacts ==
    ASSUME Inv
    PROVE  /\ toChild # <<>> => Head(toChild).a \in Assignments
           /\ toParent # <<>> =>
                /\ Head(toParent).type \in {"open", "ack", "verified"}
                /\ Head(toParent).ok \in BOOLEAN
                /\ Head(toParent).a.handle \in Handles
                /\ Head(toParent).type # "open" => Head(toParent).a \in Assignments
<1>1. ASSUME toChild # <<>> PROVE Head(toChild) \in Requests
    BY <1>1, TailFacts DEF Inv, ShapeInv, SocketShape
<1>2. ASSUME toParent # <<>>
      PROVE  Head(toParent) \in Packets
             /\ (Head(toParent).type # "open" => Head(toParent).a \in Assignments)
    BY <1>2, TailFacts DEF Inv, ShapeInv, SocketShape
<1>3. \A x \in Packets : x.type \in {"open", "ack", "verified"} /\ x.ok \in BOOLEAN /\ x.a.handle \in Handles
    BY RecordFacts DEF Packets
<1> QED
    BY <1>1, <1>2, <1>3 DEF Requests

----------------------------------------------------------------------------
(***************************************************************************)
(* Every step keeps the shapes.                                            *)
(***************************************************************************)
\* The goroutines in assign.
LEMMA NextCaller == Inv /\ [Next]_vars => CallerShape'
<1> SUFFICES ASSUME Inv, [Next]_vars PROVE CallerShape'
    OBVIOUS
<1> USE DEF broker, session, sequences, socket, endpoint, history
<1>1. CASE UNCHANGED <<caller>>
    BY <1>1 DEF Inv, ShapeInv, CallerShape
<1>2. CASE CloseGate \/ CloseDone \/ CloseDeactivate \/ CloseConn
    BY <1>2, <1>1 DEF CloseGate, CloseDone, CloseDeactivate, BrokerCleared, CloseConn
<1>3. CASE (\E c \in Callers, a \in Assignments : AssignDuplicate(c, a))
             \/ (\E c \in Callers, h \in Handles : AssignInvalid(c, h))
    BY <1>3, <1>1 DEF AssignDuplicate, AssignInvalid
<1>4. CASE ReadError \/ ReaderEnds \/ ReadOpen \/ ReadVerified \/ DeliverLookup
             \/ Deliver \/ OwnerStep \/ (\E a \in brokerPending : BrokerExpire(a))
    BY <1>4, <1>1 DEF BrokerExpire, ReadError, ReaderFails, Fail, ReaderEnds, ReadOpen,
       Receive, BrokerCleared, ReadVerified, DeliverLookup, Deliver, Consume, OwnerStep
<1>5. CASE ChildRead \/ ChildEOF \/ ChildAck \/ ChildEmit \/ ChildClaim \/ ChildSend
             \/ ChildClear \/ ChildDies \/ Tick
             \/ (\E h \in Handles : ChildOpen(h) \/ ChildClose(h))
             \/ (\E a \in assignments : ChildExpire(a))
    BY <1>5, <1>1 DEF ChildOpen, CloseTransport, Send, ChildClose, ForgetHandle, Forget,
       ChildRead, ChildEOF, ChildAck, ReaderWrites, ChildEmit, ChildClaim, ChildSend,
       ChildClear, ChildExpire, ChildDies, Tick
<1>6. ASSUME CloseClear PROVE CallerShape'
    BY <1>6 DEF Inv, ShapeInv, CallerShape, CallerSteps, CloseClear, Notify
<1>7. ASSUME NEW c \in Callers, NEW a \in Assignments, AssignGranted(c, a) PROVE CallerShape'
    BY <1>7 DEF Inv, ShapeInv, CallerShape, CallerSteps, AssignGranted
<1>8. ASSUME NEW c \in Callers, AssignEnter(c) PROVE CallerShape'
    BY <1>8 DEF Inv, ShapeInv, CallerShape, CallerSteps, AssignEnter, Goto
<1>9. ASSUME NEW c \in Callers, AssignInsert(c) PROVE CallerShape'
    BY <1>9 DEF Inv, ShapeInv, CallerShape, CallerSteps, AssignInsert, Goto
<1>10. ASSUME NEW c \in Callers, AssignWrite(c) PROVE CallerShape'
    BY <1>10 DEF Inv, ShapeInv, CallerShape, CallerSteps, AssignWrite, Goto, Fail
<1>11. ASSUME NEW c \in Callers, AssignFailed(c) PROVE CallerShape'
    BY <1>11 DEF Inv, ShapeInv, CallerShape, CallerSteps, AssignFailed, Goto
<1>11a. ASSUME NEW c \in Callers, AssignLock(c) PROVE CallerShape'
    BY <1>11a DEF Inv, ShapeInv, CallerShape, CallerSteps, AssignLock, Goto
<1>12. ASSUME NEW c \in Callers, AssignSelect(c) PROVE CallerShape'
    BY <1>12 DEF Inv, ShapeInv, CallerShape, CallerSteps, AssignSelect, Goto, IdleCaller
<1>13. ASSUME NEW c \in Callers, AssignRemove(c) PROVE CallerShape'
    BY <1>13 DEF Inv, ShapeInv, CallerShape, CallerSteps, AssignRemove, Goto
<1>14. ASSUME NEW c \in Callers, AssignClose(c) PROVE CallerShape'
    BY <1>14 DEF Inv, ShapeInv, CallerShape, CallerSteps, AssignClose, IdleCaller
<1>15. ASSUME NEW p \in pending, expirePending(p) PROVE CallerShape'
    BY <1>15 DEF Inv, ShapeInv, CallerShape, CallerSteps, expirePending, Notify
<1>16. ASSUME ReadACK PROVE CallerShape'
    BY <1>16, SMTT(40) DEF Inv, ShapeInv, CallerShape, CallerSteps, ReadACK, Receive, Reading,
       ReaderFails, Fail, Notify
<1> QED
    BY AssignCases, <1>1, <1>2, <1>3, <1>4, <1>5, <1>6, <1>7, <1>8, <1>9, <1>10, <1>11, <1>11a,
       <1>12, <1>13, <1>14, <1>15, <1>16
       DEF Next, CloseStep, AssignStep, ReaderStep, ChildStep, vars

\* The goroutine in readLoop.
LEMMA NextReader == Inv /\ [Next]_vars => ReaderShape'
<1> SUFFICES ASSUME Inv, [Next]_vars PROVE ReaderShape'
    OBVIOUS
<1> USE DEF broker, session, sequences, socket, endpoint, history
<1>1. CASE UNCHANGED <<reader>>
    BY <1>1 DEF Inv, ShapeInv, ReaderShape
<1>2. CASE CloseGate \/ CloseDone \/ CloseDeactivate \/ CloseConn \/ CloseClear
    BY <1>2, <1>1 DEF CloseGate, CloseDone, CloseDeactivate, BrokerCleared, CloseConn,
       CloseClear
<1>3. CASE 
             (\E c \in Callers : AssignEnter(c) \/ AssignInsert(c) \/ AssignWrite(c)
                                 \/ AssignLock(c) \/ AssignFailed(c) \/ AssignSelect(c)
                                 \/ AssignRemove(c)
                                 \/ AssignClose(c))
             \/ (\E c \in Callers, a \in Assignments : AssignGranted(c, a) \/ AssignDuplicate(c, a))
             \/ (\E c \in Callers, h \in Handles : AssignInvalid(c, h))
    BY <1>3, <1>1 DEF AssignGranted, AssignDuplicate, AssignInvalid, AssignEnter, AssignInsert,
       AssignWrite, Fail, AssignLock, AssignFailed, AssignSelect, AssignRemove, AssignClose
<1>4. CASE OwnerStep \/ (\E a \in brokerPending : BrokerExpire(a))
             \/ (\E p \in pending : expirePending(p))
    BY <1>4, <1>1 DEF BrokerExpire, expirePending, OwnerStep, Fail
<1>5. CASE ChildRead \/ ChildEOF \/ ChildAck \/ ChildEmit \/ ChildClaim \/ ChildSend
             \/ ChildClear \/ ChildDies \/ Tick
             \/ (\E h \in Handles : ChildOpen(h) \/ ChildClose(h))
             \/ (\E a \in assignments : ChildExpire(a))
    BY <1>5, <1>1 DEF ChildOpen, CloseTransport, Send, ChildClose, ForgetHandle, Forget,
       ChildRead, ChildEOF, ChildAck, ReaderWrites, ChildEmit, ChildClaim, ChildSend,
       ChildClear, ChildExpire, ChildDies, Tick
<1>6. ASSUME ReadError PROVE ReaderShape'
    BY <1>6, RecordFacts, HeadFacts DEF Inv, TypeOK, ShapeInv, ReaderShape, ReaderSteps,
       ReadError, ReaderFails, Fail
<1>7. ASSUME ReaderEnds PROVE ReaderShape'
    BY <1>7, RecordFacts, HeadFacts DEF Inv, TypeOK, ShapeInv, ReaderShape, ReaderSteps,
       ReaderEnds, Listening
<1>8. ASSUME ReadOpen PROVE ReaderShape'
    BY <1>8, RecordFacts, HeadFacts DEF Inv, TypeOK, ShapeInv, ReaderShape, ReaderSteps,
       ReadOpen, Receive, Reading, BrokerCleared, ReaderFails, Fail
<1>9. ASSUME ReadACK PROVE ReaderShape'
    BY <1>9, RecordFacts, HeadFacts DEF Inv, TypeOK, ShapeInv, ReaderShape, ReaderSteps,
       ReadACK, Receive, Reading, ReaderFails, Fail, Notify
<1>10. ASSUME ReadVerified PROVE ReaderShape'
    BY <1>10, RecordFacts, HeadFacts DEF Inv, TypeOK, ShapeInv, ReaderShape, ReaderSteps,
       ReadVerified, Receive, Reading, ReaderFails, Fail
<1>11. ASSUME DeliverLookup PROVE ReaderShape'
  <2>1. CASE reader' = Listening
      BY <2>1, RecordFacts DEF ReaderShape, ReaderSteps, Listening
  <2>2. ASSUME NEW p \in brokerPending,
               reader' = [reader EXCEPT !.pc = "deliver", !.expiresAt = p.expiresAt]
        PROVE  ReaderShape'
    <3>1. p.expiresAt \in Instants
        BY RecordFacts DEF Inv, TypeOK
    <3> QED
        BY <1>11, <2>2, <3>1 DEF Inv, ShapeInv, ReaderShape, ReaderSteps, DeliverLookup
  <2> QED
      BY <1>11, <2>1, <2>2 DEF DeliverLookup
<1>12. ASSUME Deliver PROVE ReaderShape'
    BY <1>12, RecordFacts, HeadFacts DEF Inv, TypeOK, ShapeInv, ReaderShape, ReaderSteps,
       Deliver, Consume, Listening, BrokerCleared, ReaderFails, Fail
<1> QED
    BY AssignCases, <1>1, <1>2, <1>3, <1>4, <1>5, <1>6, <1>7, <1>8, <1>9, <1>10, <1>11,
       <1>12
       DEF Next, CloseStep, AssignStep, ReaderStep, ChildStep, vars

\* The child's reader thread.
LEMMA NextAnswer == Inv /\ [Next]_vars => AnswerShape'
<1> SUFFICES ASSUME Inv, [Next]_vars PROVE AnswerShape'
    OBVIOUS
<1> USE DEF broker, session, sequences, socket, endpoint, history
<1>1. CASE UNCHANGED <<childReader>>
    BY <1>1 DEF Inv, ShapeInv, AnswerShape
<1>2. CASE CloseGate \/ CloseDone \/ CloseDeactivate \/ CloseConn \/ CloseClear
    BY <1>2, <1>1 DEF CloseGate, CloseDone, CloseDeactivate, BrokerCleared, CloseConn,
       CloseClear
<1>3. CASE 
             (\E c \in Callers : AssignEnter(c) \/ AssignInsert(c) \/ AssignWrite(c)
                                 \/ AssignLock(c) \/ AssignFailed(c) \/ AssignSelect(c)
                                 \/ AssignRemove(c)
                                 \/ AssignClose(c))
             \/ (\E c \in Callers, a \in Assignments : AssignGranted(c, a) \/ AssignDuplicate(c, a))
             \/ (\E c \in Callers, h \in Handles : AssignInvalid(c, h))
    BY <1>3, <1>1 DEF AssignGranted, AssignDuplicate, AssignInvalid, AssignEnter, AssignInsert,
       AssignWrite, Fail, AssignLock, AssignFailed, AssignSelect, AssignRemove, AssignClose
<1>4. CASE ReadError \/ ReaderEnds \/ ReadOpen \/ ReadACK \/ ReadVerified
             \/ DeliverLookup \/ Deliver \/ OwnerStep
             \/ (\E a \in brokerPending : BrokerExpire(a))
             \/ (\E p \in pending : expirePending(p))
    BY <1>4, <1>1 DEF BrokerExpire, expirePending, ReadError, ReaderFails, Fail, ReaderEnds,
       ReadOpen, Receive, BrokerCleared, ReadACK, ReadVerified, DeliverLookup, Deliver, Consume,
       OwnerStep
<1>5. CASE Tick \/ (\E h \in Handles : ChildOpen(h) \/ ChildClose(h))
             \/ (\E a \in assignments : ChildExpire(a))
    BY <1>5, <1>1 DEF ChildOpen, CloseTransport, Send, ChildClose, ForgetHandle, Forget,
       ChildExpire, Tick
<1>6. ASSUME ChildRead PROVE AnswerShape'
  <2>1. Acceptable(Head(toChild).a) \in BOOLEAN
      BY DEF Acceptable
  <2> QED
      BY <1>6, <2>1, HeadFacts DEF Inv, ShapeInv, AnswerShape, AnswerSteps, ChildRead
<1>7. ASSUME ChildEOF PROVE AnswerShape'
    BY <1>7 DEF Inv, ShapeInv, AnswerShape, AnswerSteps, ChildEOF, CloseTransport
<1>8. ASSUME ChildAck PROVE AnswerShape'
    BY <1>8 DEF Inv, ShapeInv, AnswerShape, AnswerSteps, ChildAck, ReaderWrites, Send,
       Packet, CloseTransport
<1>9. ASSUME ChildEmit PROVE AnswerShape'
    BY <1>9 DEF Inv, ShapeInv, AnswerShape, AnswerSteps, ChildEmit
<1>10. ASSUME ChildClaim PROVE AnswerShape'
    BY <1>10 DEF Inv, ShapeInv, AnswerShape, AnswerSteps, ChildClaim, Forget
<1>11. ASSUME ChildSend PROVE AnswerShape'
    BY <1>11 DEF Inv, ShapeInv, AnswerShape, AnswerSteps, ChildSend, ReaderWrites, Send,
       Packet, CloseTransport
<1>12. ASSUME ChildClear PROVE AnswerShape'
    BY <1>12 DEF Inv, ShapeInv, AnswerShape, AnswerSteps, ChildClear, Forget
<1>13. ASSUME ChildDies PROVE AnswerShape'
    BY <1>13 DEF Inv, ShapeInv, AnswerShape, AnswerSteps, ChildDies
<1> QED
    BY AssignCases, <1>1, <1>2, <1>3, <1>4, <1>5, <1>6, <1>7, <1>8, <1>9, <1>10, <1>11,
       <1>12, <1>13
       DEF Next, CloseStep, AssignStep, ReaderStep, ChildStep, vars

\* The packets that each side may add to the socket.
LEMMA PacketFacts ==
    /\ \A n \in Nat, a \in Assignments : [sequence |-> n, a |-> a] \in Requests
    /\ \A n \in Nat, h \in Handles :
        [type |-> "open", sequence |-> n, a |-> [handle |-> h], ok |-> TRUE] \in Packets
    /\ \A n \in Nat, a \in Assignments, ok \in BOOLEAN, type \in {"ack", "verified"} :
        [type |-> type, sequence |-> n, a |-> a, ok |-> ok] \in Packets
BY DEF Requests, Packets

\* Sending keeps the shape of the packets in transit.
LEMMA SendShape ==
    ASSUME Inv, NEW x \in Packets, x.type # "open" => x.a \in Assignments, Send(x)
    PROVE  /\ toParent' \in Seq(Packets) /\ childWrite' \in Nat
           /\ \A i \in 1 .. Len(toParent') :
                toParent'[i].type # "open" => toParent'[i].a \in Assignments
<1>1. toParent \in Seq(Packets) /\ toParent' = Append(toParent, x) /\ childWrite' = childWrite + 1
    BY DEF Inv, ShapeInv, SocketShape, Send
<1>2. /\ Append(toParent, x) \in Seq(Packets) /\ Len(Append(toParent, x)) = Len(toParent) + 1
      /\ \A i \in 1 .. Len(toParent) : Append(toParent, x)[i] = toParent[i]
      /\ Append(toParent, x)[Len(toParent) + 1] = x
    BY <1>1, AppendFacts
<1>3. Len(toParent) \in Nat
    BY <1>1
<1> QED
    BY <1>1, <1>2, <1>3 DEF Inv, ShapeInv, SocketShape

\* The socket.
LEMMA NextSocket == Inv /\ [Next]_vars => SocketShape'
<1> SUFFICES ASSUME Inv, [Next]_vars PROVE SocketShape'
    OBVIOUS
<1> USE DEF broker, session, sequences, socket, endpoint, history
<1>1. CASE UNCHANGED <<toChild, toParent, writeSequence, readSequence, childRead, childWrite>>
    BY <1>1 DEF Inv, ShapeInv, SocketShape
<1>2. CASE CloseGate \/ CloseDone \/ CloseDeactivate \/ CloseClear
    BY <1>2, <1>1 DEF CloseGate, CloseDone, CloseDeactivate, BrokerCleared, CloseClear
<1>3. CASE 
             (\E c \in Callers : AssignEnter(c) \/ AssignInsert(c) \/ AssignLock(c) \/ AssignFailed(c)
                                 \/ AssignSelect(c) \/ AssignRemove(c) \/ AssignClose(c))
             \/ (\E c \in Callers, a \in Assignments : AssignGranted(c, a) \/ AssignDuplicate(c, a))
             \/ (\E c \in Callers, h \in Handles : AssignInvalid(c, h))
    BY <1>3, <1>1 DEF AssignGranted, AssignDuplicate, AssignInvalid, AssignEnter, AssignInsert,
       AssignLock, AssignFailed, AssignSelect, AssignRemove, AssignClose
<1>4. CASE ReadError \/ ReaderEnds \/ DeliverLookup \/ Deliver \/ OwnerStep
             \/ (\E a \in brokerPending : BrokerExpire(a))
             \/ (\E p \in pending : expirePending(p))
    BY <1>4, <1>1 DEF BrokerExpire, expirePending, ReadError, ReaderFails, Fail, ReaderEnds,
       DeliverLookup, Deliver, Consume, BrokerCleared, OwnerStep
<1>5. CASE ChildEOF \/ ChildEmit \/ ChildClaim \/ ChildClear \/ Tick
             \/ (\E h \in Handles : ChildClose(h))
             \/ (\E a \in assignments : ChildExpire(a))
    BY <1>5, <1>1 DEF ChildClose, ForgetHandle, Forget, ChildEOF, CloseTransport, ChildEmit,
       ChildClaim, ChildClear, ChildExpire, Tick
<1>6. ASSUME CloseConn PROVE SocketShape'
    BY <1>6, TailFacts DEF Inv, ShapeInv, SocketShape, CloseConn
<1>7. ASSUME NEW c \in Callers, AssignWrite(c) PROVE SocketShape'
  <2>1. caller[c].a \in Assignments
      BY <1>7 DEF Inv, ShapeInv, CallerShape, AssignWrite
  <2>2. [sequence |-> writeSequence + 1, a |-> caller[c].a] \in Requests
      BY <2>1, PacketFacts DEF Inv, ShapeInv, SocketShape
  <2>3. Append(toChild, [sequence |-> writeSequence + 1, a |-> caller[c].a]) \in Seq(Requests)
      BY <2>2, AppendFacts DEF Inv, ShapeInv, SocketShape
  <2>4. \/ toChild' = toChild
        \/ toChild' = Append(toChild, [sequence |-> writeSequence + 1, a |-> caller[c].a])
      BY <1>7 DEF AssignWrite
  <2>5. writeSequence' \in {writeSequence, writeSequence + 1}
        /\ UNCHANGED <<toParent, readSequence, childRead, childWrite>>
      BY <1>7 DEF AssignWrite
  <2>6. toChild' \in Seq(Requests)
      BY <2>3, <2>4 DEF Inv, ShapeInv, SocketShape
  <2>7. writeSequence' \in Nat
      BY <2>5 DEF Inv, ShapeInv, SocketShape
  <2> QED
      BY <2>5, <2>6, <2>7 DEF Inv, ShapeInv, SocketShape
<1>8. ASSUME ReadOpen PROVE SocketShape'
    BY <1>8, TailFacts DEF Inv, ShapeInv, SocketShape, ReadOpen, Receive, Reading,
       BrokerCleared, ReaderFails, Fail
<1>9. ASSUME ReadACK PROVE SocketShape'
    BY <1>9, TailFacts DEF Inv, ShapeInv, SocketShape, ReadACK, Receive, Reading,
       ReaderFails, Fail, Notify
<1>10. ASSUME ReadVerified PROVE SocketShape'
    BY <1>10, TailFacts DEF Inv, ShapeInv, SocketShape, ReadVerified, Receive, Reading,
       ReaderFails, Fail
<1>11. ASSUME NEW h \in Handles, ChildOpen(h) PROVE SocketShape'
  <2> DEFINE x == Packet("open", [handle |-> h], TRUE)
  <2>1. x \in Packets /\ x.type = "open"
      BY PacketFacts DEF Packet, Inv, ShapeInv, SocketShape
  <2>2. CASE Send(x)
      BY <1>11, <2>1, <2>2, SendShape DEF Inv, ShapeInv, SocketShape, ChildOpen
  <2>3. CASE UNCHANGED <<childWrite, toParent>>
      BY <1>11, <2>3 DEF Inv, ShapeInv, SocketShape, ChildOpen
  <2> QED
      BY <1>11, <2>2, <2>3 DEF ChildOpen
<1>12. ASSUME ChildRead PROVE SocketShape'
    BY <1>12, TailFacts DEF Inv, ShapeInv, SocketShape, ChildRead, CloseTransport
<1>13. ASSUME ChildAck PROVE SocketShape'
  <2> DEFINE x == Packet("ack", childReader.a, childReader.ok)
  <2>1. childReader.a \in Assignments /\ childReader.ok \in BOOLEAN
      BY <1>13 DEF Inv, ShapeInv, AnswerShape, AnswerSteps, ChildAck
  <2>2. x \in Packets /\ x.a \in Assignments
      BY <2>1, PacketFacts DEF Packet, Inv, ShapeInv, SocketShape
  <2>3. CASE Send(x)
      BY <1>13, <2>2, <2>3, SendShape DEF Inv, ShapeInv, SocketShape, ChildAck, ReaderWrites
  <2>4. CASE UNCHANGED <<toParent, childWrite>>
      BY <1>13, <2>4 DEF Inv, ShapeInv, SocketShape, ChildAck, ReaderWrites
  <2> QED
      BY <1>13, <2>3, <2>4 DEF ChildAck, ReaderWrites
<1>14. ASSUME ChildSend PROVE SocketShape'
  <2> DEFINE x == Packet("verified", childReader.a, childReader.ok)
  <2>1. childReader.a \in Assignments /\ childReader.ok \in BOOLEAN
      BY <1>14 DEF Inv, ShapeInv, AnswerShape, AnswerSteps, ChildSend
  <2>2. x \in Packets /\ x.a \in Assignments
      BY <2>1, PacketFacts DEF Packet, Inv, ShapeInv, SocketShape
  <2>3. CASE Send(x)
      BY <1>14, <2>2, <2>3, SendShape DEF Inv, ShapeInv, SocketShape, ChildSend,
         ReaderWrites
  <2>4. CASE UNCHANGED <<toParent, childWrite>>
      BY <1>14, <2>4 DEF Inv, ShapeInv, SocketShape, ChildSend, ReaderWrites
  <2> QED
      BY <1>14, <2>3, <2>4 DEF ChildSend, ReaderWrites
<1>15. ASSUME ChildDies PROVE SocketShape'
    BY <1>15, TailFacts DEF Inv, ShapeInv, SocketShape, ChildDies
<1> QED
    BY AssignCases, <1>1, <1>2, <1>3, <1>4, <1>5, <1>6, <1>7, <1>8, <1>9, <1>10, <1>11,
       <1>12, <1>13, <1>14, <1>15
       DEF Next, CloseStep, AssignStep, ReaderStep, ChildStep, vars

\* The clock and the histories.
LEMMA NextHistory == Inv /\ [Next]_vars => HistoryShape'
<1> SUFFICES ASSUME Inv, [Next]_vars PROVE HistoryShape'
    OBVIOUS
<1> USE PublishedKept DEF broker, session, sequences, socket, endpoint, history
<1>1. CASE UNCHANGED <<clock, reported, frames, refused>>
    BY <1>1 DEF Inv, ShapeInv, HistoryShape
<1>2. CASE CloseGate \/ CloseDone \/ CloseDeactivate \/ CloseConn \/ CloseClear
    BY <1>2, <1>1 DEF CloseGate, CloseDone, CloseDeactivate, BrokerCleared, CloseConn,
       CloseClear
<1>3. CASE 
             (\E c \in Callers : AssignEnter(c) \/ AssignInsert(c) \/ AssignWrite(c)
                                 \/ AssignLock(c) \/ AssignFailed(c) \/ AssignSelect(c)
                                 \/ AssignRemove(c))
             \/ (\E c \in Callers, a \in Assignments : AssignGranted(c, a) \/ AssignDuplicate(c, a))
             \/ (\E c \in Callers, h \in Handles : AssignInvalid(c, h))
    BY <1>3, <1>1 DEF AssignGranted, AssignDuplicate, AssignInvalid, AssignEnter, AssignInsert,
       AssignWrite, Fail, AssignLock, AssignFailed, AssignSelect, AssignRemove
<1>4. CASE ReadError \/ ReaderEnds \/ ReadOpen \/ ReadACK \/ ReadVerified
             \/ DeliverLookup \/ OwnerStep \/ (\E a \in brokerPending : BrokerExpire(a))
             \/ (\E p \in pending : expirePending(p))
    BY <1>4, <1>1 DEF BrokerExpire, expirePending, ReadError, ReaderFails, Fail, ReaderEnds,
       ReadOpen, Receive, BrokerCleared, ReadACK, ReadVerified, DeliverLookup, OwnerStep
<1>5. CASE ChildRead \/ ChildEOF \/ ChildAck \/ ChildEmit \/ ChildClaim \/ ChildSend
             \/ ChildClear \/ ChildDies \/ (\E h \in Handles : ChildClose(h))
             \/ (\E a \in assignments : ChildExpire(a))
    BY <1>5, <1>1 DEF ChildClose, ForgetHandle, Forget, ChildRead, CloseTransport, ChildEOF,
       ChildAck, ReaderWrites, Send, ChildEmit, ChildClaim, ChildSend, ChildClear,
       ChildExpire, ChildDies
<1>6. ASSUME NEW c \in Callers, AssignClose(c) PROVE HistoryShape'
  <2>1. caller[c].a \in Assignments
      BY <1>6 DEF Inv, ShapeInv, CallerShape, AssignClose
  <2> QED
      BY <1>6, <2>1 DEF Inv, ShapeInv, HistoryShape, AssignClose
<1>7. ASSUME Deliver PROVE HistoryShape'
  <2>1. reader.a \in Assignments /\ brokerPending \subseteq Assignments
      BY <1>7 DEF Inv, TypeOK, ShapeInv, ReaderShape, Deliver
  <2>2. \A p \in brokerPending : [to |-> p, for |-> reader.a] \in [to : Assignments, for : Assignments]
      BY <2>1
  <2>3. /\ frames' \in Seq([to : Assignments, for : Assignments])
        /\ published' \subseteq published \cup {[to |-> p, for |-> reader.a] : p \in brokerPending}
      BY <1>7, DeliverFacts
  <2>4. UNCHANGED <<clock, reported, refused>>
      BY <1>7 DEF Deliver
  <2> QED
      BY <2>2, <2>3, <2>4 DEF Inv, ShapeInv, HistoryShape
<1>8. ASSUME NEW h \in Handles, ChildOpen(h) PROVE HistoryShape'
    BY <1>8 DEF Inv, ShapeInv, HistoryShape, ChildOpen, CloseTransport, Send, Packet
<1>9. ASSUME Tick PROVE HistoryShape'
    BY <1>9, TimeAssumption DEF Inv, ShapeInv, HistoryShape, Instants, Tick
<1> QED
    BY AssignCases, <1>1, <1>2, <1>3, <1>4, <1>5, <1>6, <1>7, <1>8, <1>9
       DEF Next, CloseStep, AssignStep, ReaderStep, ChildStep, vars

\* deliverIPCFrame finds its assignment, or drops the frame.
LEMMA LookupFacts ==
    ASSUME Inv, DeliverLookup
    PROVE  /\ reader.pc = "lookup"
           /\ \/ reader' = Listening /\ reader'.pc = "read"
              \/ \E p \in brokerPending :
                    /\ Key(p) = Key(reader.a) /\ reader'.expiresAt = p.expiresAt
                    /\ reader'.pc = "deliver" /\ reader'.a = reader.a
<1>1. CASE reader' = Listening
    BY <1>1 DEF DeliverLookup, Listening
<1>2. ASSUME NEW p \in brokerPending, Key(p) = Key(reader.a),
             reader' = [reader EXCEPT !.pc = "deliver", !.expiresAt = p.expiresAt]
      PROVE  /\ reader'.expiresAt = p.expiresAt
             /\ reader'.pc = "deliver" /\ reader'.a = reader.a
    BY <1>2 DEF Inv, ShapeInv, ReaderShape
<1> QED
    BY <1>1, <1>2 DEF DeliverLookup

\* readLoop takes the next packet.
LEMMA ReceiveFacts ==
    ASSUME Inv, NEW type, Receive(type)
    PROVE  /\ reader.pc = "read" /\ ConnOpen
           /\ 1 \in 1 .. Len(toParent) /\ Head(toParent) = toParent[1] /\ toParent[1].type = type
           /\ Len(toParent') = Len(toParent) - 1
           /\ \A i \in 1 .. Len(toParent') :
                toParent'[i] = toParent[i + 1] /\ i + 1 \in 1 .. Len(toParent)
           /\ readSequence' = readSequence + 1
<1>1. toParent \in Seq(Packets) /\ toParent # <<>>
    BY DEF Inv, ShapeInv, SocketShape, Receive, Reading
<1>2. /\ Head(toParent) = toParent[1] /\ Len(toParent) >= 1
      /\ Len(Tail(toParent)) = Len(toParent) - 1
      /\ \A i \in 1 .. Len(Tail(toParent)) :
            Tail(toParent)[i] = toParent[i + 1] /\ i + 1 \in 1 .. Len(toParent)
    BY <1>1, TailFacts
<1>3. Len(toParent) \in Nat
    BY <1>1
<1> QED
    BY <1>2, <1>3 DEF Receive, Reading

\* The child puts a packet on the socket.
LEMMA SendFacts ==
    ASSUME Inv, NEW x \in Packets, Send(x)
    PROVE  /\ Len(toParent) \in Nat
           /\ Len(toParent') = Len(toParent) + 1 /\ childWrite' = childWrite + 1
           /\ \A i \in 1 .. Len(toParent) : toParent'[i] = toParent[i] /\ i \in 1 .. Len(toParent')
           /\ toParent'[Len(toParent) + 1] = x
           /\ \A i \in 1 .. Len(toParent') :
                \/ i \in 1 .. Len(toParent) /\ toParent'[i] = toParent[i]
                \/ i = Len(toParent) + 1 /\ toParent'[i] = x
<1>1. /\ Len(toParent) \in Nat
      /\ Len(toParent') = Len(toParent) + 1 /\ childWrite' = childWrite + 1
      /\ \A i \in 1 .. Len(toParent) : toParent'[i] = toParent[i]
      /\ toParent'[Len(toParent) + 1] = x
    BY AppendFacts DEF Inv, ShapeInv, SocketShape, Send
<1>2. ASSUME NEW i \in 1 .. Len(toParent')
      PROVE  i \in 1 .. Len(toParent) \/ i = Len(toParent) + 1
    BY <1>1
<1> QED
    BY <1>1, <1>2

\* What the child's threads put there.
LEMMA ChildSends ==
    ASSUME Inv
    PROVE  /\ \A h \in Handles : ChildOpen(h) =>
                \/ UNCHANGED <<toParent, childWrite>>
                \/ /\ ConnOpen /\ Packet("open", [handle |-> h], TRUE) \in Packets
                   /\ Send(Packet("open", [handle |-> h], TRUE))
           /\ ChildAck =>
                \/ UNCHANGED <<toParent, childWrite>>
                \/ /\ CanSend /\ Packet("ack", childReader.a, childReader.ok) \in Packets
                   /\ Send(Packet("ack", childReader.a, childReader.ok))
           /\ ChildSend =>
                \/ UNCHANGED <<toParent, childWrite>>
                \/ /\ CanSend /\ Packet("verified", childReader.a, childReader.ok) \in Packets
                   /\ Send(Packet("verified", childReader.a, childReader.ok))
<1>1. childWrite \in Nat
    BY DEF Inv, ShapeInv, SocketShape
<1>2. ASSUME NEW h \in Handles, ChildOpen(h)
      PROVE  \/ UNCHANGED <<toParent, childWrite>>
             \/ /\ ConnOpen /\ Packet("open", [handle |-> h], TRUE) \in Packets
                /\ Send(Packet("open", [handle |-> h], TRUE))
    BY <1>1, <1>2, PacketFacts DEF ChildOpen, Packet
<1>3. ASSUME childReader.pc \in {"ack", "send"}, NEW type \in {"ack", "verified"}
      PROVE  Packet(type, childReader.a, childReader.ok) \in Packets
    BY <1>1, <1>3, PacketFacts DEF Inv, ShapeInv, AnswerShape, AnswerSteps, Packet
<1> QED
    BY <1>2, <1>3 DEF ChildAck, ChildSend, ReaderWrites

\* A goroutine that holds the lock writes its request, unless the socket is
\* closed.
LEMMA WriteFacts ==
    ASSUME Inv, NEW c \in Callers, AssignWrite(c)
    PROVE  /\ caller[c].pc = "write" /\ caller[c].a \in Assignments
           /\ UNCHANGED <<pending, reader, toParent, childReader, published, refused>>
           /\ \/ /\ ConnOpen /\ child = "running"
                 /\ UNCHANGED closing /\ writeSequence' = writeSequence + 1
                 /\ Len(toChild) \in Nat /\ Len(toChild') = Len(toChild) + 1
                 /\ \A i \in 1 .. Len(toChild) : toChild'[i] = toChild[i]
                 /\ toChild'[Len(toChild) + 1] = [sequence |-> writeSequence + 1, a |-> caller[c].a]
                 /\ caller' = [caller EXCEPT ![c].pc = "select"]
              \/ /\ UNCHANGED toChild /\ ~(ConnOpen /\ child = "running")
                 /\ closing # "open" => UNCHANGED closing
                 /\ closing' # "open" /\ (closing = "open" => closing' = "gate")
                 /\ caller' = [caller EXCEPT ![c].pc = "failing"]
<1> DEFINE x == [sequence |-> writeSequence + 1, a |-> caller[c].a]
<1>1. caller[c].pc = "write" /\ caller[c].a \in Assignments
    BY DEF Inv, ShapeInv, CallerShape, AssignWrite
<1>2. x \in Requests /\ toChild \in Seq(Requests)
    BY <1>1, PacketFacts, SMTT(30) DEF Inv, ShapeInv, SocketShape
<1>3. /\ Len(toChild) \in Nat /\ Len(Append(toChild, x)) = Len(toChild) + 1
      /\ \A i \in 1 .. Len(toChild) : Append(toChild, x)[i] = toChild[i]
      /\ Append(toChild, x)[Len(toChild) + 1] = x
    BY <1>2, AppendFacts
<1>4. UNCHANGED <<pending, reader, toParent, childReader, published, refused>>
    BY DEF AssignWrite, endpoint, history, published
<1> HIDE DEF x
<1>5. \/ /\ ConnOpen /\ child = "running"
         /\ UNCHANGED closing /\ writeSequence' = writeSequence + 1
         /\ toChild' = Append(toChild, x)
         /\ caller' = [caller EXCEPT ![c].pc = "select"]
      \/ /\ UNCHANGED toChild /\ ~(ConnOpen /\ child = "running")
         /\ closing # "open" => UNCHANGED closing
         /\ closing' # "open" /\ (closing = "open" => closing' = "gate")
         /\ caller' = [caller EXCEPT ![c].pc = "failing"]
    BY DEF AssignWrite, Goto, Fail, x
<1> QED
    BY <1>1, <1>3, <1>4, <1>5 DEF x

\* The child's reader takes the next request.
LEMMA ReadFacts ==
    ASSUME Inv, ChildRead
    PROVE  /\ childReader.pc = "read" /\ child = "running"
           /\ 1 \in 1 .. Len(toChild) /\ Head(toChild) = toChild[1]
           /\ toChild[1].a \in Assignments
           /\ Len(toChild') = Len(toChild) - 1
           /\ \A i \in 1 .. Len(toChild') :
                toChild'[i] = toChild[i + 1] /\ i + 1 \in 1 .. Len(toChild)
<1>1. toChild \in Seq(Requests) /\ toChild # <<>>
    BY DEF Inv, ShapeInv, SocketShape, ChildRead
<1>2. /\ Head(toChild) = toChild[1] /\ Len(toChild) >= 1
      /\ Len(Tail(toChild)) = Len(toChild) - 1
      /\ \A i \in 1 .. Len(Tail(toChild)) :
            Tail(toChild)[i] = toChild[i + 1] /\ i + 1 \in 1 .. Len(toChild)
    BY <1>1, TailFacts
<1>3. Len(toChild) \in Nat
    BY <1>1
<1> QED
    BY <1>1, <1>2, <1>3, HeadFacts DEF ChildRead

----------------------------------------------------------------------------
(***************************************************************************)
(* The child's maps, the end of the session and the numbers.               *)
(***************************************************************************)
\* The child holds at most the assignment it is answering, in both maps.
LEMMA NextChild == Inv /\ [Next]_vars => ChildInv'
<1> SUFFICES ASSUME Inv, [Next]_vars PROVE ChildInv'
    OBVIOUS
<1> USE DEF broker, session, sequences, socket, endpoint, history
<1>1. CASE UNCHANGED <<childReader, assignments, correlations>>
    BY <1>1 DEF Inv, ChildInv, ChildMapsAgree
<1>2. CASE CloseGate \/ CloseDone \/ CloseDeactivate \/ CloseConn \/ CloseClear
    BY <1>2, <1>1 DEF CloseGate, CloseDone, CloseDeactivate, BrokerCleared, CloseConn,
       CloseClear
<1>3. CASE 
             (\E c \in Callers : AssignEnter(c) \/ AssignInsert(c) \/ AssignWrite(c)
                                 \/ AssignLock(c) \/ AssignFailed(c) \/ AssignSelect(c)
                                 \/ AssignRemove(c)
                                 \/ AssignClose(c))
             \/ (\E c \in Callers, a \in Assignments : AssignGranted(c, a) \/ AssignDuplicate(c, a))
             \/ (\E c \in Callers, h \in Handles : AssignInvalid(c, h))
    BY <1>3, <1>1 DEF AssignGranted, AssignDuplicate, AssignInvalid, AssignEnter, AssignInsert,
       AssignWrite, Fail, AssignLock, AssignFailed, AssignSelect, AssignRemove, AssignClose
<1>4. CASE ReadError \/ ReaderEnds \/ ReadOpen \/ ReadACK \/ ReadVerified
             \/ DeliverLookup \/ Deliver \/ OwnerStep
             \/ (\E a \in brokerPending : BrokerExpire(a))
             \/ (\E p \in pending : expirePending(p))
    BY <1>4, <1>1 DEF BrokerExpire, expirePending, ReadError, ReaderFails, Fail, ReaderEnds,
       ReadOpen, Receive, BrokerCleared, ReadACK, ReadVerified, DeliverLookup, Deliver, Consume,
       OwnerStep
<1>5. CASE Tick
    BY <1>5, <1>1 DEF Tick
<1>6. ASSUME NEW h \in Handles, ChildOpen(h) PROVE ChildInv'
    BY <1>6 DEF Inv, ShapeInv, AnswerShape, AnswerSteps, ChildInv, ChildMapsAgree,
       ChildOpen, CloseTransport, Send, Packet
<1>7. ASSUME NEW h \in Handles, ChildClose(h) PROVE ChildInv'
    BY <1>7 DEF Inv, ShapeInv, AnswerShape, AnswerSteps, ChildInv, ChildMapsAgree,
       ChildClose, ForgetHandle, Forget
<1>8. ASSUME ChildRead PROVE ChildInv'
    BY <1>8 DEF Inv, ShapeInv, AnswerShape, AnswerSteps, ChildInv, ChildMapsAgree,
       ChildRead, CloseTransport
<1>9. ASSUME ChildEOF PROVE ChildInv'
    BY <1>9 DEF Inv, ShapeInv, AnswerShape, AnswerSteps, ChildInv, ChildMapsAgree, ChildEOF,
       CloseTransport
<1>10. ASSUME ChildAck PROVE ChildInv'
    BY <1>10 DEF Inv, ShapeInv, AnswerShape, AnswerSteps, ChildInv, ChildMapsAgree,
       ChildAck, ReaderWrites, Send, Packet, CloseTransport
<1>11. ASSUME ChildEmit PROVE ChildInv'
    BY <1>11 DEF Inv, ShapeInv, AnswerShape, AnswerSteps, ChildInv, ChildMapsAgree,
       ChildEmit
<1>12. ASSUME ChildClaim PROVE ChildInv'
    BY <1>12 DEF Inv, ShapeInv, AnswerShape, AnswerSteps, ChildInv, ChildMapsAgree,
       ChildClaim, Forget
<1>13. ASSUME ChildSend PROVE ChildInv'
    BY <1>13 DEF Inv, ShapeInv, AnswerShape, AnswerSteps, ChildInv, ChildMapsAgree,
       ChildSend, ReaderWrites, Send, Packet, CloseTransport
<1>14. ASSUME ChildClear PROVE ChildInv'
    BY <1>14 DEF Inv, ShapeInv, AnswerShape, AnswerSteps, ChildInv, ChildMapsAgree,
       ChildClear, Forget
<1>15. ASSUME NEW a \in assignments, ChildExpire(a) PROVE ChildInv'
    BY <1>15 DEF Inv, ShapeInv, AnswerShape, AnswerSteps, ChildInv, ChildMapsAgree,
       ChildExpire, Forget
<1>16. ASSUME ChildDies PROVE ChildInv'
    BY <1>16 DEF Inv, ShapeInv, AnswerShape, AnswerSteps, ChildInv, ChildMapsAgree,
       ChildDies
<1> QED
    BY AssignCases, <1>1, <1>2, <1>3, <1>4, <1>5, <1>6, <1>7, <1>8, <1>9, <1>10, <1>11,
       <1>12, <1>13, <1>14, <1>15, <1>16
       DEF Next, CloseStep, AssignStep, ReaderStep, ChildStep, vars

\* What is left of a closed session belongs to an assign that removes it.
LEMMA NextClose == Inv /\ [Next]_vars => CloseInv'
<1> SUFFICES ASSUME Inv, [Next]_vars PROVE CloseInv'
    OBVIOUS
<1> USE DEF broker, session, sequences, socket, endpoint, history
<1>1. CASE UNCHANGED <<closing, reader, pending, caller, owner>>
    BY <1>1 DEF Inv, CloseInv, InFlight
<1>2. CASE (\E c \in Callers, a \in Assignments : AssignDuplicate(c, a))
             \/ (\E c \in Callers, h \in Handles : AssignInvalid(c, h))
    BY <1>2, <1>1 DEF AssignDuplicate, AssignInvalid
<1>3. CASE (\E a \in brokerPending : BrokerExpire(a))
    BY <1>3, <1>1 DEF BrokerExpire
<1>4. CASE ChildRead \/ ChildEOF \/ ChildAck \/ ChildEmit \/ ChildClaim \/ ChildSend
             \/ ChildClear \/ ChildDies \/ Tick
             \/ (\E h \in Handles : ChildOpen(h) \/ ChildClose(h))
             \/ (\E a \in assignments : ChildExpire(a))
    BY <1>4, <1>1 DEF ChildOpen, CloseTransport, Send, ChildClose, ForgetHandle, Forget,
       ChildRead, ChildEOF, ChildAck, ReaderWrites, ChildEmit, ChildClaim, ChildSend,
       ChildClear, ChildExpire, ChildDies, Tick
<1>5. ASSUME CloseGate PROVE CloseInv'
    BY <1>5 DEF Inv, ShapeInv, CallerShape, ReaderShape, TypeOK, CloseInv, Accepting,
       MayEnter, ConnOpen, Done, InFlight, Key, CloseGate
<1>6. ASSUME CloseDone PROVE CloseInv'
    BY <1>6 DEF Inv, ShapeInv, CallerShape, ReaderShape, TypeOK, CloseInv, Accepting,
       MayEnter, ConnOpen, Done, InFlight, Key, CloseDone
<1>7. ASSUME CloseDeactivate PROVE CloseInv'
    BY <1>7 DEF Inv, ShapeInv, CallerShape, ReaderShape, TypeOK, CloseInv, Accepting,
       MayEnter, ConnOpen, Done, InFlight, Key, CloseDeactivate, BrokerCleared
<1>8. ASSUME CloseConn PROVE CloseInv'
    BY <1>8 DEF Inv, ShapeInv, CallerShape, ReaderShape, TypeOK, CloseInv, Accepting,
       MayEnter, ConnOpen, Done, InFlight, Key, CloseConn
<1>9. ASSUME CloseClear PROVE CloseInv'
    BY <1>9 DEF Inv, ShapeInv, CallerShape, ReaderShape, TypeOK, CloseInv, Accepting,
       MayEnter, ConnOpen, Done, InFlight, Key, CloseClear, Notify
<1>10. ASSUME NEW c \in Callers, NEW a \in Assignments, AssignGranted(c, a) PROVE CloseInv'
    BY <1>10 DEF Inv, ShapeInv, CallerShape, ReaderShape, TypeOK, CloseInv, Accepting,
       MayEnter, ConnOpen, Done, InFlight, Key, AssignGranted
<1>11. ASSUME NEW c \in Callers, AssignEnter(c) PROVE CloseInv'
    BY <1>11 DEF Inv, ShapeInv, CallerShape, ReaderShape, TypeOK, CloseInv, Accepting,
       MayEnter, ConnOpen, Done, InFlight, Key, AssignEnter, Goto
<1>12. ASSUME NEW c \in Callers, AssignInsert(c) PROVE CloseInv'
    BY <1>12 DEF Inv, ShapeInv, CallerShape, ReaderShape, TypeOK, CloseInv, Accepting,
       MayEnter, ConnOpen, Done, InFlight, Key, AssignInsert, Goto
<1>13. ASSUME NEW c \in Callers, AssignWrite(c) PROVE CloseInv'
    BY <1>13, SMTT(40) DEF Inv, ShapeInv, CallerShape, ReaderShape, TypeOK, CloseInv, Accepting,
       MayEnter, ConnOpen, Done, InFlight, Key, AssignWrite, Goto, Fail
<1>14. ASSUME NEW c \in Callers, AssignFailed(c) PROVE CloseInv'
    BY <1>14 DEF Inv, ShapeInv, CallerShape, ReaderShape, TypeOK, CloseInv, Accepting,
       MayEnter, ConnOpen, Done, InFlight, Key, AssignFailed, Goto
<1>14a. ASSUME NEW c \in Callers, AssignLock(c) PROVE CloseInv'
    BY <1>14a DEF Inv, ShapeInv, CallerShape, ReaderShape, TypeOK, CloseInv, Accepting,
       MayEnter, ConnOpen, Done, InFlight, Key, AssignLock, Goto
<1>15. ASSUME NEW c \in Callers, AssignSelect(c) PROVE CloseInv'
    BY <1>15 DEF Inv, ShapeInv, CallerShape, ReaderShape, TypeOK, CloseInv, Accepting,
       MayEnter, ConnOpen, Done, InFlight, Key, AssignSelect, Goto, IdleCaller
<1>16. ASSUME NEW c \in Callers, AssignRemove(c) PROVE CloseInv'
    BY <1>16 DEF Inv, ShapeInv, CallerShape, ReaderShape, TypeOK, CloseInv, Accepting,
       MayEnter, ConnOpen, Done, InFlight, Key, AssignRemove, Goto
<1>17. ASSUME NEW c \in Callers, AssignClose(c) PROVE CloseInv'
    BY <1>17 DEF Inv, ShapeInv, CallerShape, ReaderShape, TypeOK, CloseInv, Accepting,
       MayEnter, ConnOpen, Done, InFlight, Key, AssignClose, IdleCaller
<1>18. ASSUME NEW p \in pending, expirePending(p) PROVE CloseInv'
    BY <1>18 DEF Inv, ShapeInv, CallerShape, ReaderShape, TypeOK, CloseInv, Accepting,
       MayEnter, ConnOpen, Done, InFlight, Key, expirePending, Notify
<1>19. ASSUME ReadError PROVE CloseInv'
    BY <1>19 DEF Inv, ShapeInv, CallerShape, ReaderShape, TypeOK, CloseInv, Accepting,
       MayEnter, ConnOpen, Done, InFlight, Key, ReadError, ReaderFails, Fail
<1>20. ASSUME ReaderEnds PROVE CloseInv'
    BY <1>20 DEF Inv, ShapeInv, CallerShape, ReaderShape, TypeOK, CloseInv, Accepting,
       MayEnter, ConnOpen, Done, InFlight, Key, ReaderEnds, Listening
<1>21. ASSUME ReadOpen PROVE CloseInv'
    BY <1>21 DEF Inv, ShapeInv, CallerShape, ReaderShape, TypeOK, CloseInv, Accepting,
       MayEnter, ConnOpen, Done, InFlight, Key, ReadOpen, Receive, Reading, BrokerCleared,
       ReaderFails, Fail
<1>22. ASSUME ReadACK PROVE CloseInv'
    BY <1>22 DEF Inv, ShapeInv, CallerShape, ReaderShape, TypeOK, CloseInv, Accepting,
       MayEnter, ConnOpen, Done, InFlight, Key, ReadACK, Receive, Reading, ReaderFails,
       Fail, Notify
<1>23. ASSUME ReadVerified PROVE CloseInv'
    BY <1>23 DEF Inv, ShapeInv, CallerShape, ReaderShape, TypeOK, CloseInv, Accepting,
       MayEnter, ConnOpen, Done, InFlight, Key, ReadVerified, Receive, Reading, ReaderFails,
       Fail
<1>24. ASSUME DeliverLookup PROVE CloseInv'
  <2>1. reader.pc = "lookup" /\ reader'.pc \in {"read", "deliver"}
      BY <1>24, LookupFacts
  <2> QED
      BY <1>24, <2>1 DEF Inv, CloseInv, InFlight, DeliverLookup
<1>25. ASSUME Deliver PROVE CloseInv'
    BY <1>25 DEF Inv, ShapeInv, CallerShape, ReaderShape, TypeOK, CloseInv, Accepting,
       MayEnter, ConnOpen, Done, InFlight, Key, Deliver, Consume, Listening, BrokerCleared,
       ReaderFails, Fail
<1>26. ASSUME OwnerStep PROVE CloseInv'
    BY <1>26 DEF Inv, ShapeInv, CallerShape, ReaderShape, TypeOK, CloseInv, Accepting,
       MayEnter, ConnOpen, Done, InFlight, Key, OwnerStep, Fail
<1> QED
    BY AssignCases, <1>1, <1>2, <1>3, <1>4, <1>5, <1>6, <1>7, <1>8, <1>9, <1>10, <1>11,
       <1>12, <1>13, <1>14, <1>14a, <1>15, <1>16, <1>17, <1>18, <1>19, <1>20, <1>21, <1>22, <1>23,
       <1>24, <1>25, <1>26
       DEF Next, CloseStep, AssignStep, ReaderStep, ChildStep, vars

\* The numbers stay consecutive.
LEMMA NextSequence == Inv /\ [Next]_vars => SequenceInv'
<1> SUFFICES ASSUME Inv, [Next]_vars PROVE SequenceInv'
    OBVIOUS
<1> USE DEF broker, session, sequences, socket, endpoint, history
<1>1. CASE UNCHANGED <<closing, child, toChild, toParent, writeSequence, readSequence, childRead,
                       childWrite>>
    BY <1>1 DEF Inv, SequenceInv, ConnOpen
<1>2. CASE 
             (\E c \in Callers : AssignEnter(c) \/ AssignInsert(c) \/ AssignLock(c) \/ AssignFailed(c)
                                 \/ AssignSelect(c) \/ AssignRemove(c) \/ AssignClose(c))
             \/ (\E c \in Callers, a \in Assignments : AssignGranted(c, a) \/ AssignDuplicate(c, a))
             \/ (\E c \in Callers, h \in Handles : AssignInvalid(c, h))
    BY <1>2, <1>1 DEF AssignGranted, AssignDuplicate, AssignInvalid, AssignEnter, AssignInsert,
       AssignLock, AssignFailed, AssignSelect, AssignRemove, AssignClose
<1>3. CASE ReaderEnds \/ DeliverLookup \/ (\E a \in brokerPending : BrokerExpire(a))
             \/ (\E p \in pending : expirePending(p))
    BY <1>3, <1>1 DEF BrokerExpire, expirePending, ReaderEnds, DeliverLookup
<1>4. CASE ChildEmit \/ ChildClaim \/ ChildClear \/ Tick
             \/ (\E h \in Handles : ChildClose(h))
             \/ (\E a \in assignments : ChildExpire(a))
    BY <1>4, <1>1 DEF ChildClose, ForgetHandle, Forget, ChildEmit, ChildClaim, ChildClear,
       ChildExpire, Tick
<1>5. ASSUME CloseGate PROVE SequenceInv'
    BY <1>5 DEF Inv, ShapeInv, SocketShape, TypeOK, SequenceInv, ConnOpen, CanSend,
       CloseGate
<1>6. ASSUME CloseDone PROVE SequenceInv'
    BY <1>6 DEF Inv, ShapeInv, SocketShape, TypeOK, SequenceInv, ConnOpen, CanSend,
       CloseDone
<1>7. ASSUME CloseDeactivate PROVE SequenceInv'
    BY <1>7 DEF Inv, ShapeInv, SocketShape, TypeOK, SequenceInv, ConnOpen, CanSend,
       CloseDeactivate, BrokerCleared
<1>8. ASSUME CloseConn PROVE SequenceInv'
    BY <1>8 DEF Inv, ShapeInv, SocketShape, TypeOK, SequenceInv, ConnOpen, CanSend,
       CloseConn
<1>9. ASSUME CloseClear PROVE SequenceInv'
    BY <1>9 DEF Inv, ShapeInv, SocketShape, TypeOK, SequenceInv, ConnOpen, CanSend,
       CloseClear, Notify
<1>10. ASSUME NEW c \in Callers, AssignWrite(c) PROVE SequenceInv'
  <2>1. UNCHANGED <<child, toParent, childRead, readSequence, childWrite>>
      BY <1>10 DEF AssignWrite
  <2>2. CASE /\ UNCHANGED toChild
             /\ UNCHANGED <<closing, writeSequence>> \/ ~(ConnOpen /\ child = "running")
    <3>1. closing' # closing => closing = "open" /\ closing' = "gate"
        BY <1>10 DEF AssignWrite, Fail
    <3>2. ConnOpen' = ConnOpen
        BY <3>1 DEF ConnOpen
    <3> QED
        BY <2>1, <2>2, <3>2 DEF Inv, SequenceInv
  <2>3. CASE /\ ConnOpen /\ child = "running"
             /\ UNCHANGED closing /\ writeSequence' = writeSequence + 1
             /\ Len(toChild) \in Nat /\ Len(toChild') = Len(toChild) + 1
             /\ \A i \in 1 .. Len(toChild) : toChild'[i] = toChild[i]
             /\ toChild'[Len(toChild) + 1] = [sequence |-> writeSequence + 1, a |-> caller[c].a]
    <3>1. /\ childRead \in Nat /\ writeSequence \in Nat
          /\ writeSequence + 1 = childRead + Len(toChild)
          /\ \A i \in 1 .. Len(toChild) : toChild[i].sequence = childRead + i - 1
        BY <2>3 DEF Inv, ShapeInv, SocketShape, SequenceInv
    <3>2. ASSUME NEW i \in 1 .. Len(toChild') PROVE toChild'[i].sequence = childRead' + i - 1
      <4>1. CASE i = Len(toChild) + 1
          BY <2>1, <2>3, <3>1, <4>1
      <4>2. CASE i \in 1 .. Len(toChild)
          BY <2>1, <2>3, <3>1, <4>2
      <4> QED
          BY <2>3, <4>1, <4>2
    <3>3. writeSequence' + 1 = childRead' + Len(toChild')
        BY <2>1, <2>3, <3>1
    <3> QED
        BY <2>1, <2>3, <3>2, <3>3 DEF Inv, SequenceInv, ConnOpen
  <2> QED
      BY <1>10, <2>2, <2>3, WriteFacts
<1>11. ASSUME ReadError PROVE SequenceInv'
    BY <1>11 DEF Inv, ShapeInv, SocketShape, TypeOK, SequenceInv, ConnOpen, CanSend,
       ReadError, ReaderFails, Fail
<1>12. ASSUME ReadOpen PROVE SequenceInv'
  <2>1. closing' \in {closing, "gate"} /\ (closing' # closing => closing = "open")
      BY <1>12 DEF ReadOpen, ReaderFails, Fail
  <2>2. ConnOpen' = ConnOpen /\ ConnOpen
      BY <1>12, <2>1, ReceiveFacts DEF ConnOpen, ReadOpen
  <2>3. UNCHANGED <<childWrite, childRead, writeSequence, toChild, child>>
      BY <1>12 DEF ReadOpen
  <2>4. /\ Len(toParent) \in Nat /\ readSequence \in Nat
        /\ childWrite = readSequence + Len(toParent)
        /\ \A i \in 1 .. Len(toParent) : toParent[i].sequence = readSequence + i - 1
      BY <2>2 DEF Inv, ShapeInv, SocketShape, SequenceInv
  <2>5. /\ Len(toParent') = Len(toParent) - 1 /\ readSequence' = readSequence + 1
        /\ \A i \in 1 .. Len(toParent') :
              toParent'[i] = toParent[i + 1] /\ i + 1 \in 1 .. Len(toParent)
      BY <1>12, ReceiveFacts DEF ReadOpen
  <2>6. childWrite' = readSequence' + Len(toParent')
      BY <2>3, <2>4, <2>5
  <2>7. ASSUME NEW i \in 1 .. Len(toParent') PROVE toParent'[i].sequence = readSequence' + i - 1
    <3>1. toParent'[i] = toParent[i + 1] /\ i + 1 \in 1 .. Len(toParent)
        BY <2>5
    <3>2. toParent[i + 1].sequence = readSequence + (i + 1) - 1
        BY <2>4, <3>1
    <3> QED
        BY <2>4, <2>5, <3>1, <3>2
  <2> QED
      BY <2>2, <2>3, <2>6, <2>7 DEF Inv, SequenceInv
<1>13. ASSUME ReadACK PROVE SequenceInv'
  <2>1. closing' \in {closing, "gate"} /\ (closing' # closing => closing = "open")
      BY <1>13 DEF ReadACK, ReaderFails, Fail
  <2>2. ConnOpen' = ConnOpen /\ ConnOpen
      BY <1>13, <2>1, ReceiveFacts DEF ConnOpen, ReadACK
  <2>3. UNCHANGED <<childWrite, childRead, writeSequence, toChild, child>>
      BY <1>13 DEF ReadACK
  <2>4. /\ Len(toParent) \in Nat /\ readSequence \in Nat
        /\ childWrite = readSequence + Len(toParent)
        /\ \A i \in 1 .. Len(toParent) : toParent[i].sequence = readSequence + i - 1
      BY <2>2 DEF Inv, ShapeInv, SocketShape, SequenceInv
  <2>5. /\ Len(toParent') = Len(toParent) - 1 /\ readSequence' = readSequence + 1
        /\ \A i \in 1 .. Len(toParent') :
              toParent'[i] = toParent[i + 1] /\ i + 1 \in 1 .. Len(toParent)
      BY <1>13, ReceiveFacts DEF ReadACK
  <2>6. childWrite' = readSequence' + Len(toParent')
      BY <2>3, <2>4, <2>5
  <2>7. ASSUME NEW i \in 1 .. Len(toParent') PROVE toParent'[i].sequence = readSequence' + i - 1
    <3>1. toParent'[i] = toParent[i + 1] /\ i + 1 \in 1 .. Len(toParent)
        BY <2>5
    <3>2. toParent[i + 1].sequence = readSequence + (i + 1) - 1
        BY <2>4, <3>1
    <3> QED
        BY <2>4, <2>5, <3>1, <3>2
  <2> QED
      BY <2>2, <2>3, <2>6, <2>7 DEF Inv, SequenceInv
<1>14. ASSUME ReadVerified PROVE SequenceInv'
  <2>1. closing' \in {closing, "gate"} /\ (closing' # closing => closing = "open")
      BY <1>14 DEF ReadVerified, ReaderFails, Fail
  <2>2. ConnOpen' = ConnOpen /\ ConnOpen
      BY <1>14, <2>1, ReceiveFacts DEF ConnOpen, ReadVerified
  <2>3. UNCHANGED <<childWrite, childRead, writeSequence, toChild, child>>
      BY <1>14 DEF ReadVerified
  <2>4. /\ Len(toParent) \in Nat /\ readSequence \in Nat
        /\ childWrite = readSequence + Len(toParent)
        /\ \A i \in 1 .. Len(toParent) : toParent[i].sequence = readSequence + i - 1
      BY <2>2 DEF Inv, ShapeInv, SocketShape, SequenceInv
  <2>5. /\ Len(toParent') = Len(toParent) - 1 /\ readSequence' = readSequence + 1
        /\ \A i \in 1 .. Len(toParent') :
              toParent'[i] = toParent[i + 1] /\ i + 1 \in 1 .. Len(toParent)
      BY <1>14, ReceiveFacts DEF ReadVerified
  <2>6. childWrite' = readSequence' + Len(toParent')
      BY <2>3, <2>4, <2>5
  <2>7. ASSUME NEW i \in 1 .. Len(toParent') PROVE toParent'[i].sequence = readSequence' + i - 1
    <3>1. toParent'[i] = toParent[i + 1] /\ i + 1 \in 1 .. Len(toParent)
        BY <2>5
    <3>2. toParent[i + 1].sequence = readSequence + (i + 1) - 1
        BY <2>4, <3>1
    <3> QED
        BY <2>4, <2>5, <3>1, <3>2
  <2> QED
      BY <2>2, <2>3, <2>6, <2>7 DEF Inv, SequenceInv
<1>15. ASSUME Deliver PROVE SequenceInv'
    BY <1>15 DEF Inv, ShapeInv, SocketShape, TypeOK, SequenceInv, ConnOpen, CanSend,
       Deliver, Consume, Listening, BrokerCleared, ReaderFails, Fail
<1>16. ASSUME OwnerStep PROVE SequenceInv'
    BY <1>16 DEF Inv, ShapeInv, SocketShape, TypeOK, SequenceInv, ConnOpen, CanSend,
       OwnerStep, Fail
<1>17. ASSUME NEW h \in Handles, ChildOpen(h) PROVE SequenceInv'
  <2> DEFINE x == Packet("open", [handle |-> h], TRUE)
  <2>1. UNCHANGED <<closing, toChild, childRead, readSequence, writeSequence>>
        /\ (child' = "running" => child = "running")
      BY <1>17 DEF ChildOpen, ReaderWrites, CloseTransport
  <2>2. CASE UNCHANGED <<toParent, childWrite>>
      BY <2>1, <2>2 DEF Inv, SequenceInv, ConnOpen
  <2>3. CASE x \in Packets /\ Send(x)
    <3>1. /\ Len(toParent) \in Nat
          /\ Len(toParent') = Len(toParent) + 1 /\ childWrite' = childWrite + 1
          /\ \A i \in 1 .. Len(toParent) : toParent'[i] = toParent[i]
          /\ toParent'[Len(toParent) + 1] = x
        BY <2>3, SendFacts
    <3>2. x.sequence = childWrite
        BY DEF Packet
    <3> HIDE DEF x
    <3>3. /\ readSequence \in Nat /\ childWrite \in Nat
          /\ ConnOpen => /\ childWrite = readSequence + Len(toParent)
                         /\ \A i \in 1 .. Len(toParent) : toParent[i].sequence = readSequence + i - 1
        BY DEF Inv, ShapeInv, SocketShape, SequenceInv
    <3>4. ConnOpen' = ConnOpen
        BY <2>1 DEF ConnOpen
    <3>5. ASSUME ConnOpen', NEW i \in 1 .. Len(toParent')
          PROVE  toParent'[i].sequence = readSequence' + i - 1
      <4>1. CASE i = Len(toParent) + 1
          BY <3>1, <3>2, <3>3, <3>4, <3>5, <2>1, <4>1
      <4>2. CASE i \in 1 .. Len(toParent)
          BY <3>1, <3>3, <3>4, <3>5, <2>1, <4>2
      <4> QED
          BY <3>1, <4>1, <4>2
    <3>6. ConnOpen' => childWrite' = readSequence' + Len(toParent')
        BY <3>1, <3>3, <3>4, <2>1
    <3> QED
        BY <3>4, <3>5, <3>6, <2>1 DEF Inv, SequenceInv
  <2> QED
      BY <1>17, <2>2, <2>3, ChildSends
<1>18. ASSUME ChildRead PROVE SequenceInv'
  <2>1. /\ Len(toChild) \in Nat /\ childRead \in Nat /\ writeSequence \in Nat
        /\ \A i \in 1 .. Len(toChild) : toChild[i].sequence = childRead + i - 1
      BY DEF Inv, ShapeInv, SocketShape, SequenceInv
  <2>2. /\ 1 \in 1 .. Len(toChild) /\ Head(toChild) = toChild[1]
        /\ Len(toChild') = Len(toChild) - 1
        /\ \A i \in 1 .. Len(toChild') :
              toChild'[i] = toChild[i + 1] /\ i + 1 \in 1 .. Len(toChild)
      BY <1>18, ReadFacts
  <2>3. toChild[1].sequence = childRead
      BY <2>1, <2>2
  <2>4. /\ childRead' = childRead + 1
        /\ UNCHANGED <<child, closing, toParent, writeSequence, readSequence, childWrite>>
      BY <1>18, <2>2, <2>3 DEF ChildRead
  <2>5. ASSUME NEW i \in 1 .. Len(toChild') PROVE toChild'[i].sequence = childRead' + i - 1
    <3>1. toChild'[i] = toChild[i + 1] /\ i + 1 \in 1 .. Len(toChild)
        BY <2>2
    <3>2. toChild[i + 1].sequence = childRead + (i + 1) - 1
        BY <2>1, <3>1
    <3> QED
        BY <2>1, <2>4, <3>1, <3>2
  <2>6. childRead + Len(toChild) = childRead' + Len(toChild')
      BY <2>1, <2>2, <2>4
  <2> QED
      BY <2>4, <2>5, <2>6 DEF Inv, SequenceInv, ConnOpen
<1>19. ASSUME ChildEOF PROVE SequenceInv'
    BY <1>19 DEF Inv, ShapeInv, SocketShape, TypeOK, SequenceInv, ConnOpen, CanSend,
       ChildEOF, CloseTransport
<1>20. ASSUME ChildAck PROVE SequenceInv'
  <2> DEFINE x == Packet("ack", childReader.a, childReader.ok)
  <2>1. UNCHANGED <<closing, toChild, childRead, readSequence, writeSequence>>
        /\ (child' = "running" => child = "running")
      BY <1>20 DEF ChildAck, ReaderWrites, CloseTransport
  <2>2. CASE UNCHANGED <<toParent, childWrite>>
      BY <2>1, <2>2 DEF Inv, SequenceInv, ConnOpen
  <2>3. CASE x \in Packets /\ Send(x)
    <3>1. /\ Len(toParent) \in Nat
          /\ Len(toParent') = Len(toParent) + 1 /\ childWrite' = childWrite + 1
          /\ \A i \in 1 .. Len(toParent) : toParent'[i] = toParent[i]
          /\ toParent'[Len(toParent) + 1] = x
        BY <2>3, SendFacts
    <3>2. x.sequence = childWrite
        BY DEF Packet
    <3> HIDE DEF x
    <3>3. /\ readSequence \in Nat /\ childWrite \in Nat
          /\ ConnOpen => /\ childWrite = readSequence + Len(toParent)
                         /\ \A i \in 1 .. Len(toParent) : toParent[i].sequence = readSequence + i - 1
        BY DEF Inv, ShapeInv, SocketShape, SequenceInv
    <3>4. ConnOpen' = ConnOpen
        BY <2>1 DEF ConnOpen
    <3>5. ASSUME ConnOpen', NEW i \in 1 .. Len(toParent')
          PROVE  toParent'[i].sequence = readSequence' + i - 1
      <4>1. CASE i = Len(toParent) + 1
          BY <3>1, <3>2, <3>3, <3>4, <3>5, <2>1, <4>1
      <4>2. CASE i \in 1 .. Len(toParent)
          BY <3>1, <3>3, <3>4, <3>5, <2>1, <4>2
      <4> QED
          BY <3>1, <4>1, <4>2
    <3>6. ConnOpen' => childWrite' = readSequence' + Len(toParent')
        BY <3>1, <3>3, <3>4, <2>1
    <3> QED
        BY <3>4, <3>5, <3>6, <2>1 DEF Inv, SequenceInv
  <2> QED
      BY <1>20, <2>2, <2>3, ChildSends
<1>21. ASSUME ChildSend PROVE SequenceInv'
  <2> DEFINE x == Packet("verified", childReader.a, childReader.ok)
  <2>1. UNCHANGED <<closing, toChild, childRead, readSequence, writeSequence>>
        /\ (child' = "running" => child = "running")
      BY <1>21 DEF ChildSend, ReaderWrites, CloseTransport
  <2>2. CASE UNCHANGED <<toParent, childWrite>>
      BY <2>1, <2>2 DEF Inv, SequenceInv, ConnOpen
  <2>3. CASE x \in Packets /\ Send(x)
    <3>1. /\ Len(toParent) \in Nat
          /\ Len(toParent') = Len(toParent) + 1 /\ childWrite' = childWrite + 1
          /\ \A i \in 1 .. Len(toParent) : toParent'[i] = toParent[i]
          /\ toParent'[Len(toParent) + 1] = x
        BY <2>3, SendFacts
    <3>2. x.sequence = childWrite
        BY DEF Packet
    <3> HIDE DEF x
    <3>3. /\ readSequence \in Nat /\ childWrite \in Nat
          /\ ConnOpen => /\ childWrite = readSequence + Len(toParent)
                         /\ \A i \in 1 .. Len(toParent) : toParent[i].sequence = readSequence + i - 1
        BY DEF Inv, ShapeInv, SocketShape, SequenceInv
    <3>4. ConnOpen' = ConnOpen
        BY <2>1 DEF ConnOpen
    <3>5. ASSUME ConnOpen', NEW i \in 1 .. Len(toParent')
          PROVE  toParent'[i].sequence = readSequence' + i - 1
      <4>1. CASE i = Len(toParent) + 1
          BY <3>1, <3>2, <3>3, <3>4, <3>5, <2>1, <4>1
      <4>2. CASE i \in 1 .. Len(toParent)
          BY <3>1, <3>3, <3>4, <3>5, <2>1, <4>2
      <4> QED
          BY <3>1, <4>1, <4>2
    <3>6. ConnOpen' => childWrite' = readSequence' + Len(toParent')
        BY <3>1, <3>3, <3>4, <2>1
    <3> QED
        BY <3>4, <3>5, <3>6, <2>1 DEF Inv, SequenceInv
  <2> QED
      BY <1>21, <2>2, <2>3, ChildSends
<1>22. ASSUME ChildDies PROVE SequenceInv'
    BY <1>22 DEF Inv, ShapeInv, SocketShape, TypeOK, SequenceInv, ConnOpen, CanSend,
       ChildDies
<1> QED
    BY AssignCases, <1>1, <1>2, <1>3, <1>4, <1>5, <1>6, <1>7, <1>8, <1>9, <1>10, <1>11,
       <1>12, <1>13, <1>14, <1>15, <1>16, <1>17, <1>18, <1>19, <1>20, <1>21, <1>22
       DEF Next, CloseStep, AssignStep, ReaderStep, ChildStep, vars

----------------------------------------------------------------------------
(***************************************************************************)
(* A connection is assigned once.                                          *)
(***************************************************************************)
\* Assignments enter the session in broker.assign only.
NoneInvented ==
    \A a \in Assignments : Carried(a)' => Carried(a) \/ \E c \in Callers : AssignGranted(c, a)

\* An entry of session.pending, before and after its acknowledgement.
LEMMA EntryFacts ==
    ASSUME Inv
    PROVE  /\ \A a \in Assignments :
                a = [handle |-> a.handle, correlation |-> a.correlation, expiresAt |-> a.expiresAt]
           /\ \A p \in pending :
                /\ p.handle \in Handles /\ p.acknowledged \in BOOLEAN
                /\ AssignmentOf(p) \in Assignments
                /\ AssignmentOf(p).handle = p.handle
                /\ [p EXCEPT !.acknowledged = TRUE].handle = p.handle
                /\ [p EXCEPT !.acknowledged = TRUE].acknowledged = TRUE
                /\ Key([p EXCEPT !.acknowledged = TRUE]) = Key(p)
                /\ AssignmentOf([p EXCEPT !.acknowledged = TRUE]) = AssignmentOf(p)
<1>1. \A a \in Assignments :
        a = [handle |-> a.handle, correlation |-> a.correlation, expiresAt |-> a.expiresAt]
    BY DEF Assignments
<1>2. ASSUME NEW p \in pending
      PROVE  /\ p.handle \in Handles /\ p.acknowledged \in BOOLEAN
             /\ AssignmentOf(p) \in Assignments /\ AssignmentOf(p).handle = p.handle
             /\ [p EXCEPT !.acknowledged = TRUE].handle = p.handle
             /\ [p EXCEPT !.acknowledged = TRUE].acknowledged = TRUE
             /\ Key([p EXCEPT !.acknowledged = TRUE]) = Key(p)
             /\ AssignmentOf([p EXCEPT !.acknowledged = TRUE]) = AssignmentOf(p)
    BY DEF Inv, TypeOK, PendingType, AssignmentOf, Assignments, Key
<1> QED
    BY <1>1, <1>2

\* No step but a grant makes an assignment appear anywhere.
LEMMA NextCarried == Inv /\ [Next]_vars => NoneInvented
<1> SUFFICES ASSUME Inv, [Next]_vars PROVE NoneInvented
    OBVIOUS
<1> USE PublishedKept DEF broker, session, sequences, socket, endpoint, history
<1>1. CASE UNCHANGED <<caller, toChild, childReader, toParent, pending, reader, brokerPending,
                       frames, refused>>
    BY <1>1 DEF NoneInvented, Carried
<1>2. CASE CloseGate \/ CloseDone
    BY <1>2, <1>1 DEF CloseGate, CloseDone
<1>3. CASE OwnerStep
    BY <1>3, <1>1 DEF OwnerStep, Fail
<1>4. CASE Tick \/ (\E h \in Handles : ChildClose(h))
             \/ (\E a \in assignments : ChildExpire(a))
    BY <1>4, <1>1 DEF ChildClose, ForgetHandle, Forget, ChildExpire, Tick
<1>5. ASSUME CloseDeactivate PROVE NoneInvented
    BY <1>5 DEF Inv, ShapeInv, CallerShape, ReaderShape, AnswerShape, AnswerSteps,
       NoneInvented, Carried, CloseDeactivate, BrokerCleared
<1>6. ASSUME CloseConn PROVE NoneInvented
    BY <1>6 DEF Inv, ShapeInv, CallerShape, ReaderShape, AnswerShape, AnswerSteps,
       NoneInvented, Carried, CloseConn
<1>7. ASSUME CloseClear PROVE NoneInvented
    BY <1>7 DEF Inv, ShapeInv, CallerShape, ReaderShape, AnswerShape, AnswerSteps,
       NoneInvented, Carried, CloseClear, Notify
<1>8. ASSUME NEW c \in Callers, NEW a \in Assignments, AssignGranted(c, a) PROVE NoneInvented
  <2>1. UNCHANGED <<toChild, toParent, childReader, pending, reader, published, refused>>
      BY <1>8 DEF AssignGranted
  <2>2. \A d \in Callers : d # c => caller'[d] = caller[d]
      BY <1>8 DEF Inv, ShapeInv, CallerShape, AssignGranted
  <2>3. caller'[c].a = a /\ brokerPending' = brokerPending \cup {a}
      BY <1>8 DEF Inv, ShapeInv, CallerShape, AssignGranted
  <2>4. ASSUME NEW b \in Assignments, b # a, Carried(b)' PROVE Carried(b)
      BY <2>1, <2>2, <2>3, <2>4 DEF Carried
  <2> QED
      BY <1>8, <2>4 DEF NoneInvented
<1>9. ASSUME NEW c \in Callers, NEW a \in Assignments, AssignDuplicate(c, a) PROVE NoneInvented
    BY <1>9 DEF Inv, ShapeInv, CallerShape, ReaderShape, AnswerShape, AnswerSteps,
       NoneInvented, Carried, AssignDuplicate
<1>9a. ASSUME NEW c \in Callers, NEW h \in Handles, AssignInvalid(c, h) PROVE NoneInvented
    BY <1>9a DEF Inv, ShapeInv, CallerShape, ReaderShape, AnswerShape, AnswerSteps,
       NoneInvented, Carried, AssignInvalid
<1>10. ASSUME NEW c \in Callers, AssignEnter(c) PROVE NoneInvented
    BY <1>10 DEF Inv, ShapeInv, CallerShape, ReaderShape, AnswerShape, AnswerSteps,
       NoneInvented, Carried, AssignEnter, Goto
<1>11. ASSUME NEW c \in Callers, AssignInsert(c) PROVE NoneInvented
  <2>1. caller[c].a \in Assignments /\ caller[c].pc # "idle"
      BY <1>11 DEF Inv, ShapeInv, CallerShape, AssignInsert
  <2>2. ASSUME NEW p \in pending' PROVE p \in pending \/ AssignmentOf(p) = caller[c].a
      BY <1>11, <2>1, EntryFacts DEF AssignInsert, AssignmentOf
  <2>3. \A d \in Callers : caller'[d].pc # "idle" => caller[d].pc # "idle" /\ caller'[d].a = caller[d].a
      BY <1>11 DEF Inv, ShapeInv, CallerShape, AssignInsert, Goto
  <2>4. UNCHANGED <<toChild, toParent, childReader, reader, brokerPending, published, refused>>
      BY <1>11 DEF AssignInsert
  <2> QED
      BY <2>1, <2>2, <2>3, <2>4 DEF NoneInvented, Carried
<1>12. ASSUME NEW c \in Callers, AssignWrite(c) PROVE NoneInvented
  <2>1. /\ UNCHANGED <<pending, reader, toParent, childReader, published, refused>>
        /\ UNCHANGED brokerPending
      BY <1>12 DEF AssignWrite
  <2>2. \A d \in Callers : caller'[d].pc # "idle" => caller[d].pc # "idle" /\ caller'[d].a = caller[d].a
      BY <1>12 DEF Inv, ShapeInv, CallerShape, AssignWrite, Goto
  <2>3. ASSUME NEW i \in 1 .. Len(toChild')
        PROVE  \/ i \in 1 .. Len(toChild) /\ toChild'[i] = toChild[i]
               \/ caller[c].pc # "idle" /\ toChild'[i].a = caller[c].a
    <3>1. CASE UNCHANGED toChild
        BY <3>1
    <3>2. CASE /\ Len(toChild) \in Nat /\ Len(toChild') = Len(toChild) + 1
               /\ \A j \in 1 .. Len(toChild) : toChild'[j] = toChild[j]
               /\ toChild'[Len(toChild) + 1] = [sequence |-> writeSequence + 1, a |-> caller[c].a]
      <4>1. i \in 1 .. Len(toChild) \/ i = Len(toChild) + 1
          BY <3>2
      <4> QED
          BY <1>12, <3>2, <4>1 DEF AssignWrite
    <3> QED
        BY <1>12, <3>1, <3>2, WriteFacts
  <2> QED
      BY <2>1, <2>2, <2>3 DEF NoneInvented, Carried
<1>13. ASSUME NEW c \in Callers, AssignFailed(c) PROVE NoneInvented
    BY <1>13 DEF Inv, ShapeInv, CallerShape, ReaderShape, AnswerShape, AnswerSteps,
       NoneInvented, Carried, AssignFailed, Goto
<1>13a. ASSUME NEW c \in Callers, AssignLock(c) PROVE NoneInvented
    BY <1>13a DEF Inv, ShapeInv, CallerShape, ReaderShape, AnswerShape, AnswerSteps,
       NoneInvented, Carried, AssignLock, Goto
<1>14. ASSUME NEW c \in Callers, AssignSelect(c) PROVE NoneInvented
    BY <1>14 DEF Inv, ShapeInv, CallerShape, ReaderShape, AnswerShape, AnswerSteps,
       NoneInvented, Carried, AssignSelect, Goto, IdleCaller
<1>15. ASSUME NEW c \in Callers, AssignRemove(c) PROVE NoneInvented
    BY <1>15 DEF Inv, ShapeInv, CallerShape, ReaderShape, AnswerShape, AnswerSteps,
       NoneInvented, Carried, AssignRemove, Goto
<1>16. ASSUME NEW c \in Callers, AssignClose(c) PROVE NoneInvented
    BY <1>16 DEF Inv, ShapeInv, CallerShape, ReaderShape, AnswerShape, AnswerSteps,
       NoneInvented, Carried, AssignClose, IdleCaller
<1>17. ASSUME NEW a \in brokerPending, BrokerExpire(a) PROVE NoneInvented
    BY <1>17 DEF Inv, ShapeInv, CallerShape, ReaderShape, AnswerShape, AnswerSteps,
       NoneInvented, Carried, BrokerExpire
<1>18. ASSUME NEW p \in pending, expirePending(p) PROVE NoneInvented
    BY <1>18 DEF Inv, ShapeInv, CallerShape, ReaderShape, AnswerShape, AnswerSteps,
       NoneInvented, Carried, expirePending, Notify
<1>19. ASSUME ReadError PROVE NoneInvented
    BY <1>19 DEF Inv, ShapeInv, CallerShape, ReaderShape, AnswerShape, AnswerSteps,
       NoneInvented, Carried, ReadError, ReaderFails, Fail
<1>20. ASSUME ReaderEnds PROVE NoneInvented
    BY <1>20 DEF Inv, ShapeInv, CallerShape, ReaderShape, AnswerShape, AnswerSteps,
       NoneInvented, Carried, ReaderEnds, Listening
<1>21. ASSUME ReadOpen PROVE NoneInvented
  <2>1. ASSUME NEW i \in 1 .. Len(toParent')
        PROVE  toParent'[i] = toParent[i + 1] /\ i + 1 \in 1 .. Len(toParent)
      BY <1>21, ReceiveFacts DEF ReadOpen
  <2>2. UNCHANGED <<toChild, childReader, published, refused>>
      BY <1>21 DEF ReadOpen
  <2>3. /\ UNCHANGED <<caller, pending>> /\ brokerPending' \subseteq brokerPending
        /\ reader'.pc \notin {"lookup", "deliver"}
      BY <1>21, ReceiveFacts DEF Inv, ShapeInv, ReaderShape, ReadOpen, BrokerCleared,
         ReaderFails
  <2> QED
      BY <2>1, <2>2, <2>3 DEF NoneInvented, Carried
<1>22. ASSUME ReadACK PROVE NoneInvented
  <2>1. ASSUME NEW i \in 1 .. Len(toParent')
        PROVE  toParent'[i] = toParent[i + 1] /\ i + 1 \in 1 .. Len(toParent)
      BY <1>22, ReceiveFacts DEF ReadACK
  <2>2. UNCHANGED <<toChild, childReader, published, refused>>
      BY <1>22 DEF ReadACK
  <2>3. UNCHANGED brokerPending /\ reader'.pc \notin {"lookup", "deliver"}
      BY <1>22, ReceiveFacts DEF Inv, ShapeInv, ReaderShape, ReadACK, ReaderFails
  <2>4. \A d \in Callers : caller'[d].pc # "idle" => caller[d].pc # "idle" /\ caller'[d].a = caller[d].a
      BY <1>22 DEF Inv, ShapeInv, CallerShape, ReadACK, Notify
  <2>5. ASSUME NEW p \in pending' PROVE \E q \in pending : AssignmentOf(p) = AssignmentOf(q)
    <3>1. p \in pending \/ \E q \in pending : p = [q EXCEPT !.acknowledged = TRUE]
        BY <1>22 DEF ReadACK, PendingOf
    <3> QED
        BY <3>1, EntryFacts
  <2> QED
      BY <2>1, <2>2, <2>3, <2>4, <2>5 DEF NoneInvented, Carried
<1>23. ASSUME ReadVerified PROVE NoneInvented
  <2>1. ASSUME NEW i \in 1 .. Len(toParent')
        PROVE  toParent'[i] = toParent[i + 1] /\ i + 1 \in 1 .. Len(toParent)
      BY <1>23, ReceiveFacts DEF ReadVerified
  <2>2. UNCHANGED <<toChild, childReader, published, refused>>
      BY <1>23 DEF ReadVerified
  <2>3. UNCHANGED <<caller, brokerPending>> /\ pending' \subseteq pending
      BY <1>23 DEF ReadVerified
  <2>4. /\ 1 \in 1 .. Len(toParent) /\ Head(toParent) = toParent[1]
        /\ toParent[1].type = "verified" /\ reader.pc = "read"
      BY <1>23, ReceiveFacts DEF ReadVerified
  <2>5. reader'.pc \in {"lookup", "deliver"} => reader'.a = toParent[1].a
      BY <1>23, <2>4 DEF Inv, ShapeInv, ReaderShape, ReadVerified, ReaderFails
  <2> QED
      BY <2>1, <2>2, <2>3, <2>4, <2>5 DEF NoneInvented, Carried
<1>24. ASSUME DeliverLookup PROVE NoneInvented
  <2>1. UNCHANGED <<caller, toChild, childReader, toParent, pending, brokerPending, published,
                    refused>>
      BY <1>24 DEF DeliverLookup
  <2>2. reader.pc = "lookup" /\ (reader'.pc # "read" => reader'.a = reader.a)
      BY <1>24, LookupFacts
  <2> QED
      BY <2>1, <2>2 DEF NoneInvented, Carried
<1>25. ASSUME Deliver PROVE NoneInvented
  <2>1. UNCHANGED <<caller, toChild, childReader, toParent, pending, refused>>
      BY <1>25 DEF Deliver, Consume
  <2>2. /\ brokerPending' \subseteq brokerPending /\ reader'.pc \notin {"lookup", "deliver"}
        /\ reader.pc = "deliver"
      BY <1>25 DEF Inv, ShapeInv, ReaderShape, Deliver, Consume, BrokerCleared, ReaderFails,
         Listening
  <2>3. \A p \in published' : p \in published \/ p.for = reader.a
      BY <1>25, DeliverFacts
  <2> QED
      BY <2>1, <2>2, <2>3 DEF NoneInvented, Carried
<1>26. ASSUME NEW h \in Handles, ChildOpen(h) PROVE NoneInvented
  <2> DEFINE x == Packet("open", [handle |-> h], TRUE)
  <2>1. UNCHANGED <<caller, toChild, pending, reader, brokerPending, published, refused>>
      BY <1>26 DEF ChildOpen, ReaderWrites
  <2>2. x.type = "open" /\ UNCHANGED childReader
      BY <1>26 DEF Inv, ShapeInv, AnswerShape, AnswerSteps, ChildOpen, ReaderWrites, Packet
  <2>3. ASSUME NEW i \in 1 .. Len(toParent')
        PROVE  (i \in 1 .. Len(toParent) /\ toParent'[i] = toParent[i]) \/ toParent'[i] = x
    <3>1. CASE UNCHANGED toParent
        BY <3>1
    <3>2. CASE x \in Packets /\ Send(x)
      <4> HIDE DEF x
      <4>1. /\ Len(toParent) \in Nat /\ Len(toParent') = Len(toParent) + 1
            /\ \A j \in 1 .. Len(toParent) : toParent'[j] = toParent[j]
            /\ toParent'[Len(toParent) + 1] = x
          BY <3>2, SendFacts
      <4>2. i \in 1 .. Len(toParent) \/ i = Len(toParent) + 1
          BY <4>1
      <4> QED
          BY <4>1, <4>2
    <3> QED
        BY <1>26, <3>1, <3>2, ChildSends
  <2> HIDE DEF x
  <2> QED
      BY <2>1, <2>2, <2>3 DEF NoneInvented, Carried
<1>27. ASSUME ChildRead PROVE NoneInvented
  <2>1. UNCHANGED <<caller, toParent, pending, reader, brokerPending, published, refused>>
      BY <1>27 DEF ChildRead
  <2>2. ASSUME NEW i \in 1 .. Len(toChild')
        PROVE  toChild'[i] = toChild[i + 1] /\ i + 1 \in 1 .. Len(toChild)
      BY <1>27, ReadFacts
  <2>3. 1 \in 1 .. Len(toChild) /\ (childReader'.pc \in AnswerSteps => childReader'.a = toChild[1].a)
      BY <1>27, ReadFacts DEF Inv, ShapeInv, AnswerShape, AnswerSteps, ChildRead
  <2> QED
      BY <2>1, <2>2, <2>3 DEF NoneInvented, Carried
<1>28. ASSUME ChildEOF PROVE NoneInvented
    BY <1>28 DEF Inv, ShapeInv, CallerShape, ReaderShape, AnswerShape, AnswerSteps,
       NoneInvented, Carried, ChildEOF, CloseTransport
<1>29. ASSUME ChildAck PROVE NoneInvented
  <2> DEFINE x == Packet("ack", childReader.a, childReader.ok)
  <2>1. UNCHANGED <<caller, toChild, pending, reader, brokerPending, published, refused>>
      BY <1>29 DEF ChildAck, ReaderWrites
  <2>2. /\ childReader.pc \in AnswerSteps /\ x.a = childReader.a
        /\ (childReader'.pc \in AnswerSteps => childReader'.a = childReader.a)
      BY <1>29 DEF Inv, ShapeInv, AnswerShape, AnswerSteps, ChildAck, ReaderWrites, Packet
  <2>3. ASSUME NEW i \in 1 .. Len(toParent')
        PROVE  (i \in 1 .. Len(toParent) /\ toParent'[i] = toParent[i]) \/ toParent'[i] = x
    <3>1. CASE UNCHANGED toParent
        BY <3>1
    <3>2. CASE x \in Packets /\ Send(x)
      <4> HIDE DEF x
      <4>1. /\ Len(toParent) \in Nat /\ Len(toParent') = Len(toParent) + 1
            /\ \A j \in 1 .. Len(toParent) : toParent'[j] = toParent[j]
            /\ toParent'[Len(toParent) + 1] = x
          BY <3>2, SendFacts
      <4>2. i \in 1 .. Len(toParent) \/ i = Len(toParent) + 1
          BY <4>1
      <4> QED
          BY <4>1, <4>2
    <3> QED
        BY <1>29, <3>1, <3>2, ChildSends
  <2> HIDE DEF x
  <2> QED
      BY <2>1, <2>2, <2>3 DEF NoneInvented, Carried
<1>30. ASSUME ChildEmit PROVE NoneInvented
    BY <1>30 DEF Inv, ShapeInv, CallerShape, ReaderShape, AnswerShape, AnswerSteps,
       NoneInvented, Carried, ChildEmit
<1>31. ASSUME ChildClaim PROVE NoneInvented
    BY <1>31 DEF Inv, ShapeInv, CallerShape, ReaderShape, AnswerShape, AnswerSteps,
       NoneInvented, Carried, ChildClaim, Forget
<1>32. ASSUME ChildSend PROVE NoneInvented
  <2> DEFINE x == Packet("verified", childReader.a, childReader.ok)
  <2>1. UNCHANGED <<caller, toChild, pending, reader, brokerPending, published, refused>>
      BY <1>32 DEF ChildSend, ReaderWrites
  <2>2. /\ childReader.pc \in AnswerSteps /\ x.a = childReader.a
        /\ (childReader'.pc \in AnswerSteps => childReader'.a = childReader.a)
      BY <1>32 DEF Inv, ShapeInv, AnswerShape, AnswerSteps, ChildSend, ReaderWrites, Packet
  <2>3. ASSUME NEW i \in 1 .. Len(toParent')
        PROVE  (i \in 1 .. Len(toParent) /\ toParent'[i] = toParent[i]) \/ toParent'[i] = x
    <3>1. CASE UNCHANGED toParent
        BY <3>1
    <3>2. CASE x \in Packets /\ Send(x)
      <4> HIDE DEF x
      <4>1. /\ Len(toParent) \in Nat /\ Len(toParent') = Len(toParent) + 1
            /\ \A j \in 1 .. Len(toParent) : toParent'[j] = toParent[j]
            /\ toParent'[Len(toParent) + 1] = x
          BY <3>2, SendFacts
      <4>2. i \in 1 .. Len(toParent) \/ i = Len(toParent) + 1
          BY <4>1
      <4> QED
          BY <4>1, <4>2
    <3> QED
        BY <1>32, <3>1, <3>2, ChildSends
  <2> HIDE DEF x
  <2> QED
      BY <2>1, <2>2, <2>3 DEF NoneInvented, Carried
<1>33. ASSUME ChildClear PROVE NoneInvented
    BY <1>33 DEF Inv, ShapeInv, CallerShape, ReaderShape, AnswerShape, AnswerSteps,
       NoneInvented, Carried, ChildClear, Forget
<1>34. ASSUME ChildDies PROVE NoneInvented
    BY <1>34 DEF Inv, ShapeInv, CallerShape, ReaderShape, AnswerShape, AnswerSteps,
       NoneInvented, Carried, ChildDies
<1> QED
    BY AssignCases, <1>1, <1>2, <1>3, <1>4, <1>5, <1>6, <1>7, <1>8, <1>9, <1>9a, <1>10, <1>11,
       <1>12, <1>13, <1>13a, <1>14, <1>15, <1>16, <1>17, <1>18, <1>19, <1>20, <1>21, <1>22, <1>23,
       <1>24, <1>25, <1>26, <1>27, <1>28, <1>29, <1>30, <1>31, <1>32, <1>33, <1>34
       DEF Next, CloseStep, AssignStep, ReaderStep, ChildStep, vars

\* The child reports a connection once, and the broker takes each report once.
LEMMA NextOpen == Inv /\ [Next]_vars => OpenInv'
<1> SUFFICES ASSUME Inv, [Next]_vars PROVE OpenInv'
    OBVIOUS
<1> USE DEF broker, session, sequences, socket, endpoint, history
<1>1. CASE UNCHANGED <<brokerHandles, reported, toParent>>
    BY <1>1 DEF Inv, OpenInv, Announced
<1>2. CASE CloseGate \/ CloseDone \/ CloseClear
    BY <1>2, <1>1 DEF CloseGate, CloseDone, CloseClear
<1>3. CASE 
             (\E c \in Callers : AssignEnter(c) \/ AssignInsert(c) \/ AssignWrite(c)
                                 \/ AssignLock(c) \/ AssignFailed(c) \/ AssignSelect(c)
                                 \/ AssignRemove(c))
             \/ (\E c \in Callers, a \in Assignments : AssignGranted(c, a))
    BY <1>3, <1>1 DEF AssignGranted, AssignEnter, AssignInsert, AssignWrite, Fail,
       AssignLock, AssignFailed, AssignSelect, AssignRemove
<1>4. CASE ReadError \/ ReaderEnds \/ DeliverLookup \/ OwnerStep
             \/ (\E p \in pending : expirePending(p))
    BY <1>4, <1>1 DEF expirePending, ReadError, ReaderFails, Fail, ReaderEnds,
       DeliverLookup, OwnerStep
<1>5. CASE ChildRead \/ ChildEOF \/ ChildEmit \/ ChildClaim \/ ChildClear \/ ChildDies
             \/ Tick \/ (\E h \in Handles : ChildClose(h))
             \/ (\E a \in assignments : ChildExpire(a))
    BY <1>5, <1>1 DEF ChildClose, ForgetHandle, Forget, ChildRead, CloseTransport, ChildEOF,
       ChildEmit, ChildClaim, ChildClear, ChildExpire, ChildDies, Tick
<1>6. ASSUME CloseDeactivate PROVE OpenInv'
    BY <1>6 DEF Inv, OpenInv, Announced, CloseDeactivate, BrokerCleared
<1>7. ASSUME CloseConn PROVE OpenInv'
    BY <1>7 DEF Inv, OpenInv, Announced, CloseConn
<1>8. ASSUME NEW c \in Callers, NEW a \in Assignments, AssignDuplicate(c, a) PROVE OpenInv'
    BY <1>8 DEF Inv, OpenInv, Announced, AssignDuplicate
<1>8a. ASSUME NEW c \in Callers, NEW h \in Handles, AssignInvalid(c, h) PROVE OpenInv'
    BY <1>8a DEF Inv, OpenInv, Announced, AssignInvalid
<1>9. ASSUME NEW c \in Callers, AssignClose(c) PROVE OpenInv'
    BY <1>9 DEF Inv, OpenInv, Announced, AssignClose, IdleCaller
<1>10. ASSUME NEW a \in brokerPending, BrokerExpire(a) PROVE OpenInv'
    BY <1>10 DEF Inv, OpenInv, Announced, BrokerExpire
<1>11. ASSUME ReadOpen PROVE OpenInv'
  <2>1. ASSUME NEW i \in 1 .. Len(toParent')
        PROVE  toParent'[i] = toParent[i + 1] /\ i + 1 \in 1 .. Len(toParent)
      BY <1>11, ReceiveFacts DEF ReadOpen
  <2>2. /\ 1 \in 1 .. Len(toParent) /\ Head(toParent) = toParent[1] /\ toParent[1].type = "open"
        /\ toParent[1].a.handle \in Handles
      BY <1>11, ReceiveFacts, HeadFacts DEF ReadOpen, Receive, Reading
  <2>3. /\ UNCHANGED reported /\ brokerHandles' \subseteq brokerHandles \cup {toParent[1].a.handle}
      BY <1>11, <2>2 DEF ReadOpen, BrokerCleared
  <2>4. \A h \in Handles : Announced(h)' => Announced(h) /\ h # toParent[1].a.handle
      BY <2>1, <2>2 DEF Inv, OpenInv, Announced
  <2>5. Announced(toParent[1].a.handle)
      BY <2>2 DEF Announced
  <2>6. \A i, j \in 1 .. Len(toParent') :
          toParent'[i].type = "open" /\ toParent'[j].type = "open"
            /\ toParent'[i].a.handle = toParent'[j].a.handle => i = j
      BY <2>1, SMTT(30) DEF Inv, OpenInv
  <2> QED
      BY <2>2, <2>3, <2>4, <2>5, <2>6 DEF Inv, OpenInv
<1>12. ASSUME ReadACK PROVE OpenInv'
  <2>1. ASSUME NEW i \in 1 .. Len(toParent')
        PROVE  toParent'[i] = toParent[i + 1] /\ i + 1 \in 1 .. Len(toParent)
      BY <1>12, ReceiveFacts DEF ReadACK
  <2>2. UNCHANGED <<brokerHandles, reported>>
      BY <1>12 DEF ReadACK
  <2>3. \A h \in Handles : Announced(h)' => Announced(h)
      BY <2>1 DEF Announced
  <2>4. \A i, j \in 1 .. Len(toParent') :
          toParent'[i].type = "open" /\ toParent'[j].type = "open"
            /\ toParent'[i].a.handle = toParent'[j].a.handle => i = j
      BY <2>1, SMTT(30) DEF Inv, OpenInv
  <2> QED
      BY <2>2, <2>3, <2>4 DEF Inv, OpenInv
<1>13. ASSUME ReadVerified PROVE OpenInv'
  <2>1. ASSUME NEW i \in 1 .. Len(toParent')
        PROVE  toParent'[i] = toParent[i + 1] /\ i + 1 \in 1 .. Len(toParent)
      BY <1>13, ReceiveFacts DEF ReadVerified
  <2>2. UNCHANGED <<brokerHandles, reported>>
      BY <1>13 DEF ReadVerified
  <2>3. \A h \in Handles : Announced(h)' => Announced(h)
      BY <2>1 DEF Announced
  <2>4. \A i, j \in 1 .. Len(toParent') :
          toParent'[i].type = "open" /\ toParent'[j].type = "open"
            /\ toParent'[i].a.handle = toParent'[j].a.handle => i = j
      BY <2>1, SMTT(30) DEF Inv, OpenInv
  <2> QED
      BY <2>2, <2>3, <2>4 DEF Inv, OpenInv
<1>14. ASSUME Deliver PROVE OpenInv'
    BY <1>14 DEF Inv, OpenInv, Announced, Deliver, Consume, Listening, BrokerCleared, ReaderFails,
       Fail
<1>15. ASSUME NEW h \in Handles, ChildOpen(h) PROVE OpenInv'
  <2> DEFINE x == Packet("open", [handle |-> h], TRUE)
  <2>1. UNCHANGED toParent \/ (x \in Packets /\ Send(x))
      BY <1>15, ChildSends
  <2>2. \A i \in 1 .. Len(toParent') :
          \/ i \in 1 .. Len(toParent) /\ toParent'[i] = toParent[i]
          \/ i = Len(toParent) + 1 /\ toParent'[i] = x
    <3> HIDE DEF x
    <3> QED
        BY <2>1, SendFacts
  <2>3. UNCHANGED brokerHandles /\ h \notin reported /\ reported' = reported \cup {h}
        /\ x.type = "open" /\ x.a.handle = h
      BY <1>15 DEF ChildOpen, Packet
  <2> HIDE DEF x
  <2>4. \A g \in Handles : Announced(g)' => Announced(g) \/ g = h
      BY <2>2, <2>3 DEF Announced
  <2>5. ~Announced(h) /\ h \notin brokerHandles
      BY <2>3 DEF Inv, OpenInv
  <2>6. \A i \in 1 .. Len(toParent) : toParent[i].type = "open" => toParent[i].a.handle # h
      BY <2>5 DEF Announced
  <2>7. \A i, j \in 1 .. Len(toParent') :
          toParent'[i].type = "open" /\ toParent'[j].type = "open"
            /\ toParent'[i].a.handle = toParent'[j].a.handle => i = j
      BY <2>2, <2>3, <2>6 DEF Inv, OpenInv
  <2> QED
      BY <2>3, <2>4, <2>5, <2>7 DEF Inv, OpenInv
<1>16. ASSUME ChildAck PROVE OpenInv'
  <2> DEFINE x == Packet("ack", childReader.a, childReader.ok)
  <2>1. UNCHANGED toParent \/ (x \in Packets /\ Send(x))
      BY <1>16, ChildSends
  <2>2. \A i \in 1 .. Len(toParent') :
          \/ i \in 1 .. Len(toParent) /\ toParent'[i] = toParent[i]
          \/ i = Len(toParent) + 1 /\ toParent'[i] = x
    <3> HIDE DEF x
    <3> QED
        BY <2>1, SendFacts
  <2>3. UNCHANGED <<brokerHandles, reported>> /\ x.type # "open"
      BY <1>16 DEF ChildAck, ReaderWrites, Packet
  <2> HIDE DEF x
  <2>4. \A h \in Handles : Announced(h)' => Announced(h)
      BY <2>2, <2>3 DEF Announced
  <2>5. \A i, j \in 1 .. Len(toParent') :
          toParent'[i].type = "open" /\ toParent'[j].type = "open"
            /\ toParent'[i].a.handle = toParent'[j].a.handle => i = j
      BY <2>2, <2>3 DEF Inv, OpenInv
  <2> QED
      BY <2>3, <2>4, <2>5 DEF Inv, OpenInv
<1>17. ASSUME ChildSend PROVE OpenInv'
  <2> DEFINE x == Packet("verified", childReader.a, childReader.ok)
  <2>1. UNCHANGED toParent \/ (x \in Packets /\ Send(x))
      BY <1>17, ChildSends
  <2>2. \A i \in 1 .. Len(toParent') :
          \/ i \in 1 .. Len(toParent) /\ toParent'[i] = toParent[i]
          \/ i = Len(toParent) + 1 /\ toParent'[i] = x
    <3> HIDE DEF x
    <3> QED
        BY <2>1, SendFacts
  <2>3. UNCHANGED <<brokerHandles, reported>> /\ x.type # "open"
      BY <1>17 DEF ChildSend, ReaderWrites, Packet
  <2> HIDE DEF x
  <2>4. \A h \in Handles : Announced(h)' => Announced(h)
      BY <2>2, <2>3 DEF Announced
  <2>5. \A i, j \in 1 .. Len(toParent') :
          toParent'[i].type = "open" /\ toParent'[j].type = "open"
            /\ toParent'[i].a.handle = toParent'[j].a.handle => i = j
      BY <2>2, <2>3 DEF Inv, OpenInv
  <2> QED
      BY <2>3, <2>4, <2>5 DEF Inv, OpenInv
<1> QED
    BY AssignCases, <1>1, <1>2, <1>3, <1>4, <1>5, <1>6, <1>7, <1>8, <1>8a, <1>9, <1>10, <1>11,
       <1>12, <1>13, <1>14, <1>15, <1>16, <1>17
       DEF Next, CloseStep, AssignStep, ReaderStep, ChildStep, vars

\* A connection that was bound can never be bound again.
NoneReleased == \A h \in Handles : Unbound(h)' => Unbound(h)

\* A handle leaves the broker together with its assignment.
LEMMA NextReleased == Inv /\ [Next]_vars => NoneReleased
<1> SUFFICES ASSUME Inv, [Next]_vars PROVE NoneReleased
    OBVIOUS
<1> USE DEF broker, session, sequences, socket, endpoint, history
<1>1. CASE UNCHANGED <<brokerHandles, brokerPending, reported, toParent>>
    BY <1>1 DEF NoneReleased, Unbound, Announced
<1>2. CASE CloseGate \/ CloseDone \/ CloseClear
    BY <1>2, <1>1 DEF CloseGate, CloseDone, CloseClear
<1>3. CASE 
             (\E c \in Callers : AssignEnter(c) \/ AssignInsert(c) \/ AssignWrite(c)
                                 \/ AssignLock(c) \/ AssignFailed(c) \/ AssignSelect(c)
                                 \/ AssignRemove(c))
    BY <1>3, <1>1 DEF AssignEnter, AssignInsert, AssignWrite, Fail, AssignLock, AssignFailed,
       AssignSelect, AssignRemove
<1>4. CASE ReadError \/ ReaderEnds \/ DeliverLookup \/ OwnerStep
             \/ (\E p \in pending : expirePending(p))
    BY <1>4, <1>1 DEF expirePending, ReadError, ReaderFails, Fail, ReaderEnds,
       DeliverLookup, OwnerStep
<1>5. CASE ChildRead \/ ChildEOF \/ ChildEmit \/ ChildClaim \/ ChildClear \/ ChildDies
             \/ Tick \/ (\E h \in Handles : ChildClose(h))
             \/ (\E a \in assignments : ChildExpire(a))
    BY <1>5, <1>1 DEF ChildClose, ForgetHandle, Forget, ChildRead, CloseTransport, ChildEOF,
       ChildEmit, ChildClaim, ChildClear, ChildExpire, ChildDies, Tick
<1>6. ASSUME CloseDeactivate PROVE NoneReleased
    BY <1>6 DEF NoneReleased, Unbound, Announced, CloseDeactivate, BrokerCleared
<1>7. ASSUME CloseConn PROVE NoneReleased
    BY <1>7 DEF NoneReleased, Unbound, Announced, CloseConn
<1>8. ASSUME NEW c \in Callers, NEW a \in Assignments, AssignGranted(c, a) PROVE NoneReleased
    BY <1>8 DEF NoneReleased, Unbound, Announced, AssignGranted
<1>9. ASSUME NEW c \in Callers, NEW a \in Assignments, AssignDuplicate(c, a) PROVE NoneReleased
    BY <1>9 DEF NoneReleased, Unbound, Announced, AssignDuplicate
<1>9a. ASSUME NEW c \in Callers, NEW h \in Handles, AssignInvalid(c, h) PROVE NoneReleased
    BY <1>9a DEF NoneReleased, Unbound, Announced, AssignInvalid
<1>10. ASSUME NEW c \in Callers, AssignClose(c) PROVE NoneReleased
    BY <1>10 DEF NoneReleased, Unbound, Announced, AssignClose, IdleCaller
<1>11. ASSUME NEW a \in brokerPending, BrokerExpire(a) PROVE NoneReleased
    BY <1>11 DEF NoneReleased, Unbound, Announced, BrokerExpire
<1>12. ASSUME ReadOpen PROVE NoneReleased
  <2>1. ASSUME NEW i \in 1 .. Len(toParent')
        PROVE  toParent'[i] = toParent[i + 1] /\ i + 1 \in 1 .. Len(toParent)
      BY <1>12, ReceiveFacts DEF ReadOpen
  <2>2. 1 \in 1 .. Len(toParent) /\ Head(toParent) = toParent[1] /\ toParent[1].type = "open"
      BY <1>12, ReceiveFacts DEF ReadOpen
  <2>3. /\ UNCHANGED reported /\ (brokerHandles' = {} \/ UNCHANGED brokerPending)
        /\ brokerHandles' \subseteq brokerHandles \cup {toParent[1].a.handle}
      BY <1>12, <2>2 DEF ReadOpen, BrokerCleared
  <2> QED
      BY <2>1, <2>2, <2>3 DEF NoneReleased, Unbound, Announced
<1>13. ASSUME ReadACK PROVE NoneReleased
  <2>1. ASSUME NEW i \in 1 .. Len(toParent')
        PROVE  toParent'[i] = toParent[i + 1] /\ i + 1 \in 1 .. Len(toParent)
      BY <1>13, ReceiveFacts DEF ReadACK
  <2>2. UNCHANGED <<brokerHandles, brokerPending, reported>>
      BY <1>13 DEF ReadACK
  <2> QED
      BY <2>1, <2>2 DEF NoneReleased, Unbound, Announced
<1>14. ASSUME ReadVerified PROVE NoneReleased
  <2>1. ASSUME NEW i \in 1 .. Len(toParent')
        PROVE  toParent'[i] = toParent[i + 1] /\ i + 1 \in 1 .. Len(toParent)
      BY <1>14, ReceiveFacts DEF ReadVerified
  <2>2. UNCHANGED <<brokerHandles, brokerPending, reported>>
      BY <1>14 DEF ReadVerified
  <2> QED
      BY <2>1, <2>2 DEF NoneReleased, Unbound, Announced
<1>15. ASSUME Deliver PROVE NoneReleased
    BY <1>15 DEF NoneReleased, Unbound, Announced, Deliver, Consume, Listening, BrokerCleared,
       ReaderFails, Fail
<1>16. ASSUME NEW h \in Handles, ChildOpen(h) PROVE NoneReleased
  <2> DEFINE x == Packet("open", [handle |-> h], TRUE)
  <2>1. UNCHANGED toParent \/ (x \in Packets /\ Send(x))
      BY <1>16, ChildSends
  <2>2. \A i \in 1 .. Len(toParent') :
          \/ i \in 1 .. Len(toParent) /\ toParent'[i] = toParent[i]
          \/ i = Len(toParent) + 1 /\ toParent'[i] = x
    <3> HIDE DEF x
    <3> QED
        BY <2>1, SendFacts
  <2>3. UNCHANGED <<brokerHandles, brokerPending>> /\ h \notin reported /\ reported' = reported \cup {h}
        /\ x.a.handle = h
      BY <1>16 DEF ChildOpen, Packet
  <2> HIDE DEF x
  <2> QED
      BY <2>2, <2>3 DEF NoneReleased, Unbound, Announced
<1>17. ASSUME ChildAck PROVE NoneReleased
  <2> DEFINE x == Packet("ack", childReader.a, childReader.ok)
  <2>1. UNCHANGED toParent \/ (x \in Packets /\ Send(x))
      BY <1>17, ChildSends
  <2>2. \A i \in 1 .. Len(toParent') :
          \/ i \in 1 .. Len(toParent) /\ toParent'[i] = toParent[i]
          \/ i = Len(toParent) + 1 /\ toParent'[i] = x
    <3> HIDE DEF x
    <3> QED
        BY <2>1, SendFacts
  <2>3. UNCHANGED <<brokerHandles, brokerPending, reported>> /\ x.type # "open"
      BY <1>17 DEF ChildAck, ReaderWrites, Packet
  <2> HIDE DEF x
  <2> QED
      BY <2>2, <2>3 DEF NoneReleased, Unbound, Announced
<1>18. ASSUME ChildSend PROVE NoneReleased
  <2> DEFINE x == Packet("verified", childReader.a, childReader.ok)
  <2>1. UNCHANGED toParent \/ (x \in Packets /\ Send(x))
      BY <1>18, ChildSends
  <2>2. \A i \in 1 .. Len(toParent') :
          \/ i \in 1 .. Len(toParent) /\ toParent'[i] = toParent[i]
          \/ i = Len(toParent) + 1 /\ toParent'[i] = x
    <3> HIDE DEF x
    <3> QED
        BY <2>1, SendFacts
  <2>3. UNCHANGED <<brokerHandles, brokerPending, reported>> /\ x.type # "open"
      BY <1>18 DEF ChildSend, ReaderWrites, Packet
  <2> HIDE DEF x
  <2> QED
      BY <2>2, <2>3 DEF NoneReleased, Unbound, Announced
<1> QED
    BY AssignCases, <1>1, <1>2, <1>3, <1>4, <1>5, <1>6, <1>7, <1>8, <1>9, <1>9a, <1>10, <1>11,
       <1>12, <1>13, <1>14, <1>15, <1>16, <1>17, <1>18
       DEF Next, CloseStep, AssignStep, ReaderStep, ChildStep, vars

\* A grant binds a connection that nothing was known of.
LEMMA GrantFacts ==
    ASSUME Inv, NEW c \in Callers, NEW a \in Assignments, AssignGranted(c, a)
    PROVE  Unbound(a.handle) /\ ~Unbound(a.handle)'
           /\ \A b \in Assignments : Carried(b) => b.handle # a.handle
<1>1. a.handle \in brokerHandles /\ \A p \in brokerPending : p.handle # a.handle
    BY DEF AssignGranted
<1>2. Unbound(a.handle)
    BY <1>1 DEF Unbound
<1>3. a.handle \in reported /\ ~Announced(a.handle)
    BY <1>1, RecordFacts DEF Inv, OpenInv
<1>4. a \in brokerPending' /\ UNCHANGED <<reported, toParent>>
    BY DEF AssignGranted, socket, history
<1>5. ~Unbound(a.handle)'
    BY <1>3, <1>4 DEF Unbound, Announced
<1> QED
    BY <1>2, <1>5 DEF Inv, OnceInv

\* A connection is assigned once: whatever is known of it is one assignment.
LEMMA NextOnce == Inv /\ [Next]_vars => OnceInv'
<1> SUFFICES ASSUME Inv, [Next]_vars PROVE OnceInv'
    OBVIOUS
<1>1. NoneInvented /\ NoneReleased
    BY NextCarried, NextReleased
<1>2. ASSUME NEW a \in Assignments, Carried(a)' PROVE ~Unbound(a.handle)'
  <2>1. CASE Carried(a)
      BY <1>1, <2>1, RecordFacts DEF Inv, OnceInv, NoneReleased
  <2>2. ASSUME NEW c \in Callers, AssignGranted(c, a) PROVE ~Unbound(a.handle)'
      BY <2>2, GrantFacts
  <2> QED
      BY <1>1, <1>2, <2>1, <2>2 DEF NoneInvented
<1>3. ASSUME NEW a \in Assignments, NEW b \in Assignments, Carried(a)', Carried(b)', a.handle = b.handle
      PROVE  a = b
  <2>1. CASE Carried(a) /\ Carried(b)
      BY <1>3, <2>1 DEF Inv, OnceInv
  <2>2. ASSUME NEW c \in Callers, AssignGranted(c, a) PROVE a = b
    <3>1. ~Carried(b)
        BY <1>3, <2>2, GrantFacts
    <3>2. PICK d \in Callers : AssignGranted(d, b)
        BY <1>1, <1>3, <3>1 DEF NoneInvented
    <3> QED
        BY <2>2, <3>2 DEF AssignGranted
  <2>3. ASSUME NEW c \in Callers, AssignGranted(c, b) PROVE a = b
    <3>1. ~Carried(a)
        BY <1>3, <2>3, GrantFacts
    <3>2. PICK d \in Callers : AssignGranted(d, a)
        BY <1>1, <1>3, <3>1 DEF NoneInvented
    <3> QED
        BY <2>3, <3>2 DEF AssignGranted
  <2> QED
      BY <1>1, <1>3, <2>1, <2>2, <2>3 DEF NoneInvented
<1> QED
    BY <1>2, <1>3 DEF OnceInv

----------------------------------------------------------------------------
(***************************************************************************)
(* How an assignment advances.                                             *)
(***************************************************************************)
\* Each stage is entered from the one before, which the step leaves.
AdvanceUnwritten == \A h \in Handles : Unwritten(h)' => Unwritten(h) \/ Unbound(h)
AdvanceRequested ==
    \A h \in Handles : Requested(h)' => Requested(h) \/ (Unwritten(h) /\ ~Unwritten(h)')
AdvanceAnswering ==
    \A h \in Handles :
        /\ Answering(h)' => Answering(h) \/ (Requested(h) /\ ~Requested(h)')
        /\ Replying(h)' => Replying(h) \/ (Requested(h) /\ ~Requested(h)')
AdvanceAcking ==
    \A h \in Handles :
        /\ Acking(h)' => Acking(h) \/ (Replying(h) /\ ~Replying(h)')
        /\ Nacking(h)' => Nacking(h) \/ (Replying(h) /\ ~Answering(h)')
AdvanceAcknowledged ==
    \A h \in Handles : Acknowledged(h)' => Acknowledged(h) \/ (Acking(h) /\ ~Acking(h)')
AdvanceFramed ==
    \A h \in Handles : Framed(h)' => Framed(h) \/ (Answering(h) /\ ~Replying(h))

Advance ==
    /\ AdvanceUnwritten /\ AdvanceRequested /\ AdvanceAnswering
    /\ AdvanceAcking /\ AdvanceAcknowledged /\ AdvanceFramed

\* Every stage is about an assignment that is carried somewhere.
LEMMA StagesCarried ==
    ASSUME Inv, NEW h \in Handles
    PROVE  /\ Unbound(h) =>
                /\ ~Unwritten(h) /\ ~Requested(h) /\ ~Answering(h) /\ ~Replying(h)
                /\ ~Acking(h) /\ ~Nacking(h) /\ ~Acknowledged(h) /\ ~Framed(h)
                /\ \A c \in Callers : caller[c].pc # "idle" => caller[c].a.handle # h
                /\ \A p \in pending : p.handle # h
                /\ \A a \in refused : a.handle # h
<1> SUFFICES ASSUME Unbound(h) PROVE
                /\ ~Unwritten(h) /\ ~Requested(h) /\ ~Answering(h) /\ ~Replying(h)
                /\ ~Acking(h) /\ ~Nacking(h) /\ ~Acknowledged(h) /\ ~Framed(h)
                /\ \A c \in Callers : caller[c].pc # "idle" => caller[c].a.handle # h
                /\ \A p \in pending : p.handle # h
                /\ \A a \in refused : a.handle # h
    OBVIOUS
<1>1. \A a \in Assignments : Carried(a) => a.handle # h
    BY DEF Inv, OnceInv
<1>2. \A c \in Callers : caller[c].pc # "idle" => caller[c].a.handle # h
    BY <1>1 DEF Inv, ShapeInv, CallerShape, Carried
<1>3. \A i \in 1 .. Len(toChild) : toChild[i].a.handle # h
  <2> SUFFICES ASSUME NEW i \in 1 .. Len(toChild) PROVE toChild[i].a.handle # h
      OBVIOUS
  <2>1. toChild[i] \in Requests
      BY DEF Inv, ShapeInv, SocketShape
  <2>2. toChild[i].a \in Assignments
      BY <2>1 DEF Requests
  <2> QED
      BY <1>1, <2>2 DEF Carried
<1>4. childReader.pc \in AnswerSteps => childReader.a.handle # h
    BY <1>1 DEF Inv, ShapeInv, AnswerShape, Carried
<1>5. \A i \in 1 .. Len(toParent) : toParent[i].type # "open" => toParent[i].a.handle # h
    BY <1>1 DEF Inv, ShapeInv, SocketShape, Carried
<1>6. \A p \in pending : p.handle # h
  <2> SUFFICES ASSUME NEW p \in pending PROVE p.handle # h
      OBVIOUS
  <2>1. AssignmentOf(p) \in Assignments /\ AssignmentOf(p).handle = p.handle
      BY EntryFacts
  <2>2. Carried(AssignmentOf(p))
      BY DEF Carried
  <2> QED
      BY <1>1, <2>1, <2>2
<1>7. reader.pc \in {"lookup", "deliver"} => reader.a.handle # h
    BY <1>1 DEF Inv, ShapeInv, ReaderShape, Carried
<1>8. \A p \in published : p.for.handle # h
  <2> SUFFICES ASSUME NEW p \in published PROVE p.for.handle # h
      OBVIOUS
  <2>1. p.for \in Assignments
      BY DEF Inv, ShapeInv, HistoryShape
  <2> QED
      BY <1>1, <2>1 DEF Carried
<1>9. \A a \in refused : a.handle # h
    BY <1>1 DEF Inv, ShapeInv, HistoryShape, Carried
<1>10. ~Unwritten(h) /\ ~Requested(h) /\ ~Answering(h) /\ ~Replying(h)
    BY <1>2, <1>3, <1>4 DEF Unwritten, Requested, Answering, Replying, AnswerSteps
<1>11. ~Acking(h) /\ ~Nacking(h) /\ ~Acknowledged(h) /\ ~Framed(h)
    BY <1>5, <1>6, <1>7, <1>8 DEF Acking, Nacking, Acknowledged, Framed
<1> QED
    BY <1>2, <1>6, <1>9, <1>10, <1>11

\* The stages exclude each other as long as they are entered in order.
LEMMA AdvanceKeepsStages == Inv /\ Advance => StageInv'
<1> SUFFICES ASSUME Inv, Advance, NEW h \in Handles
             PROVE  (/\ Unwritten(h) => ~Requested(h)
                     /\ Unwritten(h) \/ Requested(h) => ~Answering(h)
                     /\ Unwritten(h) \/ Requested(h) \/ Replying(h) => ~Acking(h) /\ ~Framed(h)
                     /\ Unwritten(h) \/ Requested(h) \/ Replying(h) \/ Acking(h) => ~Acknowledged(h)
                     /\ Nacking(h) => ~Answering(h) /\ ~Framed(h))'
    BY DEF StageInv
<1>1. /\ Unwritten(h)' => Unwritten(h) \/ Unbound(h)
      /\ Requested(h)' => Requested(h) \/ (Unwritten(h) /\ ~Unwritten(h)')
      /\ Answering(h)' => Answering(h) \/ (Requested(h) /\ ~Requested(h)')
      /\ Replying(h)' => Replying(h) \/ (Requested(h) /\ ~Requested(h)')
      /\ Acking(h)' => Acking(h) \/ (Replying(h) /\ ~Replying(h)')
      /\ Nacking(h)' => Nacking(h) \/ (Replying(h) /\ ~Answering(h)')
      /\ Acknowledged(h)' => Acknowledged(h) \/ (Acking(h) /\ ~Acking(h)')
      /\ Framed(h)' => Framed(h) \/ (Answering(h) /\ ~Replying(h))
    BY DEF Advance, AdvanceUnwritten, AdvanceRequested, AdvanceAnswering,
           AdvanceAcking, AdvanceAcknowledged, AdvanceFramed
<1>2. /\ Unwritten(h) => ~Requested(h)
      /\ Unwritten(h) \/ Requested(h) => ~Answering(h)
      /\ Unwritten(h) \/ Requested(h) \/ Replying(h) => ~Acking(h) /\ ~Framed(h)
      /\ Unwritten(h) \/ Requested(h) \/ Replying(h) \/ Acking(h) => ~Acknowledged(h)
      /\ Nacking(h) => ~Answering(h) /\ ~Framed(h)
    BY DEF Inv, StageInv
<1>3. Unbound(h) =>
        /\ ~Unwritten(h) /\ ~Requested(h) /\ ~Answering(h) /\ ~Replying(h)
        /\ ~Acking(h) /\ ~Nacking(h) /\ ~Acknowledged(h) /\ ~Framed(h)
    BY StagesCarried
<1>4. (Replying(h) => Answering(h)) /\ (Nacking(h) => Acking(h))
      /\ (Replying(h)' => Answering(h)')
    BY DEF Replying, Answering, AnswerSteps, Nacking, Acking
<1> QED
    BY <1>1, <1>2, <1>3, <1>4

----------------------------------------------------------------------------
(***************************************************************************)
(* Every step advances an assignment by a stage, or leaves it.             *)
(***************************************************************************)
\* A goroutine takes up a connection when the broker grants it.
LEMMA NextUnwritten == Inv /\ [Next]_vars => AdvanceUnwritten
<1> SUFFICES ASSUME Inv, [Next]_vars PROVE AdvanceUnwritten
    OBVIOUS
<1> USE DEF broker, session, sequences, socket, endpoint, history
<1>1. CASE UNCHANGED <<caller>>
    BY <1>1 DEF AdvanceUnwritten, Unwritten
<1>2. CASE CloseGate \/ CloseDone \/ CloseDeactivate \/ CloseConn
    BY <1>2, <1>1 DEF CloseGate, CloseDone, CloseDeactivate, BrokerCleared, CloseConn
<1>3. CASE (\E c \in Callers, a \in Assignments : AssignDuplicate(c, a))
             \/ (\E c \in Callers, h \in Handles : AssignInvalid(c, h))
    BY <1>3, <1>1 DEF AssignDuplicate, AssignInvalid
<1>4. CASE ReadError \/ ReaderEnds \/ ReadOpen \/ ReadVerified \/ DeliverLookup
             \/ Deliver \/ OwnerStep \/ (\E a \in brokerPending : BrokerExpire(a))
    BY <1>4, <1>1 DEF BrokerExpire, ReadError, ReaderFails, Fail, ReaderEnds, ReadOpen,
       Receive, BrokerCleared, ReadVerified, DeliverLookup, Deliver, Consume, OwnerStep
<1>5. CASE ChildRead \/ ChildEOF \/ ChildAck \/ ChildEmit \/ ChildClaim \/ ChildSend
             \/ ChildClear \/ ChildDies \/ Tick
             \/ (\E h \in Handles : ChildOpen(h) \/ ChildClose(h))
             \/ (\E a \in assignments : ChildExpire(a))
    BY <1>5, <1>1 DEF ChildOpen, CloseTransport, Send, ChildClose, ForgetHandle, Forget,
       ChildRead, ChildEOF, ChildAck, ReaderWrites, ChildEmit, ChildClaim, ChildSend,
       ChildClear, ChildExpire, ChildDies, Tick
<1>6. ASSUME CloseClear PROVE AdvanceUnwritten
    BY <1>6 DEF Inv, ShapeInv, CallerShape, AdvanceUnwritten, Unwritten, CloseClear, Notify
<1>7. ASSUME NEW c \in Callers, NEW a \in Assignments, AssignGranted(c, a) PROVE AdvanceUnwritten
  <2>1. Unbound(a.handle)
      BY <1>7, GrantFacts
  <2> QED
      BY <1>7, <2>1 DEF Inv, ShapeInv, CallerShape, AdvanceUnwritten, Unwritten,
         AssignGranted
<1>8. ASSUME NEW c \in Callers, AssignEnter(c) PROVE AdvanceUnwritten
    BY <1>8 DEF Inv, ShapeInv, CallerShape, AdvanceUnwritten, Unwritten, AssignEnter, Goto
<1>9. ASSUME NEW c \in Callers, AssignInsert(c) PROVE AdvanceUnwritten
    BY <1>9 DEF Inv, ShapeInv, CallerShape, AdvanceUnwritten, Unwritten, AssignInsert, Goto
<1>10. ASSUME NEW c \in Callers, AssignWrite(c) PROVE AdvanceUnwritten
    BY <1>10 DEF Inv, ShapeInv, CallerShape, AdvanceUnwritten, Unwritten, AssignWrite, Goto,
       Fail
<1>11. ASSUME NEW c \in Callers, AssignFailed(c) PROVE AdvanceUnwritten
    BY <1>11 DEF Inv, ShapeInv, CallerShape, AdvanceUnwritten, Unwritten, AssignFailed, Goto
<1>11a. ASSUME NEW c \in Callers, AssignLock(c) PROVE AdvanceUnwritten
    BY <1>11a DEF Inv, ShapeInv, CallerShape, AdvanceUnwritten, Unwritten, AssignLock, Goto
<1>12. ASSUME NEW c \in Callers, AssignSelect(c) PROVE AdvanceUnwritten
    BY <1>12 DEF Inv, ShapeInv, CallerShape, AdvanceUnwritten, Unwritten, AssignSelect,
       Goto, IdleCaller
<1>13. ASSUME NEW c \in Callers, AssignRemove(c) PROVE AdvanceUnwritten
    BY <1>13 DEF Inv, ShapeInv, CallerShape, AdvanceUnwritten, Unwritten, AssignRemove, Goto
<1>14. ASSUME NEW c \in Callers, AssignClose(c) PROVE AdvanceUnwritten
    BY <1>14 DEF Inv, ShapeInv, CallerShape, AdvanceUnwritten, Unwritten, AssignClose,
       IdleCaller
<1>15. ASSUME NEW p \in pending, expirePending(p) PROVE AdvanceUnwritten
    BY <1>15 DEF Inv, ShapeInv, CallerShape, AdvanceUnwritten, Unwritten, expirePending,
       Notify
<1>16. ASSUME ReadACK PROVE AdvanceUnwritten
    BY <1>16 DEF Inv, ShapeInv, CallerShape, AdvanceUnwritten, Unwritten, ReadACK, Receive,
       Reading, ReaderFails, Fail, Notify
<1> QED
    BY AssignCases, <1>1, <1>2, <1>3, <1>4, <1>5, <1>6, <1>7, <1>8, <1>9, <1>10, <1>11, <1>11a,
       <1>12, <1>13, <1>14, <1>15, <1>16
       DEF Next, CloseStep, AssignStep, ReaderStep, ChildStep, vars

\* It writes one request.
LEMMA NextRequested == Inv /\ [Next]_vars => AdvanceRequested
<1> SUFFICES ASSUME Inv, [Next]_vars PROVE AdvanceRequested
    OBVIOUS
<1> USE DEF broker, session, sequences, socket, endpoint, history
<1>1. CASE UNCHANGED <<toChild>>
    BY <1>1 DEF AdvanceRequested, Requested
<1>2. CASE CloseGate \/ CloseDone \/ CloseDeactivate \/ CloseConn \/ CloseClear
    BY <1>2, <1>1 DEF CloseGate, CloseDone, CloseDeactivate, BrokerCleared, CloseConn,
       CloseClear
<1>3. CASE 
             (\E c \in Callers : AssignEnter(c) \/ AssignInsert(c) \/ AssignLock(c) \/ AssignFailed(c)
                                 \/ AssignSelect(c) \/ AssignRemove(c) \/ AssignClose(c))
             \/ (\E c \in Callers, a \in Assignments : AssignGranted(c, a) \/ AssignDuplicate(c, a))
             \/ (\E c \in Callers, h \in Handles : AssignInvalid(c, h))
    BY <1>3, <1>1 DEF AssignGranted, AssignDuplicate, AssignInvalid, AssignEnter, AssignInsert,
       AssignLock, AssignFailed, AssignSelect, AssignRemove, AssignClose
<1>4. CASE ReadError \/ ReaderEnds \/ ReadOpen \/ ReadACK \/ ReadVerified
             \/ DeliverLookup \/ Deliver \/ OwnerStep
             \/ (\E a \in brokerPending : BrokerExpire(a))
             \/ (\E p \in pending : expirePending(p))
    BY <1>4, <1>1 DEF BrokerExpire, expirePending, ReadError, ReaderFails, Fail, ReaderEnds,
       ReadOpen, Receive, BrokerCleared, ReadACK, ReadVerified, DeliverLookup, Deliver, Consume,
       OwnerStep
<1>5. CASE ChildEOF \/ ChildAck \/ ChildEmit \/ ChildClaim \/ ChildSend \/ ChildClear
             \/ Tick \/ (\E h \in Handles : ChildOpen(h) \/ ChildClose(h))
             \/ (\E a \in assignments : ChildExpire(a))
    BY <1>5, <1>1 DEF ChildOpen, CloseTransport, Send, ChildClose, ForgetHandle, Forget,
       ChildEOF, ChildAck, ReaderWrites, ChildEmit, ChildClaim, ChildSend, ChildClear,
       ChildExpire, Tick
<1>6. ASSUME NEW c \in Callers, AssignWrite(c) PROVE AdvanceRequested
  <2> SUFFICES ASSUME NEW h \in Handles, Requested(h)', ~Requested(h)
               PROVE  Unwritten(h) /\ ~Unwritten(h)'
      BY DEF AdvanceRequested
  <2>1. /\ Len(toChild) \in Nat /\ Len(toChild') = Len(toChild) + 1
        /\ \A i \in 1 .. Len(toChild) : toChild'[i] = toChild[i]
        /\ toChild'[Len(toChild) + 1] = [sequence |-> writeSequence + 1, a |-> caller[c].a]
        /\ caller' = [caller EXCEPT ![c].pc = "select"]
        /\ caller[c].pc = "write"
      BY <1>6, WriteFacts DEF Requested
  <2>2. PICK i \in 1 .. Len(toChild') : toChild'[i].a.handle = h
      BY DEF Requested
  <2>3. i \notin 1 .. Len(toChild)
      BY <2>1, <2>2 DEF Requested
  <2>4. i = Len(toChild) + 1
      BY <2>1, <2>2, <2>3
  <2>5. caller[c].a.handle = h
      BY <2>1, <2>2, <2>4
  <2>6. \A d \in Callers : caller[d].pc # "idle" /\ caller[d].a.handle = h => d = c
      BY <2>1, <2>5 DEF Inv, UniqueInv, OneCaller
  <2> QED
      BY <2>1, <2>5, <2>6 DEF Unwritten, Inv, ShapeInv, CallerShape
<1>7. ASSUME ChildRead PROVE AdvanceRequested
  <2>1. \A i \in 1 .. Len(toChild') : toChild'[i] = toChild[i + 1] /\ i + 1 \in 1 .. Len(toChild)
      BY <1>7, ReadFacts
  <2> QED
      BY <2>1 DEF AdvanceRequested, Requested
<1>8. ASSUME ChildDies PROVE AdvanceRequested
    BY <1>8 DEF AdvanceRequested, Requested, ChildDies
<1> QED
    BY AssignCases, <1>1, <1>2, <1>3, <1>4, <1>5, <1>6, <1>7, <1>8
       DEF Next, CloseStep, AssignStep, ReaderStep, ChildStep, vars

\* The child takes up a request.
LEMMA NextAnswering == Inv /\ [Next]_vars => AdvanceAnswering
<1> SUFFICES ASSUME Inv, [Next]_vars PROVE AdvanceAnswering
    OBVIOUS
<1> USE DEF broker, session, sequences, socket, endpoint, history
<1>1. CASE UNCHANGED <<childReader>>
    BY <1>1 DEF AdvanceAnswering, Answering, Replying, AnswerSteps
<1>2. CASE CloseGate \/ CloseDone \/ CloseDeactivate \/ CloseConn \/ CloseClear
    BY <1>2, <1>1 DEF CloseGate, CloseDone, CloseDeactivate, BrokerCleared, CloseConn,
       CloseClear
<1>3. CASE 
             (\E c \in Callers : AssignEnter(c) \/ AssignInsert(c) \/ AssignWrite(c)
                                 \/ AssignLock(c) \/ AssignFailed(c) \/ AssignSelect(c)
                                 \/ AssignRemove(c)
                                 \/ AssignClose(c))
             \/ (\E c \in Callers, a \in Assignments : AssignGranted(c, a) \/ AssignDuplicate(c, a))
             \/ (\E c \in Callers, h \in Handles : AssignInvalid(c, h))
    BY <1>3, <1>1 DEF AssignGranted, AssignDuplicate, AssignInvalid, AssignEnter, AssignInsert,
       AssignWrite, Fail, AssignLock, AssignFailed, AssignSelect, AssignRemove, AssignClose
<1>4. CASE ReadError \/ ReaderEnds \/ ReadOpen \/ ReadACK \/ ReadVerified
             \/ DeliverLookup \/ Deliver \/ OwnerStep
             \/ (\E a \in brokerPending : BrokerExpire(a))
             \/ (\E p \in pending : expirePending(p))
    BY <1>4, <1>1 DEF BrokerExpire, expirePending, ReadError, ReaderFails, Fail, ReaderEnds,
       ReadOpen, Receive, BrokerCleared, ReadACK, ReadVerified, DeliverLookup, Deliver, Consume,
       OwnerStep
<1>5. CASE Tick \/ (\E h \in Handles : ChildOpen(h) \/ ChildClose(h))
             \/ (\E a \in assignments : ChildExpire(a))
    BY <1>5, <1>1 DEF ChildOpen, CloseTransport, Send, ChildClose, ForgetHandle, Forget,
       ChildExpire, Tick
<1>6. ASSUME ChildRead PROVE AdvanceAnswering
  <2>1. /\ childReader.pc = "read" /\ 1 \in 1 .. Len(toChild) /\ Head(toChild) = toChild[1]
        /\ \A i \in 1 .. Len(toChild') : toChild'[i] = toChild[i + 1] /\ i + 1 \in 1 .. Len(toChild)
      BY <1>6, ReadFacts
  <2>2. childReader'.pc = "ended" \/ childReader'.a = toChild[1].a
      BY <1>6, <2>1 DEF ChildRead, Inv, ShapeInv, AnswerShape
  <2>3. ASSUME NEW h \in Handles, childReader'.pc # "ended", childReader'.a.handle = h
        PROVE  Requested(h) /\ ~Requested(h)'
    <3>1. toChild[1].a.handle = h
        BY <2>2, <2>3
    <3>2. \A j \in 1 .. Len(toChild) : toChild[j].a.handle = h => j = 1
        BY <2>1, <3>1 DEF Inv, UniqueInv, OneRequest
    <3>3. ASSUME NEW i \in 1 .. Len(toChild') PROVE toChild'[i].a.handle # h
      <4>1. i + 1 # 1
          OBVIOUS
      <4> QED
          BY <2>1, <3>2, <4>1
    <3> QED
        BY <2>1, <3>1, <3>3 DEF Requested
  <2> QED
      BY <2>3 DEF AdvanceAnswering, Answering, Replying, AnswerSteps
<1>7. ASSUME ChildEOF PROVE AdvanceAnswering
    BY <1>7 DEF Inv, ShapeInv, AnswerShape, AnswerSteps, AdvanceAnswering, Answering,
       Replying, ChildEOF, CloseTransport
<1>8. ASSUME ChildAck PROVE AdvanceAnswering
    BY <1>8 DEF Inv, ShapeInv, AnswerShape, AnswerSteps, AdvanceAnswering, Answering,
       Replying, ChildAck, ReaderWrites, Send, Packet, CloseTransport
<1>9. ASSUME ChildEmit PROVE AdvanceAnswering
    BY <1>9 DEF Inv, ShapeInv, AnswerShape, AnswerSteps, AdvanceAnswering, Answering,
       Replying, ChildEmit
<1>10. ASSUME ChildClaim PROVE AdvanceAnswering
    BY <1>10 DEF Inv, ShapeInv, AnswerShape, AnswerSteps, AdvanceAnswering, Answering,
       Replying, ChildClaim, Forget
<1>11. ASSUME ChildSend PROVE AdvanceAnswering
    BY <1>11 DEF Inv, ShapeInv, AnswerShape, AnswerSteps, AdvanceAnswering, Answering,
       Replying, ChildSend, ReaderWrites, Send, Packet, CloseTransport
<1>12. ASSUME ChildClear PROVE AdvanceAnswering
    BY <1>12 DEF Inv, ShapeInv, AnswerShape, AnswerSteps, AdvanceAnswering, Answering,
       Replying, ChildClear, Forget
<1>13. ASSUME ChildDies PROVE AdvanceAnswering
    BY <1>13 DEF Inv, ShapeInv, AnswerShape, AnswerSteps, AdvanceAnswering, Answering,
       Replying, ChildDies
<1> QED
    BY AssignCases, <1>1, <1>2, <1>3, <1>4, <1>5, <1>6, <1>7, <1>8, <1>9, <1>10, <1>11,
       <1>12, <1>13
       DEF Next, CloseStep, AssignStep, ReaderStep, ChildStep, vars

\* It acknowledges what it has taken up, and after a refusal it is done.
LEMMA NextAcking == Inv /\ [Next]_vars => AdvanceAcking
<1> SUFFICES ASSUME Inv, [Next]_vars PROVE AdvanceAcking
    OBVIOUS
<1> USE DEF broker, session, sequences, socket, endpoint, history
<1>1. CASE UNCHANGED <<toParent>>
    BY <1>1 DEF AdvanceAcking, Acking, Nacking
<1>2. CASE CloseGate \/ CloseDone \/ CloseDeactivate \/ CloseClear
    BY <1>2, <1>1 DEF CloseGate, CloseDone, CloseDeactivate, BrokerCleared, CloseClear
<1>3. CASE 
             (\E c \in Callers : AssignEnter(c) \/ AssignInsert(c) \/ AssignWrite(c)
                                 \/ AssignLock(c) \/ AssignFailed(c) \/ AssignSelect(c)
                                 \/ AssignRemove(c)
                                 \/ AssignClose(c))
             \/ (\E c \in Callers, a \in Assignments : AssignGranted(c, a) \/ AssignDuplicate(c, a))
             \/ (\E c \in Callers, h \in Handles : AssignInvalid(c, h))
    BY <1>3, <1>1 DEF AssignGranted, AssignDuplicate, AssignInvalid, AssignEnter, AssignInsert,
       AssignWrite, Fail, AssignLock, AssignFailed, AssignSelect, AssignRemove, AssignClose
<1>4. CASE ReadError \/ ReaderEnds \/ DeliverLookup \/ Deliver \/ OwnerStep
             \/ (\E a \in brokerPending : BrokerExpire(a))
             \/ (\E p \in pending : expirePending(p))
    BY <1>4, <1>1 DEF BrokerExpire, expirePending, ReadError, ReaderFails, Fail, ReaderEnds,
       DeliverLookup, Deliver, Consume, BrokerCleared, OwnerStep
<1>5. CASE ChildRead \/ ChildEOF \/ ChildEmit \/ ChildClaim \/ ChildClear \/ ChildDies
             \/ Tick \/ (\E h \in Handles : ChildClose(h))
             \/ (\E a \in assignments : ChildExpire(a))
    BY <1>5, <1>1 DEF ChildClose, ForgetHandle, Forget, ChildRead, CloseTransport, ChildEOF,
       ChildEmit, ChildClaim, ChildClear, ChildExpire, ChildDies, Tick
<1>6. ASSUME CloseConn PROVE AdvanceAcking
    BY <1>6 DEF AdvanceAcking, Acking, Nacking, CloseConn
<1>7. ASSUME ReadOpen PROVE AdvanceAcking
  <2>1. ASSUME NEW i \in 1 .. Len(toParent')
        PROVE  toParent'[i] = toParent[i + 1] /\ i + 1 \in 1 .. Len(toParent)
      BY <1>7, ReceiveFacts DEF ReadOpen
  <2> QED
      BY <2>1 DEF AdvanceAcking, Acking, Nacking
<1>8. ASSUME ReadACK PROVE AdvanceAcking
  <2>1. ASSUME NEW i \in 1 .. Len(toParent')
        PROVE  toParent'[i] = toParent[i + 1] /\ i + 1 \in 1 .. Len(toParent)
      BY <1>8, ReceiveFacts DEF ReadACK
  <2> QED
      BY <2>1 DEF AdvanceAcking, Acking, Nacking
<1>9. ASSUME ReadVerified PROVE AdvanceAcking
  <2>1. ASSUME NEW i \in 1 .. Len(toParent')
        PROVE  toParent'[i] = toParent[i + 1] /\ i + 1 \in 1 .. Len(toParent)
      BY <1>9, ReceiveFacts DEF ReadVerified
  <2> QED
      BY <2>1 DEF AdvanceAcking, Acking, Nacking
<1>10. ASSUME NEW h \in Handles, ChildOpen(h) PROVE AdvanceAcking
  <2> DEFINE x == Packet("open", [handle |-> h], TRUE)
  <2>1. UNCHANGED toParent \/ (x \in Packets /\ Send(x))
      BY <1>10, ChildSends
  <2>2. \A i \in 1 .. Len(toParent') :
          \/ i \in 1 .. Len(toParent) /\ toParent'[i] = toParent[i]
          \/ i = Len(toParent) + 1 /\ toParent'[i] = x
    <3> HIDE DEF x
    <3> QED
        BY <2>1, SendFacts
  <2>3. x.type # "ack"
      BY DEF Packet
  <2> HIDE DEF x
  <2> QED
      BY <2>2, <2>3 DEF AdvanceAcking, Acking, Nacking
<1>11. ASSUME ChildAck PROVE AdvanceAcking
  <2> DEFINE x == Packet("ack", childReader.a, childReader.ok)
  <2>1. CASE UNCHANGED toParent
      BY <2>1 DEF AdvanceAcking, Acking, Nacking
  <2>2. CASE x \in Packets /\ Send(x) /\ CanSend
    <3>1. x.a = childReader.a /\ x.ok = childReader.ok /\ childReader.pc = "ack"
        BY <1>11 DEF Packet, ChildAck
    <3>2. childReader' = [childReader EXCEPT !.pc = IF childReader.ok THEN "emit" ELSE "read"]
        BY <1>11, <2>2 DEF ChildAck, ReaderWrites
    <3>3. childReader'.pc \notin {"ack"} /\ (~x.ok => childReader'.pc = "read")
        BY <3>1, <3>2 DEF Inv, ShapeInv, AnswerShape
    <3> HIDE DEF x
    <3>4. \A i \in 1 .. Len(toParent') :
            \/ i \in 1 .. Len(toParent) /\ toParent'[i] = toParent[i]
            \/ i = Len(toParent) + 1 /\ toParent'[i] = x
        BY <2>2, SendFacts
    <3> QED
        BY <3>1, <3>3, <3>4
           DEF AdvanceAcking, Acking, Nacking, Answering, AnswerSteps, Replying
  <2> QED
      BY <1>11, <2>1, <2>2, ChildSends
<1>12. ASSUME ChildSend PROVE AdvanceAcking
  <2> DEFINE x == Packet("verified", childReader.a, childReader.ok)
  <2>1. UNCHANGED toParent \/ (x \in Packets /\ Send(x))
      BY <1>12, ChildSends
  <2>2. \A i \in 1 .. Len(toParent') :
          \/ i \in 1 .. Len(toParent) /\ toParent'[i] = toParent[i]
          \/ i = Len(toParent) + 1 /\ toParent'[i] = x
    <3> HIDE DEF x
    <3> QED
        BY <2>1, SendFacts
  <2>3. x.type # "ack"
      BY DEF Packet
  <2> HIDE DEF x
  <2> QED
      BY <2>2, <2>3 DEF AdvanceAcking, Acking, Nacking
<1> QED
    BY AssignCases, <1>1, <1>2, <1>3, <1>4, <1>5, <1>6, <1>7, <1>8, <1>9, <1>10, <1>11,
       <1>12
       DEF Next, CloseStep, AssignStep, ReaderStep, ChildStep, vars

\* readLoop marks an entry when it takes the acknowledgement.
LEMMA NextAcknowledged == Inv /\ [Next]_vars => AdvanceAcknowledged
<1> SUFFICES ASSUME Inv, [Next]_vars PROVE AdvanceAcknowledged
    OBVIOUS
<1> USE DEF broker, session, sequences, socket, endpoint, history
<1>1. CASE UNCHANGED <<pending>>
    BY <1>1 DEF AdvanceAcknowledged, Acknowledged
<1>2. CASE CloseGate \/ CloseDone \/ CloseDeactivate \/ CloseConn
    BY <1>2, <1>1 DEF CloseGate, CloseDone, CloseDeactivate, BrokerCleared, CloseConn
<1>3. CASE 
             (\E c \in Callers : AssignEnter(c) \/ AssignWrite(c) \/ AssignLock(c) \/ AssignFailed(c)
                                 \/ AssignSelect(c) \/ AssignClose(c))
             \/ (\E c \in Callers, a \in Assignments : AssignGranted(c, a) \/ AssignDuplicate(c, a))
             \/ (\E c \in Callers, h \in Handles : AssignInvalid(c, h))
    BY <1>3, <1>1 DEF AssignGranted, AssignDuplicate, AssignInvalid, AssignEnter, AssignWrite, Fail,
       AssignLock, AssignFailed, AssignSelect, AssignClose
<1>4. CASE ReadError \/ ReaderEnds \/ ReadOpen \/ DeliverLookup \/ Deliver \/ OwnerStep
             \/ (\E a \in brokerPending : BrokerExpire(a))
    BY <1>4, <1>1 DEF BrokerExpire, ReadError, ReaderFails, Fail, ReaderEnds, ReadOpen,
       Receive, BrokerCleared, DeliverLookup, Deliver, Consume, OwnerStep
<1>5. CASE ChildRead \/ ChildEOF \/ ChildAck \/ ChildEmit \/ ChildClaim \/ ChildSend
             \/ ChildClear \/ ChildDies \/ Tick
             \/ (\E h \in Handles : ChildOpen(h) \/ ChildClose(h))
             \/ (\E a \in assignments : ChildExpire(a))
    BY <1>5, <1>1 DEF ChildOpen, CloseTransport, Send, ChildClose, ForgetHandle, Forget,
       ChildRead, ChildEOF, ChildAck, ReaderWrites, ChildEmit, ChildClaim, ChildSend,
       ChildClear, ChildExpire, ChildDies, Tick
<1>6. ASSUME CloseClear PROVE AdvanceAcknowledged
    BY <1>6 DEF AdvanceAcknowledged, Acknowledged, CloseClear, Notify
<1>7. ASSUME NEW c \in Callers, AssignInsert(c) PROVE AdvanceAcknowledged
  <2>1. \A p \in pending' : p \in pending \/ p.acknowledged = FALSE
      BY <1>7 DEF AssignInsert
  <2> QED
      BY <2>1 DEF AdvanceAcknowledged, Acknowledged
<1>8. ASSUME NEW c \in Callers, AssignRemove(c) PROVE AdvanceAcknowledged
    BY <1>8 DEF AdvanceAcknowledged, Acknowledged, AssignRemove, Goto
<1>9. ASSUME NEW p \in pending, expirePending(p) PROVE AdvanceAcknowledged
    BY <1>9 DEF AdvanceAcknowledged, Acknowledged, expirePending, Notify
<1>10. ASSUME ReadACK PROVE AdvanceAcknowledged
  <2>1. /\ 1 \in 1 .. Len(toParent) /\ Head(toParent) = toParent[1] /\ toParent[1].type = "ack"
        /\ \A i \in 1 .. Len(toParent') : toParent'[i] = toParent[i + 1] /\ i + 1 \in 1 .. Len(toParent)
      BY <1>10, ReceiveFacts DEF ReadACK
  <2> SUFFICES ASSUME NEW p \in pending', p.acknowledged, p \notin pending
               PROVE  Acking(p.handle) /\ ~Acking(p.handle)'
      BY DEF AdvanceAcknowledged, Acknowledged
  <2>2. PICK q \in PendingOf(Head(toParent)) : p = [q EXCEPT !.acknowledged = TRUE]
      BY <1>10 DEF ReadACK
  <2>3. q \in pending /\ Key(q) = Key(toParent[1].a)
      BY <2>1, <2>2 DEF PendingOf
  <2>4. p.handle = toParent[1].a.handle
      BY <2>2, <2>3, EntryFacts DEF Key
  <2>5. \A j \in 1 .. Len(toParent) :
          toParent[j].type = "ack" /\ toParent[j].a.handle = p.handle => j = 1
      BY <2>1, <2>4 DEF Inv, UniqueInv, OneAck
  <2>6. ASSUME NEW i \in 1 .. Len(toParent')
        PROVE  ~(toParent'[i].type = "ack" /\ toParent'[i].a.handle = p.handle)
    <3>1. i + 1 # 1
        OBVIOUS
    <3> QED
        BY <2>1, <2>5, <3>1
  <2> QED
      BY <2>1, <2>4, <2>6 DEF Acking
<1>11. ASSUME ReadVerified PROVE AdvanceAcknowledged
    BY <1>11 DEF AdvanceAcknowledged, Acknowledged, ReadVerified, Receive, Reading,
       ReaderFails, Fail
<1> QED
    BY AssignCases, <1>1, <1>2, <1>3, <1>4, <1>5, <1>6, <1>7, <1>8, <1>9, <1>10, <1>11
       DEF Next, CloseStep, AssignStep, ReaderStep, ChildStep, vars

\* A frame comes from the child, which has replied.
LEMMA NextFramed == Inv /\ [Next]_vars => AdvanceFramed
<1> SUFFICES ASSUME Inv, [Next]_vars PROVE AdvanceFramed
    OBVIOUS
<1> USE PublishedKept DEF broker, session, sequences, socket, endpoint, history
<1>1. CASE UNCHANGED <<toParent, reader, frames>>
    BY <1>1 DEF AdvanceFramed, Framed
<1>2. CASE CloseGate \/ CloseDone \/ CloseDeactivate \/ CloseClear
    BY <1>2, <1>1 DEF CloseGate, CloseDone, CloseDeactivate, BrokerCleared, CloseClear
<1>3. CASE 
             (\E c \in Callers : AssignEnter(c) \/ AssignInsert(c) \/ AssignWrite(c)
                                 \/ AssignLock(c) \/ AssignFailed(c) \/ AssignSelect(c)
                                 \/ AssignRemove(c)
                                 \/ AssignClose(c))
             \/ (\E c \in Callers, a \in Assignments : AssignGranted(c, a) \/ AssignDuplicate(c, a))
             \/ (\E c \in Callers, h \in Handles : AssignInvalid(c, h))
    BY <1>3, <1>1 DEF AssignGranted, AssignDuplicate, AssignInvalid, AssignEnter, AssignInsert,
       AssignWrite, Fail, AssignLock, AssignFailed, AssignSelect, AssignRemove, AssignClose
<1>4. CASE OwnerStep \/ (\E a \in brokerPending : BrokerExpire(a))
             \/ (\E p \in pending : expirePending(p))
    BY <1>4, <1>1 DEF BrokerExpire, expirePending, OwnerStep, Fail
<1>5. CASE ChildRead \/ ChildEOF \/ ChildEmit \/ ChildClaim \/ ChildClear \/ ChildDies
             \/ Tick \/ (\E h \in Handles : ChildClose(h))
             \/ (\E a \in assignments : ChildExpire(a))
    BY <1>5, <1>1 DEF ChildClose, ForgetHandle, Forget, ChildRead, CloseTransport, ChildEOF,
       ChildEmit, ChildClaim, ChildClear, ChildExpire, ChildDies, Tick
<1>6. ASSUME CloseConn PROVE AdvanceFramed
    BY <1>6 DEF Inv, ShapeInv, ReaderShape, AdvanceFramed, Framed, CloseConn
<1>7. ASSUME ReadError PROVE AdvanceFramed
    BY <1>7 DEF Inv, ShapeInv, ReaderShape, AdvanceFramed, Framed, ReadError, ReaderFails,
       Fail
<1>8. ASSUME ReaderEnds PROVE AdvanceFramed
    BY <1>8 DEF Inv, ShapeInv, ReaderShape, AdvanceFramed, Framed, ReaderEnds, Listening
<1>9. ASSUME ReadOpen PROVE AdvanceFramed
  <2>1. ASSUME NEW i \in 1 .. Len(toParent')
        PROVE  toParent'[i] = toParent[i + 1] /\ i + 1 \in 1 .. Len(toParent)
      BY <1>9, ReceiveFacts DEF ReadOpen
  <2>2. reader.pc = "read" /\ UNCHANGED published
      BY <1>9, ReceiveFacts DEF ReadOpen
  <2>3. reader'.pc \notin {"lookup", "deliver"}
      BY <1>9, <2>2 DEF ReadOpen, ReaderFails, Inv, ShapeInv, ReaderShape
  <2> QED
      BY <2>1, <2>2, <2>3 DEF AdvanceFramed, Framed
<1>10. ASSUME ReadACK PROVE AdvanceFramed
  <2>1. ASSUME NEW i \in 1 .. Len(toParent')
        PROVE  toParent'[i] = toParent[i + 1] /\ i + 1 \in 1 .. Len(toParent)
      BY <1>10, ReceiveFacts DEF ReadACK
  <2>2. reader.pc = "read" /\ UNCHANGED published
      BY <1>10, ReceiveFacts DEF ReadACK
  <2>3. reader'.pc \notin {"lookup", "deliver"}
      BY <1>10, <2>2 DEF ReadACK, ReaderFails, Inv, ShapeInv, ReaderShape
  <2> QED
      BY <2>1, <2>2, <2>3 DEF AdvanceFramed, Framed
<1>11. ASSUME ReadVerified PROVE AdvanceFramed
  <2>1. ASSUME NEW i \in 1 .. Len(toParent')
        PROVE  toParent'[i] = toParent[i + 1] /\ i + 1 \in 1 .. Len(toParent)
      BY <1>11, ReceiveFacts DEF ReadVerified
  <2>2. /\ reader.pc = "read" /\ UNCHANGED published
        /\ 1 \in 1 .. Len(toParent) /\ Head(toParent) = toParent[1] /\ toParent[1].type = "verified"
      BY <1>11, ReceiveFacts DEF ReadVerified
  <2>3. reader'.pc \notin {"lookup", "deliver"} \/ reader'.a = toParent[1].a
      BY <1>11, <2>2 DEF ReadVerified, ReaderFails, Inv, ShapeInv, ReaderShape
  <2> QED
      BY <2>1, <2>2, <2>3 DEF AdvanceFramed, Framed
<1>12. ASSUME DeliverLookup PROVE AdvanceFramed
  <2>1. /\ reader.pc = "lookup" /\ (reader'.pc = "read" \/ reader'.a = reader.a)
      BY <1>12, LookupFacts
  <2> QED
      BY <1>12, <2>1 DEF AdvanceFramed, Framed, DeliverLookup
<1>13. ASSUME Deliver PROVE AdvanceFramed
  <2>1. reader.pc = "deliver" /\ reader'.pc \in {"read", "failing"} /\ UNCHANGED toParent
      BY <1>13 DEF Deliver, Consume, ReaderFails, Listening, Inv, ShapeInv, ReaderShape
  <2>2. \A p \in published' : p \in published \/ p.for = reader.a
      BY <1>13, DeliverFacts
  <2> QED
      BY <2>1, <2>2 DEF AdvanceFramed, Framed
<1>14. ASSUME NEW h \in Handles, ChildOpen(h) PROVE AdvanceFramed
  <2> DEFINE x == Packet("open", [handle |-> h], TRUE)
  <2>1. UNCHANGED toParent \/ (x \in Packets /\ Send(x))
      BY <1>14, ChildSends
  <2>2. \A i \in 1 .. Len(toParent') :
          \/ i \in 1 .. Len(toParent) /\ toParent'[i] = toParent[i]
          \/ i = Len(toParent) + 1 /\ toParent'[i] = x
    <3> HIDE DEF x
    <3> QED
        BY <2>1, SendFacts
  <2>3. x.type # "verified" /\ UNCHANGED <<reader, published>>
      BY <1>14 DEF ChildOpen, ReaderWrites, Packet
  <2> HIDE DEF x
  <2> QED
      BY <2>2, <2>3 DEF AdvanceFramed, Framed
<1>15. ASSUME ChildAck PROVE AdvanceFramed
  <2> DEFINE x == Packet("ack", childReader.a, childReader.ok)
  <2>1. UNCHANGED toParent \/ (x \in Packets /\ Send(x))
      BY <1>15, ChildSends
  <2>2. \A i \in 1 .. Len(toParent') :
          \/ i \in 1 .. Len(toParent) /\ toParent'[i] = toParent[i]
          \/ i = Len(toParent) + 1 /\ toParent'[i] = x
    <3> HIDE DEF x
    <3> QED
        BY <2>1, SendFacts
  <2>3. x.type # "verified" /\ UNCHANGED <<reader, published>>
      BY <1>15 DEF ChildAck, ReaderWrites, Packet
  <2> HIDE DEF x
  <2> QED
      BY <2>2, <2>3 DEF AdvanceFramed, Framed
<1>16. ASSUME ChildSend PROVE AdvanceFramed
  <2> DEFINE x == Packet("verified", childReader.a, childReader.ok)
  <2>1. UNCHANGED toParent \/ (x \in Packets /\ Send(x))
      BY <1>16, ChildSends
  <2>2. \A i \in 1 .. Len(toParent') :
          \/ i \in 1 .. Len(toParent) /\ toParent'[i] = toParent[i]
          \/ i = Len(toParent) + 1 /\ toParent'[i] = x
    <3> HIDE DEF x
    <3> QED
        BY <2>1, SendFacts
  <2>3. /\ x.a = childReader.a /\ childReader.pc = "send" /\ UNCHANGED <<reader, published>>
      BY <1>16 DEF ChildSend, ReaderWrites, Packet
  <2> HIDE DEF x
  <2> QED
      BY <2>2, <2>3 DEF AdvanceFramed, Framed, Answering, Replying, AnswerSteps
<1> QED
    BY AssignCases, <1>1, <1>2, <1>3, <1>4, <1>5, <1>6, <1>7, <1>8, <1>9, <1>10, <1>11,
       <1>12, <1>13, <1>14, <1>15, <1>16
       DEF Next, CloseStep, AssignStep, ReaderStep, ChildStep, vars

\* Every step advances an assignment by a stage, or leaves it.
LEMMA NextAdvance == Inv /\ [Next]_vars => Advance
BY NextUnwritten, NextRequested, NextAnswering, NextAcking, NextAcknowledged, NextFramed
   DEF Advance

\* The stages stay apart.
LEMMA NextStage == Inv /\ [Next]_vars => StageInv'
BY NextAdvance, AdvanceKeepsStages

----------------------------------------------------------------------------
(***************************************************************************)
(* One of each.                                                            *)
(***************************************************************************)
\* The broker grants a connection to one goroutine.
LEMMA NextOneCaller == Inv /\ [Next]_vars => OneCaller'
<1> SUFFICES ASSUME Inv, [Next]_vars PROVE OneCaller'
    OBVIOUS
<1> USE DEF broker, session, sequences, socket, endpoint, history
<1>1. CASE UNCHANGED <<caller>>
    BY <1>1 DEF Inv, UniqueInv, OneCaller
<1>2. CASE CloseGate \/ CloseDone \/ CloseDeactivate \/ CloseConn
    BY <1>2, <1>1 DEF CloseGate, CloseDone, CloseDeactivate, BrokerCleared, CloseConn
<1>3. CASE (\E c \in Callers, a \in Assignments : AssignDuplicate(c, a))
             \/ (\E c \in Callers, h \in Handles : AssignInvalid(c, h))
    BY <1>3, <1>1 DEF AssignDuplicate, AssignInvalid
<1>4. CASE ReadError \/ ReaderEnds \/ ReadOpen \/ ReadVerified \/ DeliverLookup
             \/ Deliver \/ OwnerStep \/ (\E a \in brokerPending : BrokerExpire(a))
    BY <1>4, <1>1 DEF BrokerExpire, ReadError, ReaderFails, Fail, ReaderEnds, ReadOpen,
       Receive, BrokerCleared, ReadVerified, DeliverLookup, Deliver, Consume, OwnerStep
<1>5. CASE ChildRead \/ ChildEOF \/ ChildAck \/ ChildEmit \/ ChildClaim \/ ChildSend
             \/ ChildClear \/ ChildDies \/ Tick
             \/ (\E h \in Handles : ChildOpen(h) \/ ChildClose(h))
             \/ (\E a \in assignments : ChildExpire(a))
    BY <1>5, <1>1 DEF ChildOpen, CloseTransport, Send, ChildClose, ForgetHandle, Forget,
       ChildRead, ChildEOF, ChildAck, ReaderWrites, ChildEmit, ChildClaim, ChildSend,
       ChildClear, ChildExpire, ChildDies, Tick
<1>6. ASSUME CloseClear PROVE OneCaller'
    BY <1>6 DEF Inv, ShapeInv, CallerShape, UniqueInv, OneCaller, CloseClear, Notify
<1>7. ASSUME NEW c \in Callers, NEW a \in Assignments, AssignGranted(c, a) PROVE OneCaller'
  <2>1. ASSUME NEW d \in Callers, caller[d].pc # "idle" PROVE caller[d].a.handle # a.handle
    <3>1. caller[d].a \in Assignments /\ Carried(caller[d].a)
        BY <2>1 DEF Inv, ShapeInv, CallerShape, Carried
    <3> QED
        BY <1>7, <3>1, GrantFacts
  <2>2. caller' = [caller EXCEPT ![c] = [pc |-> "enter", a |-> a, waiter |-> "none"]]
      BY <1>7 DEF AssignGranted
  <2> QED
      BY <2>1, <2>2 DEF Inv, ShapeInv, CallerShape, UniqueInv, OneCaller
<1>8. ASSUME NEW c \in Callers, AssignEnter(c) PROVE OneCaller'
    BY <1>8 DEF Inv, ShapeInv, CallerShape, UniqueInv, OneCaller, AssignEnter, Goto
<1>9. ASSUME NEW c \in Callers, AssignInsert(c) PROVE OneCaller'
    BY <1>9 DEF Inv, ShapeInv, CallerShape, UniqueInv, OneCaller, AssignInsert, Goto
<1>10. ASSUME NEW c \in Callers, AssignWrite(c) PROVE OneCaller'
    BY <1>10 DEF Inv, ShapeInv, CallerShape, UniqueInv, OneCaller, AssignWrite, Goto, Fail
<1>11. ASSUME NEW c \in Callers, AssignFailed(c) PROVE OneCaller'
    BY <1>11 DEF Inv, ShapeInv, CallerShape, UniqueInv, OneCaller, AssignFailed, Goto
<1>11a. ASSUME NEW c \in Callers, AssignLock(c) PROVE OneCaller'
    BY <1>11a DEF Inv, ShapeInv, CallerShape, UniqueInv, OneCaller, AssignLock, Goto
<1>12. ASSUME NEW c \in Callers, AssignSelect(c) PROVE OneCaller'
    BY <1>12 DEF Inv, ShapeInv, CallerShape, UniqueInv, OneCaller, AssignSelect, Goto,
       IdleCaller
<1>13. ASSUME NEW c \in Callers, AssignRemove(c) PROVE OneCaller'
    BY <1>13 DEF Inv, ShapeInv, CallerShape, UniqueInv, OneCaller, AssignRemove, Goto
<1>14. ASSUME NEW c \in Callers, AssignClose(c) PROVE OneCaller'
    BY <1>14 DEF Inv, ShapeInv, CallerShape, UniqueInv, OneCaller, AssignClose, IdleCaller
<1>15. ASSUME NEW p \in pending, expirePending(p) PROVE OneCaller'
    BY <1>15 DEF Inv, ShapeInv, CallerShape, UniqueInv, OneCaller, expirePending, Notify
<1>16. ASSUME ReadACK PROVE OneCaller'
  <2>1. \/ UNCHANGED caller
        \/ \E status \in {"positive", "negative"}, S \in SUBSET pending : Notify(status, S)
      BY <1>16 DEF ReadACK, PendingOf
  <2>2. \A c \in Callers : caller'[c].pc = caller[c].pc /\ caller'[c].a = caller[c].a
      BY <2>1 DEF Inv, ShapeInv, CallerShape, Notify
  <2> QED
      BY <2>2 DEF Inv, UniqueInv, OneCaller
<1> QED
    BY AssignCases, <1>1, <1>2, <1>3, <1>4, <1>5, <1>6, <1>7, <1>8, <1>9, <1>10, <1>11, <1>11a,
       <1>12, <1>13, <1>14, <1>15, <1>16
       DEF Next, CloseStep, AssignStep, ReaderStep, ChildStep, vars

\* It adds one entry.
LEMMA NextOneEntry == Inv /\ [Next]_vars => OneEntry'
<1> SUFFICES ASSUME Inv, [Next]_vars PROVE OneEntry'
    OBVIOUS
<1> USE DEF broker, session, sequences, socket, endpoint, history
<1>1. CASE UNCHANGED <<caller, pending>>
    BY <1>1 DEF Inv, UniqueInv, OneEntry
<1>2. CASE CloseGate \/ CloseDone \/ CloseDeactivate \/ CloseConn
    BY <1>2, <1>1 DEF CloseGate, CloseDone, CloseDeactivate, BrokerCleared, CloseConn
<1>3. CASE (\E c \in Callers, a \in Assignments : AssignDuplicate(c, a))
             \/ (\E c \in Callers, h \in Handles : AssignInvalid(c, h))
    BY <1>3, <1>1 DEF AssignDuplicate, AssignInvalid
<1>4. CASE ReadError \/ ReaderEnds \/ ReadOpen \/ DeliverLookup \/ Deliver \/ OwnerStep
             \/ (\E a \in brokerPending : BrokerExpire(a))
    BY <1>4, <1>1 DEF BrokerExpire, ReadError, ReaderFails, Fail, ReaderEnds, ReadOpen,
       Receive, BrokerCleared, DeliverLookup, Deliver, Consume, OwnerStep
<1>5. CASE ChildRead \/ ChildEOF \/ ChildAck \/ ChildEmit \/ ChildClaim \/ ChildSend
             \/ ChildClear \/ ChildDies \/ Tick
             \/ (\E h \in Handles : ChildOpen(h) \/ ChildClose(h))
             \/ (\E a \in assignments : ChildExpire(a))
    BY <1>5, <1>1 DEF ChildOpen, CloseTransport, Send, ChildClose, ForgetHandle, Forget,
       ChildRead, ChildEOF, ChildAck, ReaderWrites, ChildEmit, ChildClaim, ChildSend,
       ChildClear, ChildExpire, ChildDies, Tick
<1>6. ASSUME CloseClear PROVE OneEntry'
    BY <1>6 DEF Inv, ShapeInv, CallerShape, UniqueInv, OneEntry, CloseClear, Notify
<1>7. ASSUME NEW c \in Callers, NEW a \in Assignments, AssignGranted(c, a) PROVE OneEntry'
  <2>1. \A p \in pending : p.handle # a.handle
      BY <1>7, StagesCarried, GrantFacts, RecordFacts
  <2>2. caller' = [caller EXCEPT ![c] = [pc |-> "enter", a |-> a, waiter |-> "none"]]
        /\ UNCHANGED pending
      BY <1>7 DEF AssignGranted
  <2> QED
      BY <2>1, <2>2 DEF Inv, ShapeInv, CallerShape, UniqueInv, OneEntry
<1>8. ASSUME NEW c \in Callers, AssignEnter(c) PROVE OneEntry'
    BY <1>8 DEF Inv, ShapeInv, CallerShape, UniqueInv, OneEntry, AssignEnter, Goto
<1>9. ASSUME NEW c \in Callers, AssignInsert(c) PROVE OneEntry'
  <2>1. caller[c].pc = "insert" /\ \E pc \in {"close", "write"} : caller' = [caller EXCEPT ![c].pc = pc]
      BY <1>9 DEF AssignInsert, Goto
  <2>2. \A p \in pending' : p \in pending \/ p.handle = caller[c].a.handle
      BY <1>9 DEF AssignInsert
  <2>3. ASSUME NEW d \in Callers, caller'[d].pc \in {"enter", "insert"}
        PROVE  d # c /\ caller'[d] = caller[d] /\ caller[d].a.handle # caller[c].a.handle
      BY <2>1, <2>3 DEF Inv, ShapeInv, CallerShape, UniqueInv, OneCaller
  <2> QED
      BY <2>2, <2>3 DEF Inv, UniqueInv, OneEntry
<1>10. ASSUME NEW c \in Callers, AssignWrite(c) PROVE OneEntry'
    BY <1>10 DEF Inv, ShapeInv, CallerShape, UniqueInv, OneEntry, AssignWrite, Goto, Fail
<1>11. ASSUME NEW c \in Callers, AssignFailed(c) PROVE OneEntry'
    BY <1>11 DEF Inv, ShapeInv, CallerShape, UniqueInv, OneEntry, AssignFailed, Goto
<1>11a. ASSUME NEW c \in Callers, AssignLock(c) PROVE OneEntry'
    BY <1>11a DEF Inv, ShapeInv, CallerShape, UniqueInv, OneEntry, AssignLock, Goto
<1>12. ASSUME NEW c \in Callers, AssignSelect(c) PROVE OneEntry'
    BY <1>12 DEF Inv, ShapeInv, CallerShape, UniqueInv, OneEntry, AssignSelect, Goto,
       IdleCaller
<1>13. ASSUME NEW c \in Callers, AssignRemove(c) PROVE OneEntry'
    BY <1>13 DEF Inv, ShapeInv, CallerShape, UniqueInv, OneEntry, AssignRemove, Goto
<1>14. ASSUME NEW c \in Callers, AssignClose(c) PROVE OneEntry'
    BY <1>14 DEF Inv, ShapeInv, CallerShape, UniqueInv, OneEntry, AssignClose, IdleCaller
<1>15. ASSUME NEW p \in pending, expirePending(p) PROVE OneEntry'
    BY <1>15 DEF Inv, ShapeInv, CallerShape, UniqueInv, OneEntry, expirePending, Notify
<1>16. ASSUME ReadACK PROVE OneEntry'
  <2>1. \A d \in Callers : caller'[d].pc = caller[d].pc /\ caller'[d].a = caller[d].a
      BY <1>16 DEF ReadACK, Notify, Inv, ShapeInv, CallerShape
  <2>2. ASSUME NEW p \in pending' PROVE \E q \in pending : q.handle = p.handle
    <3>1. CASE p \in pending
        BY <3>1
    <3>2. ASSUME NEW q \in pending, p = [q EXCEPT !.acknowledged = TRUE] PROVE q.handle = p.handle
        BY <3>2, EntryFacts
    <3> QED
        BY <1>16, <3>1, <3>2 DEF ReadACK, PendingOf
  <2> QED
      BY <2>1, <2>2 DEF Inv, UniqueInv, OneEntry
<1>17. ASSUME ReadVerified PROVE OneEntry'
    BY <1>17 DEF Inv, ShapeInv, CallerShape, UniqueInv, OneEntry, ReadVerified, Receive,
       Reading, ReaderFails, Fail
<1> QED
    BY AssignCases, <1>1, <1>2, <1>3, <1>4, <1>5, <1>6, <1>7, <1>8, <1>9, <1>10, <1>11, <1>11a,
       <1>12, <1>13, <1>14, <1>15, <1>16, <1>17
       DEF Next, CloseStep, AssignStep, ReaderStep, ChildStep, vars

\* It writes one request.
LEMMA NextOneRequest == Inv /\ [Next]_vars => OneRequest'
<1> SUFFICES ASSUME Inv, [Next]_vars PROVE OneRequest'
    OBVIOUS
<1> USE DEF broker, session, sequences, socket, endpoint, history
<1>1. CASE UNCHANGED <<toChild>>
    BY <1>1 DEF Inv, UniqueInv, OneRequest
<1>2. CASE CloseGate \/ CloseDone \/ CloseDeactivate \/ CloseConn \/ CloseClear
    BY <1>2, <1>1 DEF CloseGate, CloseDone, CloseDeactivate, BrokerCleared, CloseConn,
       CloseClear
<1>3. CASE 
             (\E c \in Callers : AssignEnter(c) \/ AssignInsert(c) \/ AssignLock(c) \/ AssignFailed(c)
                                 \/ AssignSelect(c) \/ AssignRemove(c) \/ AssignClose(c))
             \/ (\E c \in Callers, a \in Assignments : AssignGranted(c, a) \/ AssignDuplicate(c, a))
             \/ (\E c \in Callers, h \in Handles : AssignInvalid(c, h))
    BY <1>3, <1>1 DEF AssignGranted, AssignDuplicate, AssignInvalid, AssignEnter, AssignInsert,
       AssignLock, AssignFailed, AssignSelect, AssignRemove, AssignClose
<1>4. CASE ReadError \/ ReaderEnds \/ ReadOpen \/ ReadACK \/ ReadVerified
             \/ DeliverLookup \/ Deliver \/ OwnerStep
             \/ (\E a \in brokerPending : BrokerExpire(a))
             \/ (\E p \in pending : expirePending(p))
    BY <1>4, <1>1 DEF BrokerExpire, expirePending, ReadError, ReaderFails, Fail, ReaderEnds,
       ReadOpen, Receive, BrokerCleared, ReadACK, ReadVerified, DeliverLookup, Deliver, Consume,
       OwnerStep
<1>5. CASE ChildEOF \/ ChildAck \/ ChildEmit \/ ChildClaim \/ ChildSend \/ ChildClear
             \/ Tick \/ (\E h \in Handles : ChildOpen(h) \/ ChildClose(h))
             \/ (\E a \in assignments : ChildExpire(a))
    BY <1>5, <1>1 DEF ChildOpen, CloseTransport, Send, ChildClose, ForgetHandle, Forget,
       ChildEOF, ChildAck, ReaderWrites, ChildEmit, ChildClaim, ChildSend, ChildClear,
       ChildExpire, Tick
<1>6. ASSUME NEW c \in Callers, AssignWrite(c) PROVE OneRequest'
  <2>1. CASE UNCHANGED toChild
      BY <2>1 DEF Inv, UniqueInv, OneRequest
  <2>2. CASE /\ Len(toChild) \in Nat /\ Len(toChild') = Len(toChild) + 1
             /\ \A i \in 1 .. Len(toChild) : toChild'[i] = toChild[i]
             /\ toChild'[Len(toChild) + 1] = [sequence |-> writeSequence + 1, a |-> caller[c].a]
    <3>1. caller[c].pc = "write" /\ caller[c].a \in Assignments
        BY <1>6, WriteFacts
    <3>2. Unwritten(caller[c].a.handle)
        BY <3>1 DEF Unwritten
    <3>3. ~Requested(caller[c].a.handle)
        BY <3>1, <3>2, RecordFacts DEF Inv, StageInv
    <3>4. \A i \in 1 .. Len(toChild) : toChild[i].a.handle # caller[c].a.handle
        BY <3>3 DEF Requested
    <3>5. ASSUME NEW i \in 1 .. Len(toChild')
          PROVE  i \in 1 .. Len(toChild) \/ i = Len(toChild) + 1
        BY <2>2
    <3>6. toChild'[Len(toChild) + 1].a = caller[c].a
        BY <2>2
    <3> SUFFICES ASSUME NEW i \in 1 .. Len(toChild'), NEW j \in 1 .. Len(toChild'),
                        toChild'[i].a.handle = toChild'[j].a.handle
                 PROVE  i = j
        BY DEF OneRequest
    <3> QED
        BY <2>2, <3>4, <3>5, <3>6 DEF Inv, UniqueInv, OneRequest
  <2> QED
      BY <1>6, <2>1, <2>2, WriteFacts
<1>7. ASSUME ChildRead PROVE OneRequest'
  <2>1. /\ Len(toChild') = Len(toChild) - 1 /\ Len(toChild) \in Nat
        /\ \A i \in 1 .. Len(toChild') : toChild'[i] = toChild[i + 1] /\ i + 1 \in 1 .. Len(toChild)
      BY <1>7, ReadFacts DEF Inv, ShapeInv, SocketShape
  <2> SUFFICES ASSUME NEW i \in 1 .. Len(toChild'), NEW j \in 1 .. Len(toChild'),
                      toChild'[i].a.handle = toChild'[j].a.handle
               PROVE  i = j
      BY DEF OneRequest
  <2>2. i + 1 = j + 1
      BY <2>1 DEF Inv, UniqueInv, OneRequest
  <2> QED
      BY <2>1, <2>2
<1>8. ASSUME ChildDies PROVE OneRequest'
    BY <1>8 DEF Inv, UniqueInv, OneRequest, ChildDies
<1> QED
    BY AssignCases, <1>1, <1>2, <1>3, <1>4, <1>5, <1>6, <1>7, <1>8
       DEF Next, CloseStep, AssignStep, ReaderStep, ChildStep, vars

\* The child acknowledges it once.
LEMMA NextOneAck == Inv /\ [Next]_vars => OneAck'
<1> SUFFICES ASSUME Inv, [Next]_vars PROVE OneAck'
    OBVIOUS
<1> USE DEF broker, session, sequences, socket, endpoint, history
<1>1. CASE UNCHANGED <<toParent>>
    BY <1>1 DEF Inv, UniqueInv, OneAck
<1>2. CASE CloseGate \/ CloseDone \/ CloseDeactivate \/ CloseClear
    BY <1>2, <1>1 DEF CloseGate, CloseDone, CloseDeactivate, BrokerCleared, CloseClear
<1>3. CASE 
             (\E c \in Callers : AssignEnter(c) \/ AssignInsert(c) \/ AssignWrite(c)
                                 \/ AssignLock(c) \/ AssignFailed(c) \/ AssignSelect(c)
                                 \/ AssignRemove(c)
                                 \/ AssignClose(c))
             \/ (\E c \in Callers, a \in Assignments : AssignGranted(c, a) \/ AssignDuplicate(c, a))
             \/ (\E c \in Callers, h \in Handles : AssignInvalid(c, h))
    BY <1>3, <1>1 DEF AssignGranted, AssignDuplicate, AssignInvalid, AssignEnter, AssignInsert,
       AssignWrite, Fail, AssignLock, AssignFailed, AssignSelect, AssignRemove, AssignClose
<1>4. CASE ReadError \/ ReaderEnds \/ DeliverLookup \/ Deliver \/ OwnerStep
             \/ (\E a \in brokerPending : BrokerExpire(a))
             \/ (\E p \in pending : expirePending(p))
    BY <1>4, <1>1 DEF BrokerExpire, expirePending, ReadError, ReaderFails, Fail, ReaderEnds,
       DeliverLookup, Deliver, Consume, BrokerCleared, OwnerStep
<1>5. CASE ChildRead \/ ChildEOF \/ ChildEmit \/ ChildClaim \/ ChildClear \/ ChildDies
             \/ Tick \/ (\E h \in Handles : ChildClose(h))
             \/ (\E a \in assignments : ChildExpire(a))
    BY <1>5, <1>1 DEF ChildClose, ForgetHandle, Forget, ChildRead, CloseTransport, ChildEOF,
       ChildEmit, ChildClaim, ChildClear, ChildExpire, ChildDies, Tick
<1>6. ASSUME CloseConn PROVE OneAck'
    BY <1>6 DEF Inv, UniqueInv, OneAck, CloseConn
<1>7. ASSUME ReadOpen PROVE OneAck'
  <2>1. ASSUME NEW n \in 1 .. Len(toParent')
        PROVE  toParent'[n] = toParent[n + 1] /\ n + 1 \in 1 .. Len(toParent)
      BY <1>7, ReceiveFacts DEF ReadOpen
  <2> SUFFICES ASSUME NEW i \in 1 .. Len(toParent'), NEW j \in 1 .. Len(toParent'),
                      toParent'[i].type = "ack", toParent'[j].type = "ack",
                      toParent'[i].a.handle = toParent'[j].a.handle
               PROVE  i = j
      BY DEF OneAck
  <2>2. i + 1 = j + 1
      BY <2>1 DEF Inv, UniqueInv, OneAck
  <2>3. Len(toParent') \in Nat
      BY <1>7, ReceiveFacts DEF Inv, ShapeInv, SocketShape, ReadOpen
  <2> QED
      BY <2>2, <2>3
<1>8. ASSUME ReadACK PROVE OneAck'
  <2>1. ASSUME NEW n \in 1 .. Len(toParent')
        PROVE  toParent'[n] = toParent[n + 1] /\ n + 1 \in 1 .. Len(toParent)
      BY <1>8, ReceiveFacts DEF ReadACK
  <2> SUFFICES ASSUME NEW i \in 1 .. Len(toParent'), NEW j \in 1 .. Len(toParent'),
                      toParent'[i].type = "ack", toParent'[j].type = "ack",
                      toParent'[i].a.handle = toParent'[j].a.handle
               PROVE  i = j
      BY DEF OneAck
  <2>2. i + 1 = j + 1
      BY <2>1 DEF Inv, UniqueInv, OneAck
  <2>3. Len(toParent') \in Nat
      BY <1>8, ReceiveFacts DEF Inv, ShapeInv, SocketShape, ReadACK
  <2> QED
      BY <2>2, <2>3
<1>9. ASSUME ReadVerified PROVE OneAck'
  <2>1. ASSUME NEW n \in 1 .. Len(toParent')
        PROVE  toParent'[n] = toParent[n + 1] /\ n + 1 \in 1 .. Len(toParent)
      BY <1>9, ReceiveFacts DEF ReadVerified
  <2> SUFFICES ASSUME NEW i \in 1 .. Len(toParent'), NEW j \in 1 .. Len(toParent'),
                      toParent'[i].type = "ack", toParent'[j].type = "ack",
                      toParent'[i].a.handle = toParent'[j].a.handle
               PROVE  i = j
      BY DEF OneAck
  <2>2. i + 1 = j + 1
      BY <2>1 DEF Inv, UniqueInv, OneAck
  <2>3. Len(toParent') \in Nat
      BY <1>9, ReceiveFacts DEF Inv, ShapeInv, SocketShape, ReadVerified
  <2> QED
      BY <2>2, <2>3
<1>10. ASSUME NEW h \in Handles, ChildOpen(h) PROVE OneAck'
  <2> DEFINE x == Packet("open", [handle |-> h], TRUE)
  <2>1. UNCHANGED toParent \/ (x \in Packets /\ Send(x))
      BY <1>10, ChildSends
  <2>2. \A i \in 1 .. Len(toParent') :
          \/ i \in 1 .. Len(toParent) /\ toParent'[i] = toParent[i]
          \/ i = Len(toParent) + 1 /\ toParent'[i] = x
    <3> HIDE DEF x
    <3> QED
        BY <2>1, SendFacts
  <2>3. x.type # "ack"
      BY DEF Packet
  <2> HIDE DEF x
  <2> QED
      BY <2>2, <2>3 DEF Inv, UniqueInv, OneAck
<1>11. ASSUME ChildAck PROVE OneAck'
  <2> DEFINE x == Packet("ack", childReader.a, childReader.ok)
  <2>1. UNCHANGED toParent \/ (x \in Packets /\ Send(x))
      BY <1>11, ChildSends
  <2>2. \A i \in 1 .. Len(toParent') :
          \/ i \in 1 .. Len(toParent) /\ toParent'[i] = toParent[i]
          \/ i = Len(toParent) + 1 /\ toParent'[i] = x
    <3> HIDE DEF x
    <3> QED
        BY <2>1, SendFacts
  <2>3. x.a = childReader.a /\ childReader.pc = "ack" /\ childReader.a \in Assignments
      BY <1>11 DEF Packet, ChildAck, Inv, ShapeInv, AnswerShape, AnswerSteps
  <2> HIDE DEF x
  <2>4. Replying(childReader.a.handle)
      BY <2>3 DEF Replying
  <2>5. ~Acking(childReader.a.handle)
      BY <2>3, <2>4, RecordFacts DEF Inv, StageInv
  <2>6. \A i \in 1 .. Len(toParent) : toParent[i].type = "ack" => toParent[i].a.handle # childReader.a.handle
      BY <2>5 DEF Acking
  <2> QED
      BY <2>2, <2>3, <2>6 DEF Inv, UniqueInv, OneAck
<1>12. ASSUME ChildSend PROVE OneAck'
  <2> DEFINE x == Packet("verified", childReader.a, childReader.ok)
  <2>1. UNCHANGED toParent \/ (x \in Packets /\ Send(x))
      BY <1>12, ChildSends
  <2>2. \A i \in 1 .. Len(toParent') :
          \/ i \in 1 .. Len(toParent) /\ toParent'[i] = toParent[i]
          \/ i = Len(toParent) + 1 /\ toParent'[i] = x
    <3> HIDE DEF x
    <3> QED
        BY <2>1, SendFacts
  <2>3. x.type # "ack"
      BY DEF Packet
  <2> HIDE DEF x
  <2> QED
      BY <2>2, <2>3 DEF Inv, UniqueInv, OneAck
<1> QED
    BY AssignCases, <1>1, <1>2, <1>3, <1>4, <1>5, <1>6, <1>7, <1>8, <1>9, <1>10, <1>11,
       <1>12
       DEF Next, CloseStep, AssignStep, ReaderStep, ChildStep, vars

----------------------------------------------------------------------------
(***************************************************************************)
(* A frame follows the acknowledgement.                                    *)
(***************************************************************************)
\* An entry and a packet of one connection are about the same assignment.
LEMMA SameAssignment ==
    ASSUME Inv, NEW p \in pending, NEW i \in 1 .. Len(toParent),
           toParent[i].type # "open", toParent[i].a.handle = p.handle
    PROVE  AssignmentOf(p) = toParent[i].a /\ Key(p) = Key(toParent[i].a)
<1>1. AssignmentOf(p) \in Assignments /\ toParent[i].a \in Assignments
      /\ AssignmentOf(p).handle = p.handle
    BY EntryFacts DEF Inv, ShapeInv, SocketShape
<1>2. Carried(AssignmentOf(p)) /\ Carried(toParent[i].a)
    BY DEF Carried
<1>3. AssignmentOf(p) = toParent[i].a
    BY <1>1, <1>2 DEF Inv, OnceInv
<1> QED
    BY <1>3 DEF AssignmentOf, Key

\* What readLoop does with an acknowledgement, which is never a second one.
LEMMA AckFacts ==
    ASSUME Inv, ReadACK
    PROVE  /\ 1 \in 1 .. Len(toParent) /\ toParent[1].type = "ack"
           /\ toParent[1].a \in Assignments
           /\ UNCHANGED <<closing, closeErr, reader>>
           /\ \A p \in PendingOf(toParent[1]) : ~p.acknowledged /\ p.handle = toParent[1].a.handle
           /\ \A p \in pending' :
                \/ p \in pending /\ p.handle # toParent[1].a.handle
                \/ p.acknowledged
           /\ LET late == {p \in PendingOf(toParent[1]) : clock >= p.expiresAt}
              IN  Notify(IF toParent[1].ok /\ late = {} THEN "positive" ELSE "negative",
                         PendingOf(toParent[1]))
<1>1. /\ 1 \in 1 .. Len(toParent) /\ toParent[1].type = "ack" /\ Head(toParent) = toParent[1]
      /\ toParent[1].a \in Assignments
    BY ReceiveFacts DEF ReadACK, Inv, ShapeInv, SocketShape
<1>2. \A p \in pending : p.handle = toParent[1].a.handle => p \in PendingOf(toParent[1])
    BY <1>1, SameAssignment DEF PendingOf
<1>3. Acking(toParent[1].a.handle)
    BY <1>1 DEF Acking
<1>4. ~Acknowledged(toParent[1].a.handle)
    BY <1>1, <1>3, RecordFacts DEF Inv, StageInv
<1>5. \A p \in PendingOf(toParent[1]) : ~p.acknowledged /\ p.handle = toParent[1].a.handle /\ p \in pending
    BY <1>4 DEF Acknowledged, PendingOf, Key
<1>6. /\ UNCHANGED <<closing, closeErr, reader>>
      /\ \A p \in pending' :
            \/ p \in pending /\ p \notin PendingOf(toParent[1])
            \/ \E q \in PendingOf(toParent[1]) : p = [q EXCEPT !.acknowledged = TRUE]
      /\ LET late == {p \in PendingOf(toParent[1]) : clock >= p.expiresAt}
         IN  Notify(IF toParent[1].ok /\ late = {} THEN "positive" ELSE "negative",
                    PendingOf(toParent[1]))
  <2> DEFINE found == PendingOf(toParent[1])
  <2> DEFINE late == {p \in found : clock >= p.expiresAt}
  <2>1. {p \in found \ late : p.acknowledged} = {}
      BY <1>5
  <2> HIDE DEF found, late
  <2>2. /\ UNCHANGED <<closing, closeErr, reader>>
        /\ pending' = (pending \ found) \cup
             (IF toParent[1].ok
              THEN {[p EXCEPT !.acknowledged = TRUE] : p \in found \ (late \cup {})} ELSE {})
        /\ Notify(IF toParent[1].ok /\ late = {} THEN "positive" ELSE "negative", found)
      BY <1>1, <2>1 DEF ReadACK, found, late
  <2>3. \A p \in pending' :
            \/ p \in pending /\ p \notin found
            \/ \E q \in found : p = [q EXCEPT !.acknowledged = TRUE]
      BY <2>2
  <2> QED
      BY <2>2, <2>3 DEF found, late
<1>7. ASSUME NEW q \in PendingOf(toParent[1]) PROVE [q EXCEPT !.acknowledged = TRUE].acknowledged
    BY <1>5, EntryFacts
<1>8. ASSUME NEW p \in pending'
      PROVE  (p \in pending /\ p.handle # toParent[1].a.handle) \/ p.acknowledged
    BY <1>2, <1>6, <1>7
<1> QED
    BY <1>1, <1>5, <1>6, <1>8

\* The frames and the acknowledgements move up together.
LEMMA AckShift ==
    ASSUME Inv, NEW type, Receive(type), NEW h, NEW n \in 0 .. Len(toParent'),
           AckedBefore(toParent, h, n + 1)
    PROVE  (type = "ack" /\ toParent[1].a.handle = h) \/ AckedBefore(toParent', h, n)
<1>1. /\ toParent[1].type = type /\ Len(toParent) \in Nat
      /\ Len(toParent') = Len(toParent) - 1
      /\ \A i \in 1 .. Len(toParent') :
            toParent'[i] = toParent[i + 1] /\ i + 1 \in 1 .. Len(toParent)
    BY ReceiveFacts, SMTT(40) DEF Inv, ShapeInv, SocketShape
<1>2. PICK i \in 1 .. n + 1 : toParent[i].type = "ack" /\ toParent[i].a.handle = h /\ toParent[i].ok
    BY DEF AckedBefore
<1>3. CASE i = 1
    BY <1>1, <1>2, <1>3
<1>4. CASE i # 1
  <2>1. i - 1 \in 1 .. n /\ i - 1 \in 1 .. Len(toParent') /\ (i - 1) + 1 = i
      BY <1>1, <1>4
  <2>2. toParent'[i - 1] = toParent[i]
      BY <1>1, <2>1
  <2> QED
      BY <1>2, <2>1, <2>2 DEF AckedBefore
<1> QED
    BY <1>3, <1>4

\* A frame follows the acknowledgement of its entry.
LEMMA NextFrame == Inv /\ [Next]_vars => FrameInv'
<1> SUFFICES ASSUME Inv, [Next]_vars PROVE FrameInv'
    OBVIOUS
<1> USE DEF broker, session, sequences, socket, endpoint, history
<1>1. CASE UNCHANGED <<closing, toParent, pending, childReader>>
    BY <1>1 DEF Inv, FrameInv, AckedBefore, ConnOpen
<1>2. CASE 
             (\E c \in Callers : AssignEnter(c) \/ AssignLock(c) \/ AssignFailed(c) \/ AssignSelect(c)
                                 \/ AssignClose(c))
             \/ (\E c \in Callers, a \in Assignments : AssignGranted(c, a) \/ AssignDuplicate(c, a))
             \/ (\E c \in Callers, h \in Handles : AssignInvalid(c, h))
    BY <1>2, <1>1 DEF AssignGranted, AssignDuplicate, AssignInvalid, AssignEnter,
       AssignLock, AssignFailed,
       AssignSelect, AssignClose
<1>3. CASE ReaderEnds \/ DeliverLookup \/ (\E a \in brokerPending : BrokerExpire(a))
    BY <1>3, <1>1 DEF BrokerExpire, ReaderEnds, DeliverLookup
<1>4. CASE Tick \/ (\E h \in Handles : ChildClose(h))
             \/ (\E a \in assignments : ChildExpire(a))
    BY <1>4, <1>1 DEF ChildClose, ForgetHandle, Forget, ChildExpire, Tick
<1>5. ASSUME CloseGate PROVE FrameInv'
    BY <1>5 DEF Inv, TypeOK, ShapeInv, AnswerShape, FrameInv, AckedBefore, ConnOpen,
       CloseGate
<1>6. ASSUME CloseDone PROVE FrameInv'
    BY <1>6 DEF Inv, TypeOK, ShapeInv, AnswerShape, FrameInv, AckedBefore, ConnOpen,
       CloseDone
<1>7. ASSUME CloseDeactivate PROVE FrameInv'
    BY <1>7 DEF Inv, TypeOK, ShapeInv, AnswerShape, FrameInv, AckedBefore, ConnOpen,
       CloseDeactivate, BrokerCleared
<1>8. ASSUME CloseConn PROVE FrameInv'
    BY <1>8 DEF Inv, TypeOK, ShapeInv, AnswerShape, FrameInv, AckedBefore, ConnOpen,
       CloseConn
<1>9. ASSUME CloseClear PROVE FrameInv'
    BY <1>9 DEF Inv, TypeOK, ShapeInv, AnswerShape, FrameInv, AckedBefore, ConnOpen,
       CloseClear, Notify
<1>10. ASSUME NEW c \in Callers, AssignInsert(c) PROVE FrameInv'
  <2>1. /\ caller[c].pc = "insert" /\ caller[c].a \in Assignments
        /\ UNCHANGED <<closing, toParent, childReader>>
        /\ \A p \in pending' : p \in pending \/ p.handle = caller[c].a.handle
      BY <1>10 DEF AssignInsert, Inv, ShapeInv, CallerShape
  <2>2. Unwritten(caller[c].a.handle)
      BY <2>1 DEF Unwritten
  <2>3. ~Framed(caller[c].a.handle) /\ ~Answering(caller[c].a.handle)
      BY <2>1, <2>2, RecordFacts DEF Inv, StageInv
  <2> QED
      BY <2>1, <2>3 DEF Inv, FrameInv, Framed, Answering, AnswerSteps, ConnOpen, AckedBefore
<1>11. ASSUME NEW c \in Callers, AssignWrite(c) PROVE FrameInv'
    BY <1>11 DEF Inv, TypeOK, ShapeInv, AnswerShape, FrameInv, AckedBefore, ConnOpen,
       AssignWrite, Goto, Fail
<1>12. ASSUME NEW c \in Callers, AssignRemove(c) PROVE FrameInv'
    BY <1>12 DEF Inv, TypeOK, ShapeInv, AnswerShape, FrameInv, AckedBefore, ConnOpen,
       AssignRemove, Goto
<1>13. ASSUME NEW p \in pending, expirePending(p) PROVE FrameInv'
    BY <1>13 DEF Inv, TypeOK, ShapeInv, AnswerShape, FrameInv, AckedBefore, ConnOpen,
       expirePending, Notify
<1>14. ASSUME ReadError PROVE FrameInv'
    BY <1>14 DEF Inv, TypeOK, ShapeInv, AnswerShape, FrameInv, AckedBefore, ConnOpen,
       ReadError, ReaderFails, Fail
<1>15. ASSUME ReadOpen PROVE FrameInv'
  <2>1. ASSUME NEW i \in 1 .. Len(toParent')
        PROVE  toParent'[i] = toParent[i + 1] /\ i + 1 \in 1 .. Len(toParent)
      BY <1>15, ReceiveFacts DEF ReadOpen
  <2>2. /\ Len(toParent) = Len(toParent') + 1 /\ Len(toParent') \in Nat /\ ConnOpen
      BY <1>15, ReceiveFacts DEF ReadOpen, Inv, ShapeInv, SocketShape
  <2>3. UNCHANGED childReader /\ pending' \subseteq pending
      BY <1>15 DEF ReadOpen
  <2>4. ASSUME NEW h, NEW n \in 0 .. Len(toParent'), AckedBefore(toParent, h, n + 1)
        PROVE  AckedBefore(toParent', h, n)
      BY <1>15, <2>4, AckShift DEF ReadOpen
  <2>5. ASSUME NEW j \in 1 .. Len(toParent'), NEW p \in pending',
               toParent'[j].type = "verified", toParent'[j].a.handle = p.handle
        PROVE  p.acknowledged \/ AckedBefore(toParent', p.handle, j)
    <3>1. j + 1 \in 1 .. Len(toParent) /\ toParent'[j] = toParent[j + 1] /\ p \in pending
        BY <2>1, <2>3
    <3>2. p.acknowledged \/ AckedBefore(toParent, p.handle, j + 1)
        BY <2>2, <2>5, <3>1 DEF Inv, FrameInv
    <3>3. j \in 0 .. Len(toParent')
        BY <2>2
    <3> QED
        BY <2>4, <3>2, <3>3
  <2>6. ASSUME childReader'.pc \in {"emit", "claim", "send"}, NEW p \in pending',
               p.handle = childReader'.a.handle
        PROVE  p.acknowledged \/ AckedBefore(toParent', p.handle, Len(toParent'))
    <3>1. p.acknowledged \/ AckedBefore(toParent, p.handle, Len(toParent') + 1)
        BY <2>2, <2>3, <2>6 DEF Inv, FrameInv
    <3>2. Len(toParent') \in 0 .. Len(toParent')
        BY <2>2
    <3> QED
        BY <2>4, <3>1, <3>2
  <2> QED
      BY <2>5, <2>6 DEF FrameInv
<1>16. ASSUME ReadACK PROVE FrameInv'
  <2>1. ASSUME NEW i \in 1 .. Len(toParent')
        PROVE  toParent'[i] = toParent[i + 1] /\ i + 1 \in 1 .. Len(toParent)
      BY <1>16, ReceiveFacts DEF ReadACK
  <2>2. /\ Len(toParent) = Len(toParent') + 1 /\ Len(toParent') \in Nat /\ ConnOpen
      BY <1>16, ReceiveFacts DEF ReadACK, Inv, ShapeInv, SocketShape
  <2>3. /\ UNCHANGED childReader
        /\ \A p \in pending' : p.acknowledged \/ (p \in pending /\ p.handle # toParent[1].a.handle)
      BY <1>16, AckFacts DEF ReadACK
  <2>4. ASSUME NEW h, h # toParent[1].a.handle, NEW n \in 0 .. Len(toParent'), AckedBefore(toParent, h, n + 1)
        PROVE  AckedBefore(toParent', h, n)
      BY <1>16, <2>4, AckShift DEF ReadACK
  <2>5. ASSUME NEW j \in 1 .. Len(toParent'), NEW p \in pending',
               toParent'[j].type = "verified", toParent'[j].a.handle = p.handle
        PROVE  p.acknowledged \/ AckedBefore(toParent', p.handle, j)
    <3> SUFFICES ASSUME ~p.acknowledged PROVE AckedBefore(toParent', p.handle, j)
        OBVIOUS
    <3>1. j + 1 \in 1 .. Len(toParent) /\ toParent'[j] = toParent[j + 1]
        BY <2>1
    <3>2. AckedBefore(toParent, p.handle, j + 1)
        BY <2>2, <2>3, <2>5, <3>1 DEF Inv, FrameInv
    <3>3. j \in 0 .. Len(toParent')
        BY <2>2
    <3> QED
        BY <2>3, <2>4, <3>2, <3>3
  <2>6. ASSUME childReader'.pc \in {"emit", "claim", "send"}, NEW p \in pending',
               p.handle = childReader'.a.handle
        PROVE  p.acknowledged \/ AckedBefore(toParent', p.handle, Len(toParent'))
    <3> SUFFICES ASSUME ~p.acknowledged PROVE AckedBefore(toParent', p.handle, Len(toParent'))
        OBVIOUS
    <3>1. AckedBefore(toParent, p.handle, Len(toParent') + 1)
        BY <2>2, <2>3, <2>6 DEF Inv, FrameInv
    <3>2. Len(toParent') \in 0 .. Len(toParent')
        BY <2>2
    <3> QED
        BY <2>3, <2>4, <3>1, <3>2
  <2> QED
      BY <2>5, <2>6 DEF FrameInv
<1>17. ASSUME ReadVerified PROVE FrameInv'
  <2>1. ASSUME NEW i \in 1 .. Len(toParent')
        PROVE  toParent'[i] = toParent[i + 1] /\ i + 1 \in 1 .. Len(toParent)
      BY <1>17, ReceiveFacts DEF ReadVerified
  <2>2. /\ Len(toParent) = Len(toParent') + 1 /\ Len(toParent') \in Nat /\ ConnOpen
      BY <1>17, ReceiveFacts DEF ReadVerified, Inv, ShapeInv, SocketShape
  <2>3. UNCHANGED childReader /\ pending' \subseteq pending
      BY <1>17 DEF ReadVerified
  <2>4. ASSUME NEW h, NEW n \in 0 .. Len(toParent'), AckedBefore(toParent, h, n + 1)
        PROVE  AckedBefore(toParent', h, n)
      BY <1>17, <2>4, AckShift DEF ReadVerified
  <2>5. ASSUME NEW j \in 1 .. Len(toParent'), NEW p \in pending',
               toParent'[j].type = "verified", toParent'[j].a.handle = p.handle
        PROVE  p.acknowledged \/ AckedBefore(toParent', p.handle, j)
    <3>1. j + 1 \in 1 .. Len(toParent) /\ toParent'[j] = toParent[j + 1] /\ p \in pending
        BY <2>1, <2>3
    <3>2. p.acknowledged \/ AckedBefore(toParent, p.handle, j + 1)
        BY <2>2, <2>5, <3>1 DEF Inv, FrameInv
    <3>3. j \in 0 .. Len(toParent')
        BY <2>2
    <3> QED
        BY <2>4, <3>2, <3>3
  <2>6. ASSUME childReader'.pc \in {"emit", "claim", "send"}, NEW p \in pending',
               p.handle = childReader'.a.handle
        PROVE  p.acknowledged \/ AckedBefore(toParent', p.handle, Len(toParent'))
    <3>1. p.acknowledged \/ AckedBefore(toParent, p.handle, Len(toParent') + 1)
        BY <2>2, <2>3, <2>6 DEF Inv, FrameInv
    <3>2. Len(toParent') \in 0 .. Len(toParent')
        BY <2>2
    <3> QED
        BY <2>4, <3>1, <3>2
  <2> QED
      BY <2>5, <2>6 DEF FrameInv
<1>18. ASSUME Deliver PROVE FrameInv'
    BY <1>18 DEF Inv, TypeOK, ShapeInv, AnswerShape, FrameInv, AckedBefore, ConnOpen,
       Deliver, Consume, Listening, BrokerCleared, ReaderFails, Fail
<1>19. ASSUME OwnerStep PROVE FrameInv'
    BY <1>19 DEF Inv, TypeOK, ShapeInv, AnswerShape, FrameInv, AckedBefore, ConnOpen,
       OwnerStep, Fail
<1>20. ASSUME NEW h \in Handles, ChildOpen(h) PROVE FrameInv'
  <2> DEFINE x == Packet("open", [handle |-> h], TRUE)
  <2>1. UNCHANGED <<closing, pending>>
      BY <1>20 DEF ChildOpen
  <2>2. CASE UNCHANGED toParent /\ (UNCHANGED childReader \/ childReader'.pc = "ended")
      BY <2>1, <2>2 DEF Inv, FrameInv, AckedBefore, ConnOpen
  <2>3. CASE x \in Packets /\ Send(x)
    <3>1. x.type = "open"
        BY <1>20 DEF Packet, ChildOpen
    <3>2. UNCHANGED childReader
        BY <1>20, <2>3, <3>1 DEF ChildOpen
    <3> HIDE DEF x
    <3>3. /\ Len(toParent) \in Nat /\ Len(toParent') = Len(toParent) + 1
          /\ \A i \in 1 .. Len(toParent) : toParent'[i] = toParent[i]
          /\ toParent'[Len(toParent) + 1] = x
        BY <2>3, SendFacts
    <3>4. ASSUME NEW k, NEW n \in 0 .. Len(toParent), NEW m \in n .. Len(toParent'), AckedBefore(toParent, k, n)
          PROVE  AckedBefore(toParent', k, m)
        BY <3>3, <3>4 DEF AckedBefore
    <3>5. ASSUME ConnOpen, NEW j \in 1 .. Len(toParent'), NEW p \in pending,
                 toParent'[j].type = "verified", toParent'[j].a.handle = p.handle
          PROVE  p.acknowledged \/ AckedBefore(toParent', p.handle, j)
      <4>1. CASE j \in 1 .. Len(toParent)
        <5>1. p.acknowledged \/ AckedBefore(toParent, p.handle, j)
            BY <3>3, <3>5, <4>1 DEF Inv, FrameInv
        <5> QED
            BY <3>3, <3>4, <4>1, <5>1
      <4>2. CASE j = Len(toParent) + 1
          BY <3>1, <3>3, <3>5, <4>2
      <4> QED
          BY <3>3, <4>1, <4>2
    <3>6. ASSUME ConnOpen, childReader'.pc \in {"emit", "claim", "send"}, NEW p \in pending,
                 p.handle = childReader'.a.handle
          PROVE  p.acknowledged \/ AckedBefore(toParent', p.handle, Len(toParent'))
      <4>1. p.acknowledged \/ AckedBefore(toParent, p.handle, Len(toParent))
          BY <3>2, <3>6 DEF Inv, FrameInv
      <4>2. Len(toParent) \in 0 .. Len(toParent) /\ Len(toParent') \in Len(toParent) .. Len(toParent')
          BY <3>3
      <4> QED
          BY <3>4, <4>1, <4>2
    <3> QED
        BY <2>1, <3>5, <3>6 DEF FrameInv, ConnOpen
  <2> QED
      BY <1>20, <2>2, <2>3, ChildSends DEF ChildOpen
<1>21. ASSUME ChildRead PROVE FrameInv'
    BY <1>21 DEF Inv, TypeOK, ShapeInv, AnswerShape, FrameInv, AckedBefore, ConnOpen,
       ChildRead, CloseTransport
<1>22. ASSUME ChildEOF PROVE FrameInv'
    BY <1>22 DEF Inv, TypeOK, ShapeInv, AnswerShape, FrameInv, AckedBefore, ConnOpen,
       ChildEOF, CloseTransport
<1>23. ASSUME ChildAck PROVE FrameInv'
  <2> DEFINE x == Packet("ack", childReader.a, childReader.ok)
  <2>1. UNCHANGED <<closing, pending>>
      BY <1>23 DEF ChildAck, ReaderWrites
  <2>2. CASE UNCHANGED toParent /\ (UNCHANGED childReader \/ childReader'.pc = "ended")
      BY <2>1, <2>2 DEF Inv, FrameInv, AckedBefore, ConnOpen
  <2>3. CASE x \in Packets /\ Send(x) /\ CanSend
    <3>1. x.type = "ack" /\ x.a = childReader.a /\ x.ok = childReader.ok
        BY <1>23 DEF Packet, ChildAck
    <3>2. /\ childReader'.a = childReader.a
          /\ childReader'.pc = IF childReader.ok THEN "emit" ELSE "read"
        BY <1>23, <2>3, <3>1 DEF ChildAck, ReaderWrites, Inv, ShapeInv, AnswerShape
    <3> HIDE DEF x
    <3>3. /\ Len(toParent) \in Nat /\ Len(toParent') = Len(toParent) + 1
          /\ \A i \in 1 .. Len(toParent) : toParent'[i] = toParent[i]
          /\ toParent'[Len(toParent) + 1] = x
        BY <2>3, SendFacts
    <3>4. ASSUME NEW h, NEW n \in 0 .. Len(toParent), NEW m \in n .. Len(toParent'), AckedBefore(toParent, h, n)
          PROVE  AckedBefore(toParent', h, m)
        BY <3>3, <3>4 DEF AckedBefore
    <3>5. ASSUME ConnOpen, NEW j \in 1 .. Len(toParent'), NEW p \in pending,
                 toParent'[j].type = "verified", toParent'[j].a.handle = p.handle
          PROVE  p.acknowledged \/ AckedBefore(toParent', p.handle, j)
      <4>1. CASE j \in 1 .. Len(toParent)
        <5>1. p.acknowledged \/ AckedBefore(toParent, p.handle, j)
            BY <3>3, <3>5, <4>1 DEF Inv, FrameInv
        <5> QED
            BY <3>3, <3>4, <4>1, <5>1
      <4>2. CASE j = Len(toParent) + 1
          BY <3>1, <3>3, <3>5, <4>2
      <4> QED
          BY <3>3, <4>1, <4>2
    <3>6. ASSUME ConnOpen, childReader'.pc \in {"emit", "claim", "send"}, NEW p \in pending,
                 p.handle = childReader'.a.handle
          PROVE  p.acknowledged \/ AckedBefore(toParent', p.handle, Len(toParent'))
      <4>1. x.ok /\ x.a.handle = p.handle
          BY <3>1, <3>2, <3>6
      <4>2. Len(toParent) + 1 \in 1 .. Len(toParent')
          BY <3>3
      <4> QED
          BY <3>1, <3>3, <4>1, <4>2 DEF AckedBefore
    <3> QED
        BY <2>1, <3>5, <3>6 DEF FrameInv, ConnOpen
  <2>4. x \in Packets
    <3>1. childReader.a \in Assignments /\ childReader.ok \in BOOLEAN /\ childWrite \in Nat
        BY <1>23 DEF Inv, ShapeInv, AnswerShape, SocketShape, AnswerSteps, ChildAck
    <3> QED
        BY <3>1, PacketFacts DEF Packet
  <2>5. \/ Send(x) /\ CanSend
        \/ UNCHANGED toParent /\ childReader' = [childReader EXCEPT !.pc = "ended"]
      BY <1>23 DEF ChildAck, ReaderWrites
  <2> QED
      BY <2>2, <2>3, <2>4, <2>5 DEF Inv, ShapeInv, AnswerShape
<1>24. ASSUME ChildEmit PROVE FrameInv'
    BY <1>24 DEF Inv, TypeOK, ShapeInv, AnswerShape, FrameInv, AckedBefore, ConnOpen,
       ChildEmit
<1>25. ASSUME ChildClaim PROVE FrameInv'
    BY <1>25 DEF Inv, TypeOK, ShapeInv, AnswerShape, FrameInv, AckedBefore, ConnOpen,
       ChildClaim, Forget
<1>26. ASSUME ChildSend PROVE FrameInv'
  <2> DEFINE x == Packet("verified", childReader.a, childReader.ok)
  <2>1. UNCHANGED <<closing, pending>>
      BY <1>26 DEF ChildSend, ReaderWrites
  <2>2. CASE UNCHANGED toParent /\ (UNCHANGED childReader \/ childReader'.pc = "ended")
      BY <2>1, <2>2 DEF Inv, FrameInv, AckedBefore, ConnOpen
  <2>3. CASE x \in Packets /\ Send(x) /\ CanSend
    <3>1. x.type = "verified" /\ x.a = childReader.a /\ childReader.pc = "send"
        BY <1>26 DEF Packet, ChildSend
    <3>2. childReader'.pc = "read"
        BY <1>26, <2>3, <3>1 DEF ChildSend, ReaderWrites, Inv, ShapeInv, AnswerShape
    <3> HIDE DEF x
    <3>3. /\ Len(toParent) \in Nat /\ Len(toParent') = Len(toParent) + 1
          /\ \A i \in 1 .. Len(toParent) : toParent'[i] = toParent[i]
          /\ toParent'[Len(toParent) + 1] = x
        BY <2>3, SendFacts
    <3>4. ASSUME NEW h, NEW n \in 0 .. Len(toParent), NEW m \in n .. Len(toParent'), AckedBefore(toParent, h, n)
          PROVE  AckedBefore(toParent', h, m)
        BY <3>3, <3>4 DEF AckedBefore
    <3>5. ASSUME ConnOpen, NEW j \in 1 .. Len(toParent'), NEW p \in pending,
                 toParent'[j].type = "verified", toParent'[j].a.handle = p.handle
          PROVE  p.acknowledged \/ AckedBefore(toParent', p.handle, j)
      <4>1. CASE j \in 1 .. Len(toParent)
        <5>1. p.acknowledged \/ AckedBefore(toParent, p.handle, j)
            BY <3>3, <3>5, <4>1 DEF Inv, FrameInv
        <5> QED
            BY <3>3, <3>4, <4>1, <5>1
      <4>2. CASE j = Len(toParent) + 1
        <5>1. p.acknowledged \/ AckedBefore(toParent, p.handle, Len(toParent))
            BY <3>1, <3>3, <3>5, <4>2 DEF Inv, FrameInv
        <5>2. Len(toParent) \in 0 .. Len(toParent) /\ j \in Len(toParent) .. Len(toParent')
            BY <3>3, <4>2
        <5> QED
            BY <3>4, <5>1, <5>2
      <4> QED
          BY <3>3, <4>1, <4>2
    <3>6. ASSUME ConnOpen, childReader'.pc \in {"emit", "claim", "send"}, NEW p \in pending,
                 p.handle = childReader'.a.handle
          PROVE  p.acknowledged \/ AckedBefore(toParent', p.handle, Len(toParent'))
        BY <3>2, <3>6
    <3> QED
        BY <2>1, <3>5, <3>6 DEF FrameInv, ConnOpen
  <2>4. x \in Packets
    <3>1. childReader.a \in Assignments /\ childReader.ok \in BOOLEAN /\ childWrite \in Nat
        BY <1>26 DEF Inv, ShapeInv, AnswerShape, SocketShape, AnswerSteps, ChildSend
    <3> QED
        BY <3>1, PacketFacts DEF Packet
  <2>5. \/ Send(x) /\ CanSend
        \/ UNCHANGED toParent /\ childReader' = [childReader EXCEPT !.pc = "ended"]
      BY <1>26 DEF ChildSend, ReaderWrites
  <2> QED
      BY <2>2, <2>3, <2>4, <2>5 DEF Inv, ShapeInv, AnswerShape
<1>27. ASSUME ChildClear PROVE FrameInv'
    BY <1>27 DEF Inv, TypeOK, ShapeInv, AnswerShape, FrameInv, AckedBefore, ConnOpen,
       ChildClear, Forget
<1>28. ASSUME ChildDies PROVE FrameInv'
    BY <1>28 DEF Inv, TypeOK, ShapeInv, AnswerShape, FrameInv, AckedBefore, ConnOpen,
       ChildDies
<1> QED
    BY AssignCases, <1>1, <1>2, <1>3, <1>4, <1>5, <1>6, <1>7, <1>8, <1>9, <1>10, <1>11,
       <1>12, <1>13, <1>14, <1>15, <1>16, <1>17, <1>18, <1>19, <1>20, <1>21, <1>22, <1>23,
       <1>24, <1>25, <1>26, <1>27, <1>28
       DEF Next, CloseStep, AssignStep, ReaderStep, ChildStep, vars

----------------------------------------------------------------------------
(***************************************************************************)
(* Correct peers, refused assignments, published frames.                   *)
(***************************************************************************)
\* No peer accuses the other.
LEMMA NextHonest == Inv /\ [Next]_vars => HonestPeers'
<1> SUFFICES ASSUME Inv, [Next]_vars PROVE HonestPeers'
    OBVIOUS
<1> USE DEF broker, session, sequences, socket, endpoint, history
<1>1. CASE UNCHANGED <<closeErr, childErr>>
    BY <1>1 DEF Inv, HonestPeers
<1>2. CASE CloseGate \/ CloseDone \/ CloseDeactivate \/ CloseConn \/ CloseClear
    BY <1>2, <1>1 DEF CloseGate, CloseDone, CloseDeactivate, BrokerCleared, CloseConn,
       CloseClear
<1>3. CASE 
             (\E c \in Callers : AssignEnter(c) \/ AssignInsert(c) \/ AssignLock(c) \/ AssignFailed(c)
                                 \/ AssignSelect(c) \/ AssignRemove(c) \/ AssignClose(c))
             \/ (\E c \in Callers, a \in Assignments : AssignGranted(c, a) \/ AssignDuplicate(c, a))
             \/ (\E c \in Callers, h \in Handles : AssignInvalid(c, h))
    BY <1>3, <1>1 DEF AssignGranted, AssignDuplicate, AssignInvalid, AssignEnter, AssignInsert,
       AssignLock, AssignFailed, AssignSelect, AssignRemove, AssignClose
<1>4. CASE ReaderEnds \/ DeliverLookup \/ (\E a \in brokerPending : BrokerExpire(a))
             \/ (\E p \in pending : expirePending(p))
    BY <1>4, <1>1 DEF BrokerExpire, expirePending, ReaderEnds, DeliverLookup
<1>5. CASE ChildEmit \/ ChildClaim \/ ChildClear \/ ChildDies \/ Tick
             \/ (\E h \in Handles : ChildClose(h))
             \/ (\E a \in assignments : ChildExpire(a))
    BY <1>5, <1>1 DEF ChildClose, ForgetHandle, Forget, ChildEmit, ChildClaim, ChildClear,
       ChildExpire, ChildDies, Tick
<1>6. ASSUME NEW c \in Callers, AssignWrite(c) PROVE HonestPeers'
    BY <1>6 DEF Inv, HonestPeers, AssignWrite, Goto, Fail
<1>7. ASSUME ReadError PROVE HonestPeers'
  <2>1. ASSUME ConnOpen, toParent # <<>> PROVE Head(toParent).sequence = readSequence
    <3>1. toParent[1].sequence = readSequence + 1 - 1 /\ Head(toParent) = toParent[1] /\ readSequence \in Nat
        BY <2>1, TailFacts DEF Inv, ShapeInv, SocketShape, SequenceInv
    <3> QED
        BY <3>1
  <2> QED
      BY <1>7, <2>1 DEF Inv, HonestPeers, ReadError, ReaderFails, Fail
<1>8. ASSUME ReadOpen PROVE HonestPeers'
    BY <1>8 DEF Inv, HonestPeers, ReadOpen, Receive, Reading, BrokerCleared, ReaderFails,
       Fail
<1>9. ASSUME ReadACK PROVE HonestPeers'
  <2>1. UNCHANGED closeErr
      BY <1>9, AckFacts
  <2> QED
      BY <1>9, <2>1 DEF Inv, HonestPeers, ReadACK
<1>10. ASSUME ReadVerified PROVE HonestPeers'
  <2>1. /\ 1 \in 1 .. Len(toParent) /\ Head(toParent) = toParent[1] /\ toParent[1].type = "verified"
        /\ ConnOpen
      BY <1>10, ReceiveFacts DEF ReadVerified
  <2>2. ASSUME NEW p \in PendingOf(toParent[1]) PROVE p.acknowledged
    <3>1. p \in pending /\ toParent[1].a.handle = p.handle
        BY DEF PendingOf, Key
    <3>2. ~AckedBefore(toParent, p.handle, 1)
        BY <2>1 DEF AckedBefore
    <3> QED
        BY <2>1, <3>1, <3>2 DEF Inv, FrameInv
  <2> QED
      BY <1>10, <2>1, <2>2 DEF Inv, HonestPeers, ReadVerified
<1>11. ASSUME Deliver PROVE HonestPeers'
    BY <1>11 DEF Inv, HonestPeers, Deliver, Consume, Listening, BrokerCleared, ReaderFails, Fail
<1>12. ASSUME OwnerStep PROVE HonestPeers'
    BY <1>12 DEF Inv, HonestPeers, OwnerStep, Fail
<1>13. ASSUME NEW h \in Handles, ChildOpen(h) PROVE HonestPeers'
    BY <1>13 DEF Inv, HonestPeers, ChildOpen, CloseTransport, Send, Packet
<1>14. ASSUME ChildRead PROVE HonestPeers'
  <2>1. /\ 1 \in 1 .. Len(toChild) /\ Head(toChild) = toChild[1] /\ childRead \in Nat
        /\ toChild[1].sequence = childRead + 1 - 1
      BY <1>14, ReadFacts DEF Inv, ShapeInv, SocketShape, SequenceInv
  <2>2. Head(toChild).sequence = childRead
      BY <2>1
  <2> QED
      BY <1>14, <2>2 DEF Inv, HonestPeers, ChildRead
<1>15. ASSUME ChildEOF PROVE HonestPeers'
    BY <1>15 DEF Inv, HonestPeers, ChildEOF, CloseTransport
<1>16. ASSUME ChildAck PROVE HonestPeers'
    BY <1>16 DEF Inv, HonestPeers, ChildAck, ReaderWrites, Send, Packet, CloseTransport
<1>17. ASSUME ChildSend PROVE HonestPeers'
    BY <1>17 DEF Inv, HonestPeers, ChildSend, ReaderWrites, Send, Packet, CloseTransport
<1> QED
    BY AssignCases, <1>1, <1>2, <1>3, <1>4, <1>5, <1>6, <1>7, <1>8, <1>9, <1>10, <1>11,
       <1>12, <1>13, <1>14, <1>15, <1>16, <1>17
       DEF Next, CloseStep, AssignStep, ReaderStep, ChildStep, vars

\* Time and close go forward.
Forward == (closing # "open" => closing' # "open") /\ clock' >= clock

\* They do so in every step.
LEMMA NextForward == Inv /\ [Next]_vars => Forward
<1> SUFFICES ASSUME Inv, [Next]_vars PROVE Forward
    OBVIOUS
<1> USE DEF broker, session, sequences, socket, endpoint, history
<1>1. CASE UNCHANGED <<closing, clock>>
    BY <1>1, RecordFacts DEF Inv, ShapeInv, HistoryShape, Forward
<1>2. CASE 
             (\E c \in Callers : AssignEnter(c) \/ AssignInsert(c) \/ AssignLock(c) \/ AssignFailed(c)
                                 \/ AssignSelect(c) \/ AssignRemove(c) \/ AssignClose(c))
             \/ (\E c \in Callers, a \in Assignments : AssignGranted(c, a) \/ AssignDuplicate(c, a))
             \/ (\E c \in Callers, h \in Handles : AssignInvalid(c, h))
    BY <1>2, <1>1 DEF AssignGranted, AssignDuplicate, AssignInvalid, AssignEnter, AssignInsert,
       AssignLock, AssignFailed, AssignSelect, AssignRemove, AssignClose
<1>3. CASE ReaderEnds \/ DeliverLookup \/ (\E a \in brokerPending : BrokerExpire(a))
             \/ (\E p \in pending : expirePending(p))
    BY <1>3, <1>1 DEF BrokerExpire, expirePending, ReaderEnds, DeliverLookup
<1>4. CASE ChildRead \/ ChildEOF \/ ChildAck \/ ChildEmit \/ ChildClaim \/ ChildSend
             \/ ChildClear \/ ChildDies
             \/ (\E h \in Handles : ChildOpen(h) \/ ChildClose(h))
             \/ (\E a \in assignments : ChildExpire(a))
    BY <1>4, <1>1 DEF ChildOpen, CloseTransport, Send, ChildClose, ForgetHandle, Forget,
       ChildRead, ChildEOF, ChildAck, ReaderWrites, ChildEmit, ChildClaim, ChildSend,
       ChildClear, ChildExpire, ChildDies
<1>5. ASSUME CloseGate PROVE Forward
    BY <1>5, RecordFacts DEF Inv, ShapeInv, HistoryShape, Forward, CloseGate
<1>6. ASSUME CloseDone PROVE Forward
    BY <1>6, RecordFacts DEF Inv, ShapeInv, HistoryShape, Forward, CloseDone
<1>7. ASSUME CloseDeactivate PROVE Forward
    BY <1>7, RecordFacts DEF Inv, ShapeInv, HistoryShape, Forward, CloseDeactivate,
       BrokerCleared
<1>8. ASSUME CloseConn PROVE Forward
    BY <1>8, RecordFacts DEF Inv, ShapeInv, HistoryShape, Forward, CloseConn
<1>9. ASSUME CloseClear PROVE Forward
    BY <1>9, RecordFacts DEF Inv, ShapeInv, HistoryShape, Forward, CloseClear, Notify
<1>10. ASSUME NEW c \in Callers, AssignWrite(c) PROVE Forward
    BY <1>10, RecordFacts DEF Inv, ShapeInv, HistoryShape, Forward, AssignWrite, Goto, Fail
<1>11. ASSUME ReadError PROVE Forward
    BY <1>11, RecordFacts DEF Inv, ShapeInv, HistoryShape, Forward, ReadError, ReaderFails,
       Fail
<1>12. ASSUME ReadOpen PROVE Forward
    BY <1>12, RecordFacts DEF Inv, ShapeInv, HistoryShape, Forward, ReadOpen, Receive,
       Reading, BrokerCleared, ReaderFails, Fail
<1>13. ASSUME ReadACK PROVE Forward
    BY <1>13, RecordFacts DEF Inv, ShapeInv, HistoryShape, Forward, ReadACK, Receive,
       Reading, ReaderFails, Fail, Notify
<1>14. ASSUME ReadVerified PROVE Forward
    BY <1>14, RecordFacts DEF Inv, ShapeInv, HistoryShape, Forward, ReadVerified, Receive,
       Reading, ReaderFails, Fail
<1>15. ASSUME Deliver PROVE Forward
    BY <1>15, RecordFacts DEF Inv, ShapeInv, HistoryShape, Forward, Deliver, Consume, Listening,
       BrokerCleared, ReaderFails, Fail
<1>16. ASSUME OwnerStep PROVE Forward
    BY <1>16, RecordFacts DEF Inv, ShapeInv, HistoryShape, Forward, OwnerStep, Fail
<1>17. ASSUME Tick PROVE Forward
    BY <1>17, RecordFacts DEF Inv, ShapeInv, HistoryShape, Forward, Tick
<1> QED
    BY AssignCases, <1>1, <1>2, <1>3, <1>4, <1>5, <1>6, <1>7, <1>8, <1>9, <1>10, <1>11,
       <1>12, <1>13, <1>14, <1>15, <1>16, <1>17
       DEF Next, CloseStep, AssignStep, ReaderStep, ChildStep, vars

\* What is lost stays lost: the child never comes back to what it rejected.
LEMMA LostForGood ==
    ASSUME Inv, [Next]_vars, NEW a \in Assignments, Carried(a), Lost(a)
    PROVE  Lost(a)'
<1>1. CASE Over(a)
  <2>1. Forward
      BY NextForward
  <2>2. clock \in Nat /\ clock' \in Nat /\ a.expiresAt \in Nat
      BY NextHistory, RecordFacts DEF Inv, ShapeInv, HistoryShape
  <2> QED
      BY <1>1, <2>1, <2>2 DEF Forward, Over, Lost
<1>2. CASE Rejected(a.handle)
  <2>1. ~Unbound(a.handle) /\ a.handle \in Handles
      BY RecordFacts DEF Inv, OnceInv
  <2>2. Advance
      BY NextAdvance
  <2>3. Rejected(a.handle)'
      BY <1>2, <2>1, <2>2
         DEF Advance, AdvanceUnwritten, AdvanceRequested, AdvanceAnswering, AdvanceFramed, Rejected
  <2> QED
      BY <2>3 DEF Lost
<1> QED
    BY <1>1, <1>2 DEF Lost

\* A goroutine waits for the entry of its own assignment.
LEMMA OwnEntry ==
    ASSUME Inv, NEW c \in Callers, caller[c].pc # "idle", NEW p \in pending,
           Key(p) = Key(caller[c].a)
    PROVE  AssignmentOf(p) = caller[c].a /\ p.expiresAt = caller[c].a.expiresAt
<1>1. AssignmentOf(p) \in Assignments /\ caller[c].a \in Assignments
      /\ AssignmentOf(p).handle = p.handle
    BY EntryFacts DEF Inv, ShapeInv, CallerShape
<1>2. Carried(AssignmentOf(p)) /\ Carried(caller[c].a)
    BY DEF Carried
<1>3. AssignmentOf(p) = caller[c].a
    BY <1>1, <1>2 DEF Inv, OnceInv, Key
<1> QED
    BY <1>3 DEF AssignmentOf

\* Only what is lost is refused.
LEMMA NextRefused == Inv /\ [Next]_vars => RefusedInv'
<1> SUFFICES ASSUME Inv, [Next]_vars PROVE RefusedInv'
    OBVIOUS
<1> USE DEF broker, session, sequences, socket, endpoint, history
<1>keep. \A a \in Assignments : Carried(a) /\ Lost(a) => Lost(a)'
    BY LostForGood
<1>mine. \A c \in Callers : caller[c].pc # "idle" => caller[c].a \in Assignments /\ Carried(caller[c].a)
    BY DEF Inv, ShapeInv, CallerShape, Carried
<1>old. \A a \in refused : Lost(a)'
    BY <1>keep DEF Inv, ShapeInv, HistoryShape, RefusedInv, Carried
<1>end. closing # "open" => closing' # "open"
    BY NextForward DEF Forward
<1>1. CASE UNCHANGED <<caller, refused>>
    BY <1>1, <1>keep, <1>mine, <1>old, <1>end DEF Inv, RefusedInv
<1>2. CASE CloseGate \/ CloseDone \/ CloseDeactivate \/ CloseConn
    BY <1>2, <1>1 DEF CloseGate, CloseDone, CloseDeactivate, BrokerCleared, CloseConn
<1>3. CASE (\E c \in Callers, a \in Assignments : AssignDuplicate(c, a))
             \/ (\E c \in Callers, h \in Handles : AssignInvalid(c, h))
    BY <1>3, <1>1 DEF AssignDuplicate, AssignInvalid
<1>4. CASE ReadError \/ ReaderEnds \/ ReadOpen \/ ReadVerified \/ DeliverLookup
             \/ Deliver \/ OwnerStep \/ (\E a \in brokerPending : BrokerExpire(a))
    BY <1>4, <1>1 DEF BrokerExpire, ReadError, ReaderFails, Fail, ReaderEnds, ReadOpen,
       Receive, BrokerCleared, ReadVerified, DeliverLookup, Deliver, Consume, OwnerStep
<1>5. CASE ChildRead \/ ChildEOF \/ ChildAck \/ ChildEmit \/ ChildClaim \/ ChildSend
             \/ ChildClear \/ ChildDies \/ Tick
             \/ (\E h \in Handles : ChildOpen(h) \/ ChildClose(h))
             \/ (\E a \in assignments : ChildExpire(a))
    BY <1>5, <1>1 DEF ChildOpen, CloseTransport, Send, ChildClose, ForgetHandle, Forget,
       ChildRead, ChildEOF, ChildAck, ReaderWrites, ChildEmit, ChildClaim, ChildSend,
       ChildClear, ChildExpire, ChildDies, Tick
<1>6. ASSUME CloseClear PROVE RefusedInv'
  <2>1. ASSUME NEW c \in Callers PROVE
             /\ caller'[c].pc = caller[c].pc /\ caller'[c].a = caller[c].a
             /\ caller[c].pc \in {"enter", "insert"} => caller'[c].waiter = caller[c].waiter
             /\ caller'[c].waiter = "negative" =>
                  caller[c].waiter = "negative" \/ closing' = "closed"
      BY <1>6 DEF CloseClear, Notify, Waiting, Inv, ShapeInv, CallerShape
  <2>2. \A a \in Assignments : Lost(a)'
      BY <1>6 DEF CloseClear, Lost, Over
  <2> QED
      BY <1>keep, <1>mine, <1>old, <1>end, <2>1, <2>2, <1>6 DEF Inv, RefusedInv, CloseClear
<1>7. ASSUME NEW c \in Callers, NEW a \in Assignments, AssignGranted(c, a) PROVE RefusedInv'
  <2>1. caller' = [caller EXCEPT ![c] = [pc |-> "enter", a |-> a, waiter |-> "none"]] /\ UNCHANGED refused
      BY <1>7 DEF AssignGranted
  <2> QED
      BY <1>keep, <1>mine, <1>old, <1>end, <2>1 DEF Inv, ShapeInv, CallerShape, RefusedInv
<1>8. ASSUME NEW c \in Callers, AssignEnter(c) PROVE RefusedInv'
  <2>1. UNCHANGED refused /\ \E pc \in {"insert", "close"} : caller' = [caller EXCEPT ![c].pc = pc]
      BY <1>8 DEF AssignEnter, Goto
  <2>2. /\ caller[c].pc = "enter"
        /\ caller'[c].pc = "close" => Lost(caller[c].a)
    <3>1. caller[c].pc = "enter" /\ caller[c].a.expiresAt \in Nat /\ clock \in Nat
        BY <1>8, <1>mine, RecordFacts DEF AssignEnter, Inv, ShapeInv, HistoryShape
    <3>2. caller'[c].pc = "close" => ~MayEnter \/ ~(clock < caller[c].a.expiresAt)
        BY <1>8 DEF AssignEnter, Goto, Inv, ShapeInv, CallerShape
    <3> QED
        BY <3>1, <3>2 DEF MayEnter, Accepting, Lost, Over
  <2> QED
      BY <1>keep, <1>mine, <1>old, <1>end, <2>1, <2>2 DEF Inv, ShapeInv, CallerShape,
         RefusedInv
<1>9. ASSUME NEW c \in Callers, AssignInsert(c) PROVE RefusedInv'
  <2>1. UNCHANGED refused /\ \E pc \in {"write", "close"} : caller' = [caller EXCEPT ![c].pc = pc]
      BY <1>9 DEF AssignInsert, Goto
  <2>2. /\ caller[c].pc = "insert"
        /\ caller'[c].pc = "close" => Lost(caller[c].a)
    <3>1. caller[c].pc = "insert" /\ ~ \E p \in pending : Key(p) = Key(caller[c].a)
        BY <1>9 DEF AssignInsert, Inv, UniqueInv, OneEntry, Key
    <3> QED
        BY <1>9, <3>1 DEF AssignInsert, Goto, Inv, ShapeInv, CallerShape
  <2> QED
      BY <1>keep, <1>mine, <1>old, <1>end, <2>1, <2>2 DEF Inv, ShapeInv, CallerShape,
         RefusedInv
<1>10. ASSUME NEW c \in Callers, AssignWrite(c) PROVE RefusedInv'
  <2>1. UNCHANGED refused /\ \E pc \in {"select", "failing"} : caller' = [caller EXCEPT ![c].pc = pc]
      BY <1>10 DEF AssignWrite, Goto
  <2>2. /\ caller[c].pc = "write"
        /\ caller'[c].pc = "failing" => closing' # "open"
    <3>1. \/ caller' = [caller EXCEPT ![c].pc = "select"]
          \/ closing' # "open" /\ caller' = [caller EXCEPT ![c].pc = "failing"]
        BY <1>10, WriteFacts
    <3>2. caller[c].pc = "write"
        BY <1>10, WriteFacts
    <3> QED
        BY <3>1, <3>2 DEF Inv, ShapeInv, CallerShape
  <2> QED
      BY <1>keep, <1>mine, <1>old, <1>end, <2>1, <2>2 DEF Inv, ShapeInv, CallerShape,
         RefusedInv
<1>11. ASSUME NEW c \in Callers, AssignFailed(c) PROVE RefusedInv'
  <2>1. UNCHANGED refused /\ \E pc \in {"remove"} : caller' = [caller EXCEPT ![c].pc = pc]
      BY <1>11 DEF AssignFailed, Goto
  <2>2. caller[c].pc = "failing" /\ Lost(caller[c].a)
      BY <1>11 DEF AssignFailed, Lost, Over
  <2> QED
      BY <1>keep, <1>mine, <1>old, <1>end, <2>1, <2>2 DEF Inv, ShapeInv, CallerShape,
         RefusedInv
<1>11a. ASSUME NEW c \in Callers, AssignLock(c) PROVE RefusedInv'
  <2>1. CASE UNCHANGED caller
      BY <1>11a, <1>1, <2>1 DEF AssignLock
  <2>2. CASE clock >= caller[c].a.expiresAt /\ caller' = [caller EXCEPT ![c].pc = "remove"]
    <3>1. caller[c].pc = "write" /\ Lost(caller[c].a) /\ UNCHANGED refused
        BY <1>11a, <2>2 DEF AssignLock, Lost, Over
    <3> QED
        BY <1>keep, <1>mine, <1>old, <1>end, <2>2, <3>1 DEF Inv, ShapeInv, CallerShape,
           RefusedInv
  <2>3. caller[c].a.expiresAt \in Nat /\ clock \in Nat
      BY <1>11a, <1>mine, RecordFacts DEF AssignLock, Inv, ShapeInv, HistoryShape
  <2> QED
      BY <1>11a, <2>1, <2>2, <2>3 DEF AssignLock, Goto
<1>12. ASSUME NEW c \in Callers, AssignSelect(c) PROVE RefusedInv'
  <2>1. CASE caller' = [caller EXCEPT ![c] = IdleCaller]
      BY <1>keep, <1>mine, <1>old, <1>end, <1>12, <2>1 DEF Inv, ShapeInv, CallerShape,
         RefusedInv, IdleCaller, AssignSelect
  <2>2. ASSUME NEW pc \in {"remove", "close"}, caller' = [caller EXCEPT ![c].pc = pc], Lost(caller[c].a)
        PROVE  RefusedInv'
      BY <1>keep, <1>mine, <1>old, <1>end, <1>12, <2>2 DEF Inv, ShapeInv, CallerShape,
         RefusedInv, AssignSelect
  <2>3. \/ caller' = [caller EXCEPT ![c] = IdleCaller]
        \/ \E pc \in {"remove", "close"} : caller' = [caller EXCEPT ![c].pc = pc] /\ Lost(caller[c].a)
      BY <1>12 DEF AssignSelect, Goto, Done, Lost, Over, Inv, RefusedInv
  <2> QED
      BY <2>1, <2>2, <2>3
<1>13. ASSUME NEW c \in Callers, AssignRemove(c) PROVE RefusedInv'
  <2>1. UNCHANGED refused /\ \E pc \in {"close"} : caller' = [caller EXCEPT ![c].pc = pc]
      BY <1>13 DEF AssignRemove, Goto
  <2>2. caller[c].pc = "remove" /\ Lost(caller[c].a)
      BY <1>13 DEF AssignRemove, Inv, RefusedInv
  <2> QED
      BY <1>keep, <1>mine, <1>old, <1>end, <2>1, <2>2 DEF Inv, ShapeInv, CallerShape,
         RefusedInv
<1>14. ASSUME NEW c \in Callers, AssignClose(c) PROVE RefusedInv'
  <2>1. /\ caller[c].pc = "close" /\ caller' = [caller EXCEPT ![c] = IdleCaller]
        /\ refused' = refused \cup {caller[c].a}
      BY <1>14 DEF AssignClose
  <2>2. PICK b \in Assignments : b = caller[c].a /\ Carried(b) /\ Lost(b)
      BY <1>mine, <2>1 DEF Inv, RefusedInv
  <2>3. Lost(b)'
      BY <1>keep, <2>2
  <2> QED
      BY <1>keep, <1>mine, <1>old, <1>end, <2>1, <2>2, <2>3 DEF Inv, ShapeInv, CallerShape,
         RefusedInv, IdleCaller
<1>15. ASSUME NEW p \in pending, expirePending(p) PROVE RefusedInv'
  <2>1. ASSUME NEW c \in Callers PROVE
             /\ caller'[c].pc = caller[c].pc /\ caller'[c].a = caller[c].a
             /\ caller[c].pc \in {"enter", "insert"} => caller'[c].waiter = caller[c].waiter
             /\ caller'[c].waiter = "negative" =>
                  caller[c].waiter = "negative" \/ (Waiting(c, {p}))
      BY <1>15 DEF expirePending, Notify, Waiting, Inv, ShapeInv, CallerShape
  <2>2. ASSUME NEW c \in Callers, Waiting(c, {p}) PROVE Lost(caller[c].a)
    <3>1. caller[c].a.expiresAt = p.expiresAt
        BY <2>2, OwnEntry DEF Waiting
    <3> QED
        BY <1>15, <3>1 DEF expirePending, Lost, Over
  <2> QED
      BY <1>keep, <1>mine, <1>old, <1>end, <2>1, <2>2, <1>15 DEF Waiting, Inv, RefusedInv,
         expirePending
<1>16. ASSUME ReadACK PROVE RefusedInv'
  <2> DEFINE found == PendingOf(toParent[1])
  <2> DEFINE status == IF toParent[1].ok /\ {p \in found : clock >= p.expiresAt} = {}
                       THEN "positive" ELSE "negative"
  <2>1. Notify(status, found)
      BY <1>16, AckFacts
  <2>2. ASSUME NEW c \in Callers, Waiting(c, found), status = "negative" PROVE Lost(caller[c].a)
    <3>1. PICK p \in found : Key(p) = Key(caller[c].a)
        BY <2>2 DEF Waiting
    <3>2. caller[c].pc # "idle"
        BY <2>2 DEF Waiting
    <3>3. /\ 1 \in 1 .. Len(toParent) /\ toParent[1].type = "ack" /\ toParent[1].a \in Assignments
          /\ \A q \in found : q \in pending /\ Key(q) = Key(toParent[1].a)
        BY <1>16, AckFacts DEF PendingOf
    <3>4. caller[c].a.handle = toParent[1].a.handle /\ \A q \in found : Key(q) = Key(caller[c].a)
        BY <3>1, <3>3 DEF Key
    <3>5. CASE ~toParent[1].ok
      <4> DEFINE h == toParent[1].a.handle
      <4>1. Acking(h) /\ Nacking(h) /\ h \in Handles
          BY <3>3, <3>5, RecordFacts DEF Acking, Nacking
      <4>2. Rejected(h)
          BY <4>1 DEF Inv, StageInv, Rejected
      <4> QED
          BY <3>4, <4>2 DEF Lost
    <3>6. ASSUME NEW q \in found, clock >= q.expiresAt PROVE Lost(caller[c].a)
      <4>1. q.expiresAt = caller[c].a.expiresAt
          BY <3>2, <3>3, <3>4, OwnEntry
      <4> QED
          BY <3>6, <4>1 DEF Lost, Over
    <3> QED
        BY <2>2, <3>5, <3>6
  <2> HIDE DEF found, status
  <2>3. ASSUME NEW c \in Callers PROVE
             /\ caller'[c].pc = caller[c].pc /\ caller'[c].a = caller[c].a
             /\ caller[c].pc \in {"enter", "insert"} => caller'[c].waiter = caller[c].waiter
             /\ caller'[c].waiter = "negative" =>
                  caller[c].waiter = "negative" \/ (Waiting(c, found) /\ status = "negative")
      BY <2>1 DEF Notify, Waiting, Inv, ShapeInv, CallerShape
  <2>4. UNCHANGED refused
      BY <1>16 DEF ReadACK
  <2> QED
      BY <1>keep, <1>mine, <1>old, <1>end, <2>2, <2>3, <2>4 DEF Inv, RefusedInv, Waiting
<1> QED
    BY AssignCases, <1>1, <1>2, <1>3, <1>4, <1>5, <1>6, <1>7, <1>8, <1>9, <1>10, <1>11, <1>11a,
       <1>12, <1>13, <1>14, <1>15, <1>16
       DEF Next, CloseStep, AssignStep, ReaderStep, ChildStep, vars

\* A frame is published as it was produced.
LEMMA NextDeliver == Inv /\ [Next]_vars => DeliverInv'
<1> SUFFICES ASSUME Inv, [Next]_vars PROVE DeliverInv'
    OBVIOUS
<1> USE PublishedKept DEF broker, session, sequences, socket, endpoint, history
<1>1. CASE UNCHANGED <<reader, frames>>
    BY <1>1 DEF Inv, DeliverInv, PublishedAsProduced
<1>2. CASE CloseGate \/ CloseDone \/ CloseDeactivate \/ CloseConn \/ CloseClear
    BY <1>2, <1>1 DEF CloseGate, CloseDone, CloseDeactivate, BrokerCleared, CloseConn,
       CloseClear
<1>3. CASE 
             (\E c \in Callers : AssignEnter(c) \/ AssignInsert(c) \/ AssignWrite(c)
                                 \/ AssignLock(c) \/ AssignFailed(c) \/ AssignSelect(c)
                                 \/ AssignRemove(c)
                                 \/ AssignClose(c))
             \/ (\E c \in Callers, a \in Assignments : AssignGranted(c, a) \/ AssignDuplicate(c, a))
             \/ (\E c \in Callers, h \in Handles : AssignInvalid(c, h))
    BY <1>3, <1>1 DEF AssignGranted, AssignDuplicate, AssignInvalid, AssignEnter, AssignInsert,
       AssignWrite, Fail, AssignLock, AssignFailed, AssignSelect, AssignRemove, AssignClose
<1>4. CASE OwnerStep \/ (\E a \in brokerPending : BrokerExpire(a))
             \/ (\E p \in pending : expirePending(p))
    BY <1>4, <1>1 DEF BrokerExpire, expirePending, OwnerStep, Fail
<1>5. CASE ChildRead \/ ChildEOF \/ ChildAck \/ ChildEmit \/ ChildClaim \/ ChildSend
             \/ ChildClear \/ ChildDies \/ Tick
             \/ (\E h \in Handles : ChildOpen(h) \/ ChildClose(h))
             \/ (\E a \in assignments : ChildExpire(a))
    BY <1>5, <1>1 DEF ChildOpen, CloseTransport, Send, ChildClose, ForgetHandle, Forget,
       ChildRead, ChildEOF, ChildAck, ReaderWrites, ChildEmit, ChildClaim, ChildSend,
       ChildClear, ChildExpire, ChildDies, Tick
<1>6. ASSUME ReadError PROVE DeliverInv'
    BY <1>6 DEF Inv, ShapeInv, ReaderShape, DeliverInv, PublishedAsProduced, ReadError,
       ReaderFails, Fail
<1>7. ASSUME ReaderEnds PROVE DeliverInv'
    BY <1>7 DEF Inv, ShapeInv, ReaderShape, DeliverInv, PublishedAsProduced, ReaderEnds,
       Listening
<1>8. ASSUME ReadOpen PROVE DeliverInv'
    BY <1>8 DEF Inv, ShapeInv, ReaderShape, DeliverInv, PublishedAsProduced, ReadOpen,
       Receive, Reading, BrokerCleared, ReaderFails, Fail
<1>9. ASSUME ReadACK PROVE DeliverInv'
    BY <1>9 DEF Inv, ShapeInv, ReaderShape, DeliverInv, PublishedAsProduced, ReadACK,
       Receive, Reading, ReaderFails, Fail, Notify
<1>10. ASSUME ReadVerified PROVE DeliverInv'
    BY <1>10 DEF Inv, ShapeInv, ReaderShape, DeliverInv, PublishedAsProduced, ReadVerified,
       Receive, Reading, ReaderFails, Fail
<1>11. ASSUME DeliverLookup PROVE DeliverInv'
  <2>1. CASE reader'.pc = "read"
      BY <1>11, <2>1 DEF Inv, DeliverInv, PublishedAsProduced, DeliverLookup
  <2>2. ASSUME NEW p \in brokerPending, Key(p) = Key(reader.a), reader'.expiresAt = p.expiresAt,
               reader'.a = reader.a
        PROVE  DeliverInv'
    <3>1. p \in Assignments /\ reader.a \in Assignments /\ Carried(p) /\ Carried(reader.a)
        BY <1>11 DEF DeliverLookup, Inv, TypeOK, ShapeInv, ReaderShape, Carried
    <3>2. p = reader.a
        BY <2>2, <3>1 DEF Inv, OnceInv, Key
    <3> QED
        BY <1>11, <2>2, <3>2 DEF Inv, DeliverInv, PublishedAsProduced, DeliverLookup
  <2> QED
      BY <1>11, <2>1, <2>2, LookupFacts
<1>12. ASSUME Deliver PROVE DeliverInv'
  <2>1. reader.pc = "deliver" /\ reader.expiresAt = reader.a.expiresAt /\ reader'.pc \in {"read", "failing"}
      BY <1>12 DEF Deliver, Consume, Inv, DeliverInv, ReaderFails, Listening, ShapeInv, ReaderShape
  <2>2. \A x \in published' :
          \/ x \in published
          \/ x.to.correlation = x.for.correlation /\ x.to.expiresAt = x.for.expiresAt
      BY <1>12, <2>1, DeliverFacts
  <2> QED
      BY <2>1, <2>2 DEF Inv, DeliverInv, PublishedAsProduced
<1> QED
    BY AssignCases, <1>1, <1>2, <1>3, <1>4, <1>5, <1>6, <1>7, <1>8, <1>9, <1>10, <1>11,
       <1>12
       DEF Next, CloseStep, AssignStep, ReaderStep, ChildStep, vars

----------------------------------------------------------------------------
(***************************************************************************)
(* The types of the fields.                                                *)
(***************************************************************************)
BrokerType ==
    /\ brokerActive \in BOOLEAN
    /\ brokerHandles \subseteq Handles /\ brokerPending \subseteq Assignments
StateType ==
    /\ closing \in {"open", "gate", "deactivate", "done", "conn", "clear", "closed"}
    /\ owner \in {"select", "close", "reap", "wait", "wiped"}
    /\ child \in {"running", "closed", "dead"}
    /\ connections \subseteq Handles

\* The broker.
LEMMA NextBroker == Inv /\ [Next]_vars => BrokerType'
<1> SUFFICES ASSUME Inv, [Next]_vars PROVE BrokerType'
    OBVIOUS
<1> USE DEF broker, session, sequences, socket, endpoint, history
<1>1. CASE UNCHANGED <<broker>>
    BY <1>1 DEF Inv, TypeOK, BrokerType
<1>2. CASE CloseGate \/ CloseDone \/ CloseConn \/ CloseClear
    BY <1>2, <1>1 DEF CloseGate, CloseDone, CloseConn, CloseClear
<1>3. CASE 
             (\E c \in Callers : AssignEnter(c) \/ AssignInsert(c) \/ AssignWrite(c)
                                 \/ AssignLock(c) \/ AssignFailed(c) \/ AssignSelect(c)
                                 \/ AssignRemove(c))
    BY <1>3, <1>1 DEF AssignEnter, AssignInsert, AssignWrite, Fail, AssignLock, AssignFailed,
       AssignSelect, AssignRemove
<1>4. CASE ReadError \/ ReaderEnds \/ ReadACK \/ ReadVerified \/ DeliverLookup
             \/ OwnerStep \/ (\E p \in pending : expirePending(p))
    BY <1>4, <1>1 DEF expirePending, ReadError, ReaderFails, Fail, ReaderEnds, ReadACK,
       Receive, ReadVerified, DeliverLookup, OwnerStep
<1>5. CASE ChildRead \/ ChildEOF \/ ChildAck \/ ChildEmit \/ ChildClaim \/ ChildSend
             \/ ChildClear \/ ChildDies \/ Tick
             \/ (\E h \in Handles : ChildOpen(h) \/ ChildClose(h))
             \/ (\E a \in assignments : ChildExpire(a))
    BY <1>5, <1>1 DEF ChildOpen, CloseTransport, Send, ChildClose, ForgetHandle, Forget,
       ChildRead, ChildEOF, ChildAck, ReaderWrites, ChildEmit, ChildClaim, ChildSend,
       ChildClear, ChildExpire, ChildDies, Tick
<1>6. ASSUME CloseDeactivate PROVE BrokerType'
    BY <1>6 DEF Inv, TypeOK, BrokerType, CloseDeactivate, BrokerCleared
<1>7. ASSUME NEW c \in Callers, NEW a \in Assignments, AssignGranted(c, a) PROVE BrokerType'
    BY <1>7 DEF Inv, TypeOK, BrokerType, AssignGranted
<1>8. ASSUME NEW c \in Callers, NEW a \in Assignments, AssignDuplicate(c, a) PROVE BrokerType'
    BY <1>8 DEF Inv, TypeOK, BrokerType, AssignDuplicate
<1>8a. ASSUME NEW c \in Callers, NEW h \in Handles, AssignInvalid(c, h) PROVE BrokerType'
    BY <1>8a DEF Inv, TypeOK, BrokerType, AssignInvalid
<1>9. ASSUME NEW c \in Callers, AssignClose(c) PROVE BrokerType'
    BY <1>9 DEF Inv, TypeOK, BrokerType, AssignClose, IdleCaller
<1>10. ASSUME NEW a \in brokerPending, BrokerExpire(a) PROVE BrokerType'
    BY <1>10 DEF Inv, TypeOK, BrokerType, BrokerExpire
<1>11. ASSUME ReadOpen PROVE BrokerType'
  <2>1. Head(toParent).a.handle \in Handles
      BY <1>11, HeadFacts DEF ReadOpen, Receive, Reading
  <2> QED
      BY <1>11, <2>1 DEF Inv, TypeOK, BrokerType, ReadOpen, BrokerCleared
<1>12. ASSUME Deliver PROVE BrokerType'
    BY <1>12 DEF Inv, TypeOK, BrokerType, Deliver, Consume, Listening, BrokerCleared, ReaderFails,
       Fail
<1> QED
    BY AssignCases, <1>1, <1>2, <1>3, <1>4, <1>5, <1>6, <1>7, <1>8, <1>8a, <1>9, <1>10, <1>11,
       <1>12
       DEF Next, CloseStep, AssignStep, ReaderStep, ChildStep, vars

\* The stages of close, of the owner and of the child.
LEMMA NextState == Inv /\ [Next]_vars => StateType'
<1> SUFFICES ASSUME Inv, [Next]_vars PROVE StateType'
    OBVIOUS
<1> USE DEF broker, session, sequences, socket, endpoint, history
<1>1. CASE UNCHANGED <<closing, owner, child, connections>>
    BY <1>1 DEF Inv, TypeOK, EndpointType, StateType
<1>2. CASE 
             (\E c \in Callers : AssignEnter(c) \/ AssignInsert(c) \/ AssignLock(c) \/ AssignFailed(c)
                                 \/ AssignSelect(c) \/ AssignRemove(c) \/ AssignClose(c))
             \/ (\E c \in Callers, a \in Assignments : AssignGranted(c, a) \/ AssignDuplicate(c, a))
             \/ (\E c \in Callers, h \in Handles : AssignInvalid(c, h))
    BY <1>2, <1>1 DEF AssignGranted, AssignDuplicate, AssignInvalid, AssignEnter, AssignInsert,
       AssignLock, AssignFailed, AssignSelect, AssignRemove, AssignClose
<1>3. CASE ReaderEnds \/ DeliverLookup \/ (\E a \in brokerPending : BrokerExpire(a))
             \/ (\E p \in pending : expirePending(p))
    BY <1>3, <1>1 DEF BrokerExpire, expirePending, ReaderEnds, DeliverLookup
<1>4. CASE ChildEmit \/ ChildClaim \/ ChildClear \/ Tick
             \/ (\E a \in assignments : ChildExpire(a))
    BY <1>4, <1>1 DEF ChildEmit, ChildClaim, Forget, ChildClear, ChildExpire, Tick
<1>5. ASSUME CloseGate PROVE StateType'
    BY <1>5 DEF Inv, TypeOK, EndpointType, StateType, CloseGate
<1>6. ASSUME CloseDone PROVE StateType'
    BY <1>6 DEF Inv, TypeOK, EndpointType, StateType, CloseDone
<1>7. ASSUME CloseDeactivate PROVE StateType'
    BY <1>7 DEF Inv, TypeOK, EndpointType, StateType, CloseDeactivate, BrokerCleared
<1>8. ASSUME CloseConn PROVE StateType'
    BY <1>8 DEF Inv, TypeOK, EndpointType, StateType, CloseConn
<1>9. ASSUME CloseClear PROVE StateType'
    BY <1>9 DEF Inv, TypeOK, EndpointType, StateType, CloseClear, Notify
<1>10. ASSUME NEW c \in Callers, AssignWrite(c) PROVE StateType'
    BY <1>10 DEF Inv, TypeOK, EndpointType, StateType, AssignWrite, Goto, Fail
<1>11. ASSUME ReadError PROVE StateType'
    BY <1>11 DEF Inv, TypeOK, EndpointType, StateType, ReadError, ReaderFails, Fail
<1>12. ASSUME ReadOpen PROVE StateType'
    BY <1>12 DEF Inv, TypeOK, EndpointType, StateType, ReadOpen, Receive, Reading,
       BrokerCleared, ReaderFails, Fail
<1>13. ASSUME ReadACK PROVE StateType'
    BY <1>13 DEF Inv, TypeOK, EndpointType, StateType, ReadACK, Receive, Reading,
       ReaderFails, Fail, Notify
<1>14. ASSUME ReadVerified PROVE StateType'
    BY <1>14 DEF Inv, TypeOK, EndpointType, StateType, ReadVerified, Receive, Reading,
       ReaderFails, Fail
<1>15. ASSUME Deliver PROVE StateType'
    BY <1>15 DEF Inv, TypeOK, EndpointType, StateType, Deliver, Consume, Listening, BrokerCleared,
       ReaderFails, Fail
<1>16. ASSUME OwnerStep PROVE StateType'
    BY <1>16 DEF Inv, TypeOK, EndpointType, StateType, OwnerStep, Fail
<1>17. ASSUME NEW h \in Handles, ChildOpen(h) PROVE StateType'
    BY <1>17 DEF Inv, TypeOK, EndpointType, StateType, ChildOpen, CloseTransport, Send,
       Packet
<1>18. ASSUME NEW h \in Handles, ChildClose(h) PROVE StateType'
    BY <1>18 DEF Inv, TypeOK, EndpointType, StateType, ChildClose, ForgetHandle, Forget
<1>19. ASSUME ChildRead PROVE StateType'
    BY <1>19 DEF Inv, TypeOK, EndpointType, StateType, ChildRead, CloseTransport
<1>20. ASSUME ChildEOF PROVE StateType'
    BY <1>20 DEF Inv, TypeOK, EndpointType, StateType, ChildEOF, CloseTransport
<1>21. ASSUME ChildAck PROVE StateType'
    BY <1>21 DEF Inv, TypeOK, EndpointType, StateType, ChildAck, ReaderWrites, Send, Packet,
       CloseTransport
<1>22. ASSUME ChildSend PROVE StateType'
    BY <1>22 DEF Inv, TypeOK, EndpointType, StateType, ChildSend, ReaderWrites, Send,
       Packet, CloseTransport
<1>23. ASSUME ChildDies PROVE StateType'
    BY <1>23 DEF Inv, TypeOK, EndpointType, StateType, ChildDies
<1> QED
    BY AssignCases, <1>1, <1>2, <1>3, <1>4, <1>5, <1>6, <1>7, <1>8, <1>9, <1>10, <1>11,
       <1>12, <1>13, <1>14, <1>15, <1>16, <1>17, <1>18, <1>19, <1>20, <1>21, <1>22, <1>23
       DEF Next, CloseStep, AssignStep, ReaderStep, ChildStep, vars

\* The entries.
LEMMA NextPending == Inv /\ [Next]_vars => PendingType'
<1> SUFFICES ASSUME Inv, [Next]_vars PROVE PendingType'
    OBVIOUS
<1> USE DEF broker, session, sequences, socket, endpoint, history
<1>1. CASE UNCHANGED <<pending>>
    BY <1>1 DEF Inv, TypeOK, PendingType
<1>2. CASE CloseGate \/ CloseDone \/ CloseDeactivate \/ CloseConn
    BY <1>2, <1>1 DEF CloseGate, CloseDone, CloseDeactivate, BrokerCleared, CloseConn
<1>3. CASE 
             (\E c \in Callers : AssignEnter(c) \/ AssignWrite(c) \/ AssignLock(c) \/ AssignFailed(c)
                                 \/ AssignSelect(c) \/ AssignClose(c))
             \/ (\E c \in Callers, a \in Assignments : AssignGranted(c, a) \/ AssignDuplicate(c, a))
             \/ (\E c \in Callers, h \in Handles : AssignInvalid(c, h))
    BY <1>3, <1>1 DEF AssignGranted, AssignDuplicate, AssignInvalid, AssignEnter, AssignWrite, Fail,
       AssignLock, AssignFailed, AssignSelect, AssignClose
<1>4. CASE ReadError \/ ReaderEnds \/ ReadOpen \/ DeliverLookup \/ Deliver \/ OwnerStep
             \/ (\E a \in brokerPending : BrokerExpire(a))
    BY <1>4, <1>1 DEF BrokerExpire, ReadError, ReaderFails, Fail, ReaderEnds, ReadOpen,
       Receive, BrokerCleared, DeliverLookup, Deliver, Consume, OwnerStep
<1>5. CASE ChildRead \/ ChildEOF \/ ChildAck \/ ChildEmit \/ ChildClaim \/ ChildSend
             \/ ChildClear \/ ChildDies \/ Tick
             \/ (\E h \in Handles : ChildOpen(h) \/ ChildClose(h))
             \/ (\E a \in assignments : ChildExpire(a))
    BY <1>5, <1>1 DEF ChildOpen, CloseTransport, Send, ChildClose, ForgetHandle, Forget,
       ChildRead, ChildEOF, ChildAck, ReaderWrites, ChildEmit, ChildClaim, ChildSend,
       ChildClear, ChildExpire, ChildDies, Tick
<1>6. ASSUME CloseClear PROVE PendingType'
    BY <1>6 DEF Inv, TypeOK, PendingType, CloseClear, Notify
<1>7. ASSUME NEW c \in Callers, AssignInsert(c) PROVE PendingType'
  <2>1. caller[c].a \in Assignments
      BY <1>7 DEF AssignInsert, Inv, ShapeInv, CallerShape
  <2>2. [handle |-> caller[c].a.handle, correlation |-> caller[c].a.correlation,
         expiresAt |-> caller[c].a.expiresAt, acknowledged |-> FALSE]
          \in [handle : Handles, correlation : Correlations, expiresAt : Instants, acknowledged : BOOLEAN]
      BY <2>1, RecordFacts
  <2>3. \A p \in pending' : p \in pending \/
          p = [handle |-> caller[c].a.handle, correlation |-> caller[c].a.correlation,
               expiresAt |-> caller[c].a.expiresAt, acknowledged |-> FALSE]
      BY <1>7 DEF AssignInsert
  <2> QED
      BY <2>2, <2>3 DEF Inv, TypeOK, PendingType
<1>8. ASSUME NEW c \in Callers, AssignRemove(c) PROVE PendingType'
    BY <1>8 DEF Inv, TypeOK, PendingType, AssignRemove, Goto
<1>9. ASSUME NEW p \in pending, expirePending(p) PROVE PendingType'
    BY <1>9 DEF Inv, TypeOK, PendingType, expirePending, Notify
<1>10. ASSUME ReadACK PROVE PendingType'
  <2>1. \A p \in pending' : p \in pending \/ \E q \in pending : p = [q EXCEPT !.acknowledged = TRUE]
      BY <1>10 DEF ReadACK, PendingOf
  <2>2. \A q \in [handle : Handles, correlation : Correlations, expiresAt : Instants, acknowledged : BOOLEAN] :
          [q EXCEPT !.acknowledged = TRUE]
            \in [handle : Handles, correlation : Correlations, expiresAt : Instants, acknowledged : BOOLEAN]
      OBVIOUS
  <2> QED
      BY <2>1, <2>2 DEF Inv, TypeOK, PendingType
<1>11. ASSUME ReadVerified PROVE PendingType'
    BY <1>11 DEF Inv, TypeOK, PendingType, ReadVerified, Receive, Reading, ReaderFails, Fail
<1> QED
    BY AssignCases, <1>1, <1>2, <1>3, <1>4, <1>5, <1>6, <1>7, <1>8, <1>9, <1>10, <1>11
       DEF Next, CloseStep, AssignStep, ReaderStep, ChildStep, vars

\* writeMu is held by one writer at a time.
LEMMA NextWriteLock == Inv /\ [Next]_vars => WriteLock'
<1> SUFFICES ASSUME Inv, [Next]_vars PROVE WriteLock'
    OBVIOUS
<1> USE DEF broker, session, sequences, socket, endpoint, history
<1>1. CASE UNCHANGED <<caller, writing>>
    BY <1>1 DEF Inv, TypeOK, WriteLock
<1>2. CASE CloseGate \/ CloseDone \/ CloseDeactivate \/ CloseConn
    BY <1>2, <1>1 DEF CloseGate, CloseDone, CloseDeactivate, BrokerCleared, CloseConn
<1>3. CASE (\E c \in Callers, a \in Assignments : AssignDuplicate(c, a))
             \/ (\E c \in Callers, h \in Handles : AssignInvalid(c, h))
    BY <1>3, <1>1 DEF AssignDuplicate, AssignInvalid
<1>4. CASE ReadError \/ ReaderEnds \/ ReadOpen \/ ReadVerified \/ DeliverLookup
             \/ Deliver \/ OwnerStep \/ (\E a \in brokerPending : BrokerExpire(a))
    BY <1>4, <1>1 DEF BrokerExpire, ReadError, ReaderFails, Fail, ReaderEnds, ReadOpen,
       Receive, BrokerCleared, ReadVerified, DeliverLookup, Deliver, Consume, OwnerStep
<1>5. CASE ChildRead \/ ChildEOF \/ ChildAck \/ ChildEmit \/ ChildClaim \/ ChildSend
             \/ ChildClear \/ ChildDies \/ Tick
             \/ (\E h \in Handles : ChildOpen(h) \/ ChildClose(h))
             \/ (\E a \in assignments : ChildExpire(a))
    BY <1>5, <1>1 DEF ChildOpen, CloseTransport, Send, ChildClose, ForgetHandle, Forget,
       ChildRead, ChildEOF, ChildAck, ReaderWrites, ChildEmit, ChildClaim, ChildSend,
       ChildClear, ChildExpire, ChildDies, Tick
<1>6. ASSUME CloseClear PROVE WriteLock'
    BY <1>6 DEF Inv, ShapeInv, CallerShape, TypeOK, WriteLock, CloseClear, Notify
<1>7. ASSUME NEW c \in Callers, NEW a \in Assignments, AssignGranted(c, a) PROVE WriteLock'
    BY <1>7 DEF Inv, ShapeInv, CallerShape, TypeOK, WriteLock, AssignGranted
<1>8. ASSUME NEW c \in Callers, AssignEnter(c) PROVE WriteLock'
    BY <1>8 DEF Inv, ShapeInv, CallerShape, TypeOK, WriteLock, AssignEnter, Goto
<1>9. ASSUME NEW c \in Callers, AssignInsert(c) PROVE WriteLock'
    BY <1>9 DEF Inv, ShapeInv, CallerShape, TypeOK, WriteLock, AssignInsert, Goto
<1>10. ASSUME NEW c \in Callers, AssignWrite(c) PROVE WriteLock'
    BY <1>10 DEF Inv, ShapeInv, CallerShape, TypeOK, WriteLock, AssignWrite, Goto,
       Fail
<1>11. ASSUME NEW c \in Callers, AssignFailed(c) PROVE WriteLock'
    BY <1>11 DEF Inv, ShapeInv, CallerShape, TypeOK, WriteLock, AssignFailed, Goto
<1>11a. ASSUME NEW c \in Callers, AssignLock(c) PROVE WriteLock'
    BY <1>11a DEF Inv, ShapeInv, CallerShape, TypeOK, WriteLock, AssignLock, Goto
<1>12. ASSUME NEW c \in Callers, AssignSelect(c) PROVE WriteLock'
    BY <1>12 DEF Inv, ShapeInv, CallerShape, TypeOK, WriteLock, AssignSelect,
       Goto, IdleCaller
<1>13. ASSUME NEW c \in Callers, AssignRemove(c) PROVE WriteLock'
    BY <1>13 DEF Inv, ShapeInv, CallerShape, TypeOK, WriteLock, AssignRemove, Goto
<1>14. ASSUME NEW c \in Callers, AssignClose(c) PROVE WriteLock'
    BY <1>14 DEF Inv, ShapeInv, CallerShape, TypeOK, WriteLock, AssignClose,
       IdleCaller
<1>15. ASSUME NEW p \in pending, expirePending(p) PROVE WriteLock'
    BY <1>15 DEF Inv, ShapeInv, CallerShape, TypeOK, WriteLock, expirePending,
       Notify
<1>16. ASSUME ReadACK PROVE WriteLock'
    BY <1>16 DEF Inv, ShapeInv, CallerShape, TypeOK, WriteLock, ReadACK, Receive,
       Reading, ReaderFails, Fail, Notify
<1> QED
    BY AssignCases, <1>1, <1>2, <1>3, <1>4, <1>5, <1>6, <1>7, <1>8, <1>9, <1>10, <1>11, <1>11a,
       <1>12, <1>13, <1>14, <1>15, <1>16
       DEF Next, CloseStep, AssignStep, ReaderStep, ChildStep, vars

\* A child that answers one assignment at a time holds at most one.
LEMMA ChildHoldsOne ==
    ASSUME NEW held, NEW a, held \subseteq {a}
    PROVE  Cardinality(held) <= 1
<1>1. CASE held = {}
    BY <1>1, FS_EmptySet
<1>2. CASE held = {a}
  <2>1. Cardinality({a}) = 1
      BY FS_Singleton
  <2> QED
      BY <1>2, <2>1
<1> QED
    BY <1>1, <1>2

\* All fields keep their types.
LEMMA NextType == Inv /\ [Next]_vars => TypeOK'
<1> SUFFICES ASSUME Inv, [Next]_vars PROVE TypeOK'
    OBVIOUS
<1>1. BrokerType' /\ StateType' /\ PendingType'
    BY NextBroker, NextState, NextPending
<1>2. CallerShape' /\ ReaderShape' /\ AnswerShape' /\ ChildInv'
    BY NextCaller, NextReader, NextAnswer, NextChild
<1>3. CallerType'
    BY <1>2 DEF CallerShape, CallerSteps, CallerType
<1>4. assignments' \subseteq Assignments
    BY <1>2 DEF AnswerShape, AnswerSteps, ChildInv
<1>5. correlations' \subseteq Correlations \X Handles
    BY <1>2, <1>4, RecordFacts DEF ChildInv, ChildMapsAgree
<1>6. Cardinality(assignments') <= 1
    BY <1>2, ChildHoldsOne DEF ChildInv
<1>7. EndpointType'
    BY <1>1, <1>2, <1>4, <1>5, <1>6 DEF EndpointType, StateType, AnswerShape, AnswerSteps
<1> QED
    BY <1>1, <1>2, <1>3, <1>7, NextWriteLock DEF TypeOK, BrokerType, StateType, ReaderShape, ReaderSteps

----------------------------------------------------------------------------
(***************************************************************************)
(* The inductive invariant.                                                *)
(***************************************************************************)
\* A session that has just been started satisfies it.
LEMMA InitInv == Init => Inv
<1> SUFFICES ASSUME Init PROVE Inv
    OBVIOUS
<1>1. /\ caller = [c \in Callers |-> IdleCaller] /\ \A c \in Callers : caller[c].pc = "idle"
      /\ reader.pc = "read" /\ childReader.pc = "read"
      /\ toChild = <<>> /\ toParent = <<>> /\ Len(toChild) = 0 /\ Len(toParent) = 0
      /\ pending = {} /\ frames = <<>> /\ published = {} /\ refused = {} /\ writing = {} /\ brokerHandles = {} /\ brokerPending = {}
      /\ assignments = {} /\ correlations = {} /\ connections = {} /\ reported = {}
      /\ closing = "open" /\ closeErr = "none" /\ child = "running" /\ childErr = "none"
      /\ owner = "select" /\ brokerActive = TRUE
      /\ writeSequence = 0 /\ readSequence = 1 /\ childRead = 1 /\ childWrite = 1 /\ clock = 0
    BY DEF Init, IdleCaller, Listening, published
<1>2. ShapeInv
  <2>1. CallerShape
      BY <1>1 DEF CallerShape, CallerSteps, IdleCaller
  <2>2. ReaderShape
      BY RecordFacts DEF Init, ReaderShape, ReaderSteps, Listening
  <2>3. AnswerShape
      BY DEF Init, AnswerShape, AnswerSteps
  <2>4. SocketShape /\ HistoryShape
      BY <1>1, RecordFacts DEF SocketShape, HistoryShape
  <2> QED
      BY <2>1, <2>2, <2>3, <2>4 DEF ShapeInv
<1>3. ChildInv
    BY <1>1 DEF ChildInv, ChildMapsAgree
<1>4. TypeOK
  <2>1. Cardinality(assignments) <= 1
      BY <1>3, ChildHoldsOne DEF ChildInv
  <2>2. CallerType
      BY <1>1, <1>2 DEF CallerType, ShapeInv, CallerShape, CallerSteps
  <2> QED
      BY <1>1, <2>1, <2>2 DEF TypeOK, WriteLock, PendingType, EndpointType
<1>5. CloseInv /\ SequenceInv /\ HonestPeers
    BY <1>1 DEF CloseInv, SequenceInv, HonestPeers
<1>6. ~ \E a : Carried(a)
    BY <1>1 DEF Carried, AnswerSteps
<1>7. OpenInv /\ OnceInv
    BY <1>1, <1>6 DEF OpenInv, OnceInv, Announced
<1>8. StageInv
    BY <1>1 DEF StageInv, Unwritten, Requested, Answering, Replying, Acking, Nacking,
       Acknowledged, AnswerSteps
<1>9. UniqueInv /\ FrameInv
    BY <1>1 DEF UniqueInv, OneCaller, OneEntry, OneRequest, OneAck, FrameInv
<1>10. RefusedInv /\ DeliverInv
    BY <1>1 DEF RefusedInv, DeliverInv, PublishedAsProduced
<1> QED
    BY <1>2, <1>3, <1>4, <1>5, <1>7, <1>8, <1>9, <1>10 DEF Inv

\* It is inductive.
LEMMA Invariant == Spec => []Inv
<1>1. Inv /\ [Next]_vars => Inv'
  <2> SUFFICES ASSUME Inv, [Next]_vars PROVE Inv'
      OBVIOUS
  <2>1. TypeOK' /\ ShapeInv'
      BY NextType, NextCaller, NextReader, NextAnswer, NextSocket, NextHistory DEF ShapeInv
  <2>2. ChildInv' /\ CloseInv' /\ SequenceInv' /\ HonestPeers'
      BY NextChild, NextClose, NextSequence, NextHonest
  <2>3. OpenInv' /\ OnceInv' /\ StageInv'
      BY NextOpen, NextOnce, NextStage
  <2>4. UniqueInv' /\ FrameInv'
      BY NextOneCaller, NextOneEntry, NextOneRequest, NextOneAck, NextFrame DEF UniqueInv
  <2>5. RefusedInv' /\ DeliverInv'
      BY NextRefused, NextDeliver
  <2> QED
      BY <2>1, <2>2, <2>3, <2>4, <2>5 DEF Inv
<1> QED
    BY InitInv, <1>1, PTL DEF Spec

----------------------------------------------------------------------------
(***************************************************************************)
(* The theorems.                                                           *)
(***************************************************************************)
\* The broker, the session and the child keep their fields in their types, and
\* the child never holds two assignments.
THEOREM SessionTypeCorrect == Spec => []TypeOK
<1>1. Inv => TypeOK
    BY DEF Inv
<1> QED
    BY Invariant, <1>1, PTL

\* readLoop and readAssignment never accuse a correct peer: no packet is out of
\* sequence, acknowledged twice or verified before its acknowledgement.
THEOREM PeersTrusted == Spec => []HonestPeers
<1>1. Inv => HonestPeers
    BY DEF Inv
<1> QED
    BY Invariant, <1>1, PTL

\* wait wipes the key when no goroutine and no entry can use it any more,
\* whatever assigns were under way when the session failed.
THEOREM KeyWipedLast == Spec => []WipedKeyUnused
<1>1. Inv => WipedKeyUnused
  <2> SUFFICES ASSUME Inv, owner = "wiped"
               PROVE  reader.pc = "ended" /\ closing = "closed" /\ InFlight = {} /\ pending = {}
      BY DEF WipedKeyUnused
  <2>1. reader.pc = "ended" /\ closing = "closed" /\ InFlight = {}
      BY DEF Inv, CloseInv
  <2>2. \A c \in Callers : caller[c].pc \notin {"write", "failing", "remove"}
      BY <2>1 DEF InFlight
  <2> QED
      BY <2>1, <2>2 DEF Inv, CloseInv
<1> QED
    BY Invariant, <1>1, PTL

\* deliver publishes a frame under the correlation and the lifetime for which
\* the child produced it.
THEOREM FramesAsProduced == Spec => []PublishedAsProduced
<1>1. Inv => PublishedAsProduced
    BY DEF Inv, DeliverInv
<1> QED
    BY Invariant, <1>1, PTL

\* The child's assignments and correlations describe the same assignments.
THEOREM ChildMapsInStep == Spec => []ChildMapsAgree
<1>1. Inv => ChildMapsAgree
    BY DEF Inv, ChildInv
<1> QED
    BY Invariant, <1>1, PTL

\* What assign refused is published only when it expired or the session ended.
THEOREM RefusalsHonoured == Spec => []RefusedNotPublished
<1>1. Inv => RefusedNotPublished
  <2> SUFFICES ASSUME Inv, NEW p \in published, p.for \in refused
               PROVE  clock >= p.for.expiresAt \/ closing # "open"
      BY DEF RefusedNotPublished
  <2>1. Framed(p.for.handle)
      BY DEF Framed
  <2>2. Lost(p.for)
      BY DEF Inv, RefusedInv
  <2> QED
      BY <2>1, <2>2 DEF Lost, Rejected, Over
<1> QED
    BY Invariant, <1>1, PTL
==============================================================================
