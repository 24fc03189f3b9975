-------------------- MODULE SubprocessIngressRefinement --------------------
(***************************************************************************)
(* The session, the socket and the child together implement HandOff: every *)
(* step is, for the connections of the child, a step HandOff allows or no  *)
(* step at all.                                                            *)
(***************************************************************************)
EXTENDS SubprocessIngressProofs, SequenceTheorems

----------------------------------------------------------------------------
(***************************************************************************)
(* What HandOff sees of the session.                                       *)
(***************************************************************************)
\* The connections that the broker has not heard of and may still hear of.
Unknown == {h \in Handles : h \notin reported \/ Announced(h)}
Bound == {a.handle : a \in brokerPending}
PublishedTo == {p.to.handle : p \in published}

\* The broker's maps agree; what was published is over; and a broker that is
\* not active holds nothing, which is so before the socket is closed.
MapInv ==
    /\ Bound \subseteq brokerHandles
    /\ \A a, b \in brokerPending : a.handle = b.handle \/ a.correlation = b.correlation => a = b
    /\ PublishedTo \cap (brokerHandles \cup Unknown) = {}
    /\ PublishedTo \cup Bound \subseteq Handles
ActiveInv ==
    /\ ~brokerActive => brokerHandles = {} /\ brokerPending = {}
    /\ closing \in {"done", "conn", "clear", "closed"} => ~brokerActive

\* The kinds of steps.
Unseen == UNCHANGED <<brokerHandles, brokerPending, frames>> /\ Unknown' = Unknown
Removal(S) ==
    /\ brokerHandles' = brokerHandles \ S
    /\ brokerPending' = {p \in brokerPending : p.handle \notin S}
    /\ UNCHANGED frames /\ Unknown' = Unknown
Ending(S) ==
    /\ brokerHandles' = {} /\ brokerPending' = {}
    /\ UNCHANGED frames /\ Unknown' = Unknown \ S
Reporting(h) ==
    /\ h \in Unknown /\ Unknown' = Unknown \ {h}
    /\ brokerHandles' = brokerHandles \cup {h}
    /\ UNCHANGED <<brokerPending, frames>>
Binding(a) ==
    /\ a.handle \in brokerHandles
    /\ \A p \in brokerPending : p.handle # a.handle /\ p.correlation # a.correlation
    /\ brokerPending' = brokerPending \cup {a}
    /\ UNCHANGED <<brokerHandles, frames>> /\ Unknown' = Unknown
Publishing(p) ==
    /\ p \in brokerPending
    /\ brokerPending' = brokerPending \ {p} /\ brokerHandles' = brokerHandles \ {p.handle}
    /\ \E a \in Assignments : frames' = Append(frames, [to |-> p, for |-> a])
    /\ Unknown' = Unknown

Effect ==
    \/ Unseen
    \/ \E S \in SUBSET Handles : Removal(S)
    \/ \E S \in SUBSET Unknown : Ending(S)
    \/ \E h \in Handles : Reporting(h)
    \/ \E a \in Assignments : Binding(a)
    \/ \E p \in Assignments : Publishing(p)

\* A queue that keeps its reports leaves the broker to hear of the same.
LEMMA SameUnknown ==
    ASSUME UNCHANGED <<reported, toParent>>
    PROVE  Unknown' = Unknown
BY DEF Unknown, Announced

\* Every step is of one of these kinds.
LEMMA NextEffect == (Inv /\ MapInv /\ ActiveInv) /\ [Next]_vars => Effect
<1> SUFFICES ASSUME (Inv /\ MapInv /\ ActiveInv), [Next]_vars PROVE Effect
    OBVIOUS
<1> USE DEF broker, session, sequences, socket, endpoint, history
<1>1. CASE UNCHANGED <<brokerHandles, brokerPending, frames, reported, toParent>>
    BY <1>1, SameUnknown DEF Effect, Unseen
<1>2. CASE CloseGate \/ CloseDone \/ CloseClear
    BY <1>2, <1>1 DEF CloseGate, CloseDone, CloseClear
<1>3. CASE 
             (\E c \in Callers : AssignEnter(c) \/ AssignInsert(c) \/ AssignWrite(c)
                                 \/ AssignLock(c) \/ AssignFailed(c) \/ AssignSelect(c)
                                 \/ AssignRemove(c))
    BY <1>3, <1>1 DEF AssignEnter, AssignInsert, AssignWrite, Fail, AssignLock, AssignFailed,
       AssignSelect, AssignRemove
<1>4. CASE ReadError \/ ReaderEnds \/ DeliverLookup \/ OwnerStep
             \/ (\E p \in pending : expirePending(p))
    BY <1>4, <1>1 DEF expirePending, ReadError, ReaderFails, Fail, ReaderEnds,
       DeliverLookup, OwnerStep
<1>5. CASE ChildRead \/ ChildEOF \/ ChildEmit \/ ChildClaim \/ ChildClear \/ ChildDies
             \/ Tick \/ (\E h \in Handles : ChildClose(h))
             \/ (\E a \in assignments : ChildExpire(a))
    BY <1>5, <1>1 DEF ChildClose, ForgetHandle, Forget, ChildRead, CloseTransport, ChildEOF,
       ChildEmit, ChildClaim, ChildClear, ChildExpire, ChildDies, Tick
<1>6. ASSUME CloseDeactivate PROVE Effect
  <2>1. Unknown' = Unknown /\ UNCHANGED frames
      BY <1>6, SameUnknown DEF CloseDeactivate
  <2>2. Ending({})
      BY <1>6, <2>1 DEF CloseDeactivate, BrokerCleared, Ending
  <2> QED
      BY <2>2 DEF Effect
<1>7. ASSUME CloseConn PROVE Effect
  <2>1. brokerHandles = {} /\ brokerPending = {}
      BY <1>7 DEF CloseConn, ActiveInv
  <2>2. /\ UNCHANGED <<brokerHandles, brokerPending, frames, reported>> /\ Len(toParent') = 0
      BY <1>7 DEF CloseConn
  <2>3. Unknown' \subseteq Unknown
      BY <2>2 DEF Unknown, Announced
  <2>4. Ending(Unknown \ Unknown')
      BY <2>1, <2>2, <2>3 DEF Ending
  <2>5. Unknown \ Unknown' \in SUBSET Unknown
      OBVIOUS
  <2> QED
      BY <2>4, <2>5 DEF Effect
<1>8. ASSUME NEW c \in Callers, NEW a \in Assignments, AssignGranted(c, a) PROVE Effect
  <2>1. Unknown' = Unknown
      BY <1>8, SameUnknown DEF AssignGranted
  <2>2. Binding(a)
      BY <1>8, <2>1 DEF AssignGranted, Binding
  <2> QED
      BY <2>2 DEF Effect
<1>9. ASSUME NEW c \in Callers, NEW a \in Assignments, AssignDuplicate(c, a) PROVE Effect
  <2>1. Unknown' = Unknown
      BY <1>9, SameUnknown DEF AssignDuplicate
  <2> DEFINE clash == {p \in brokerPending : p.handle = a.handle \/ p.correlation = a.correlation}
             S == {a.handle} \cup {p.handle : p \in clash}
  <2>2. brokerHandles' = brokerHandles \ S /\ brokerPending' = brokerPending \ clash /\ UNCHANGED frames
      BY <1>9 DEF AssignDuplicate
  <2>3. brokerPending \ clash = {p \in brokerPending : p.handle \notin S}
      BY DEF MapInv
  <2>4. S \in SUBSET Handles
      BY RecordFacts DEF Inv, TypeOK
  <2>5. Removal(S)
      BY <2>1, <2>2, <2>3 DEF Removal
  <2> QED
      BY <2>4, <2>5 DEF Effect
<1>9a. ASSUME NEW c \in Callers, NEW h \in Handles, AssignInvalid(c, h) PROVE Effect
  <2>1. Unknown' = Unknown
      BY <1>9a, SameUnknown DEF AssignInvalid
  <2>2. Removal({h})
      BY <1>9a, <2>1 DEF AssignInvalid, Removal
  <2> QED
      BY <2>2 DEF Effect
<1>10. ASSUME NEW c \in Callers, AssignClose(c) PROVE Effect
  <2>1. Unknown' = Unknown
      BY <1>10, SameUnknown DEF AssignClose
  <2>2. caller[c].a.handle \in Handles
      BY <1>10, RecordFacts DEF AssignClose, Inv, ShapeInv, CallerShape
  <2>3. Removal({caller[c].a.handle})
      BY <1>10, <2>1 DEF AssignClose, Removal
  <2> QED
      BY <2>2, <2>3 DEF Effect
<1>11. ASSUME NEW a \in brokerPending, BrokerExpire(a) PROVE Effect
  <2>1. Unknown' = Unknown
      BY <1>11, SameUnknown DEF BrokerExpire
  <2>2. a.handle \in Handles
      BY RecordFacts DEF Inv, TypeOK
  <2>3. brokerPending \ {a} = {p \in brokerPending : p.handle \notin {a.handle}}
      BY DEF MapInv
  <2>4. Removal({a.handle})
      BY <1>11, <2>1, <2>3 DEF BrokerExpire, Removal
  <2> QED
      BY <2>2, <2>4 DEF Effect
<1>12. ASSUME ReadOpen PROVE Effect
  <2>1. ASSUME NEW i \in 1 .. Len(toParent')
        PROVE  toParent'[i] = toParent[i + 1] /\ i + 1 \in 1 .. Len(toParent)
      BY <1>12, ReceiveFacts DEF ReadOpen
  <2>2. ASSUME NEW i \in 1 .. Len(toParent), i # 1
        PROVE  i - 1 \in 1 .. Len(toParent') /\ toParent'[i - 1] = toParent[i]
    <3>1. i - 1 \in 1 .. Len(toParent') /\ (i - 1) + 1 = i
      <4>1. Len(toParent') = Len(toParent) - 1 /\ Len(toParent) \in Nat
          BY <1>12, ReceiveFacts DEF ReadOpen, Inv, ShapeInv, SocketShape
      <4> QED
          BY <2>2, <4>1
    <3> QED
        BY <2>1, <3>1
  <2>3. 1 \in 1 .. Len(toParent) /\ Head(toParent) = toParent[1] /\ toParent[1].type = "open"
      BY <1>12, ReceiveFacts DEF ReadOpen
  <2>4. PICK h \in Handles : h = toParent[1].a.handle
      BY <1>12, <2>3, HeadFacts DEF ReadOpen, Receive, Reading
  <2>5. Announced(h) /\ ~Announced(h)' /\ h \in reported
    <3>1. Announced(h)
        BY <2>3, <2>4 DEF Announced
    <3>2. ASSUME NEW i \in 1 .. Len(toParent')
          PROVE  ~(toParent'[i].type = "open" /\ toParent'[i].a.handle = h)
      <4>1. toParent'[i] = toParent[i + 1] /\ i + 1 \in 1 .. Len(toParent) /\ i + 1 # 1
          BY <2>1
      <4> QED
          BY <2>3, <2>4, <4>1 DEF Inv, OpenInv
    <3> QED
        BY <2>4, <3>1, <3>2 DEF Inv, OpenInv, Announced
  <2>6. ASSUME NEW g \in Handles, g # h PROVE Announced(g)' <=> Announced(g)
    <3>1. ASSUME NEW i \in 1 .. Len(toParent'), toParent'[i].type = "open", toParent'[i].a.handle = g
          PROVE  Announced(g)
        BY <2>1, <3>1 DEF Announced
    <3>2. ASSUME NEW i \in 1 .. Len(toParent), toParent[i].type = "open", toParent[i].a.handle = g
          PROVE  Announced(g)'
      <4>1. i # 1
          BY <2>3, <2>4, <2>6, <3>2
      <4> QED
          BY <2>2, <3>2, <4>1 DEF Announced
    <3> QED
        BY <3>1, <3>2 DEF Announced
  <2>7. UNCHANGED <<reported, frames>>
      BY <1>12 DEF ReadOpen
  <2>8. h \in Unknown /\ Unknown' = Unknown \ {h}
      BY <2>4, <2>5, <2>6, <2>7 DEF Unknown
  <2>9. \/ brokerHandles' = brokerHandles \cup {h} /\ UNCHANGED brokerPending
        \/ brokerHandles' = {} /\ brokerPending' = {}
      BY <1>12, <2>3, <2>4 DEF ReadOpen, BrokerCleared
  <2>10. Reporting(h) \/ Ending({h})
      BY <2>7, <2>8, <2>9 DEF Reporting, Ending
  <2> QED
      BY <2>4, <2>8, <2>10 DEF Effect
<1>13. ASSUME ReadACK PROVE Effect
  <2>1. ASSUME NEW i \in 1 .. Len(toParent')
        PROVE  toParent'[i] = toParent[i + 1] /\ i + 1 \in 1 .. Len(toParent)
      BY <1>13, ReceiveFacts DEF ReadACK
  <2>2. ASSUME NEW i \in 1 .. Len(toParent), i # 1
        PROVE  i - 1 \in 1 .. Len(toParent') /\ toParent'[i - 1] = toParent[i]
    <3>1. i - 1 \in 1 .. Len(toParent') /\ (i - 1) + 1 = i
      <4>1. Len(toParent') = Len(toParent) - 1 /\ Len(toParent) \in Nat
          BY <1>13, ReceiveFacts DEF ReadACK, Inv, ShapeInv, SocketShape
      <4> QED
          BY <2>2, <4>1
    <3> QED
        BY <2>1, <3>1
  <2>3. 1 \in 1 .. Len(toParent) /\ Head(toParent) = toParent[1] /\ toParent[1].type = "ack"
      BY <1>13, ReceiveFacts DEF ReadACK
  <2>4. UNCHANGED <<brokerHandles, brokerPending, reported, frames>>
      BY <1>13 DEF ReadACK
  <2>5. ASSUME NEW g \in Handles PROVE Announced(g)' <=> Announced(g)
    <3>1. ASSUME NEW i \in 1 .. Len(toParent'), toParent'[i].type = "open", toParent'[i].a.handle = g
          PROVE  Announced(g)
        BY <2>1, <3>1 DEF Announced
    <3>2. ASSUME NEW i \in 1 .. Len(toParent), toParent[i].type = "open", toParent[i].a.handle = g
          PROVE  Announced(g)'
      <4>1. i # 1
          BY <2>3, <3>2
      <4> QED
          BY <2>2, <3>2, <4>1 DEF Announced
    <3> QED
        BY <3>1, <3>2 DEF Announced
  <2>6. Unseen
      BY <2>4, <2>5 DEF Unseen, Unknown
  <2> QED
      BY <2>6 DEF Effect
<1>14. ASSUME ReadVerified PROVE Effect
  <2>1. ASSUME NEW i \in 1 .. Len(toParent')
        PROVE  toParent'[i] = toParent[i + 1] /\ i + 1 \in 1 .. Len(toParent)
      BY <1>14, ReceiveFacts DEF ReadVerified
  <2>2. ASSUME NEW i \in 1 .. Len(toParent), i # 1
        PROVE  i - 1 \in 1 .. Len(toParent') /\ toParent'[i - 1] = toParent[i]
    <3>1. i - 1 \in 1 .. Len(toParent') /\ (i - 1) + 1 = i
      <4>1. Len(toParent') = Len(toParent) - 1 /\ Len(toParent) \in Nat
          BY <1>14, ReceiveFacts DEF ReadVerified, Inv, ShapeInv, SocketShape
      <4> QED
          BY <2>2, <4>1
    <3> QED
        BY <2>1, <3>1
  <2>3. 1 \in 1 .. Len(toParent) /\ Head(toParent) = toParent[1] /\ toParent[1].type = "verified"
      BY <1>14, ReceiveFacts DEF ReadVerified
  <2>4. UNCHANGED <<brokerHandles, brokerPending, reported, frames>>
      BY <1>14 DEF ReadVerified
  <2>5. ASSUME NEW g \in Handles PROVE Announced(g)' <=> Announced(g)
    <3>1. ASSUME NEW i \in 1 .. Len(toParent'), toParent'[i].type = "open", toParent'[i].a.handle = g
          PROVE  Announced(g)
        BY <2>1, <3>1 DEF Announced
    <3>2. ASSUME NEW i \in 1 .. Len(toParent), toParent[i].type = "open", toParent[i].a.handle = g
          PROVE  Announced(g)'
      <4>1. i # 1
          BY <2>3, <3>2
      <4> QED
          BY <2>2, <3>2, <4>1 DEF Announced
    <3> QED
        BY <3>1, <3>2 DEF Announced
  <2>6. Unseen
      BY <2>4, <2>5 DEF Unseen, Unknown
  <2> QED
      BY <2>6 DEF Effect
<1>15. ASSUME Deliver PROVE Effect
  <2> DEFINE found == {p \in brokerPending : p.correlation = reader.a.correlation}
  <2>1. Unknown' = Unknown
      BY <1>15, SameUnknown DEF Deliver
  <2>2. reader.a \in Assignments
      BY <1>15 DEF Deliver, Inv, ShapeInv, ReaderShape
  <2>3. \/ /\ brokerPending' = brokerPending \ found
           /\ brokerHandles' = brokerHandles \ {p.handle : p \in found}
        \/ brokerHandles' = {} /\ brokerPending' = {} /\ UNCHANGED frames
      BY <1>15 DEF Deliver, Consume, BrokerCleared
  <2>4. \A p, q \in found : p = q
      BY DEF MapInv
  <2>5. /\ found \subseteq brokerPending
        /\ \/ UNCHANGED frames
           \/ \E p \in found : frames' = Append(frames, [to |-> p, for |-> reader.a])
      BY <1>15, DeliverFacts
  <2> HIDE DEF found
  <2>6. CASE brokerHandles' = {} /\ brokerPending' = {} /\ UNCHANGED frames
    <3>1. Ending({})
        BY <2>1, <2>6 DEF Ending
    <3> QED
        BY <3>1 DEF Effect
  <2>7. CASE /\ brokerPending' = brokerPending \ found
             /\ brokerHandles' = brokerHandles \ {p.handle : p \in found}
    <3>1. ASSUME NEW p \in found, frames' = Append(frames, [to |-> p, for |-> reader.a])
          PROVE  Effect
      <4>1. found = {p} /\ p \in brokerPending
          BY <2>4, <2>5
      <4>2. brokerPending' = brokerPending \ {p} /\ brokerHandles' = brokerHandles \ {p.handle}
          BY <2>7, <4>1
      <4>3. Publishing(p)
          BY <2>1, <2>2, <3>1, <4>1, <4>2 DEF Publishing
      <4>4. p \in Assignments
          BY <4>1 DEF Inv, TypeOK
      <4> QED
          BY <4>3, <4>4 DEF Effect
    <3>2. ASSUME UNCHANGED frames PROVE Effect
      <4> DEFINE S == {p.handle : p \in found}
      <4>1. brokerPending \ found = {p \in brokerPending : p.handle \notin S}
          BY <2>5 DEF MapInv
      <4>2. Removal(S)
          BY <2>1, <2>7, <3>2, <4>1 DEF Removal
      <4>3. S \in SUBSET Handles
          BY <2>5, RecordFacts DEF Inv, TypeOK
      <4> QED
          BY <4>2, <4>3 DEF Effect
    <3> QED
        BY <2>5, <3>1, <3>2
  <2> QED
      BY <2>3, <2>6, <2>7
<1>16. ASSUME NEW h \in Handles, ChildOpen(h) PROVE Effect
  <2> DEFINE x == Packet("open", [handle |-> h], TRUE)
  <2>1. /\ UNCHANGED <<brokerHandles, brokerPending, frames>> /\ x.type = "open" /\ x.a.handle = h
        /\ h \notin reported /\ reported' = reported \cup {h}
      BY <1>16 DEF ChildOpen, Packet
  <2>2. CASE ConnOpen /\ x \in Packets /\ Send(x)
    <3> HIDE DEF x
    <3>1. /\ \A i \in 1 .. Len(toParent) : toParent'[i] = toParent[i] /\ i \in 1 .. Len(toParent')
          /\ \A i \in 1 .. Len(toParent') :
                \/ i \in 1 .. Len(toParent) /\ toParent'[i] = toParent[i]
                \/ i = Len(toParent) + 1 /\ toParent'[i] = x
          /\ toParent'[Len(toParent) + 1] = x /\ Len(toParent') = Len(toParent) + 1
          /\ Len(toParent) \in Nat
        BY <2>2, SendFacts
    <3>2. \A g \in Handles : g # h => (Announced(g)' <=> Announced(g))
        BY <2>1, <3>1 DEF Announced
    <3>3. Announced(h)'
      <4>1. Len(toParent) + 1 \in 1 .. Len(toParent')
          BY <3>1
      <4> QED
          BY <2>1, <3>1, <4>1 DEF Announced
    <3> QED
        BY <2>1, <3>2, <3>3 DEF Effect, Unseen, Unknown
  <2>3. CASE ~ConnOpen /\ UNCHANGED toParent
    <3>1. brokerHandles = {} /\ brokerPending = {}
        BY <2>3, <1>16 DEF ConnOpen, ActiveInv
    <3>2. Unknown' \subseteq Unknown
        BY <2>1, <2>3 DEF Unknown, Announced
    <3>3. Ending(Unknown \ Unknown')
        BY <2>1, <3>1, <3>2 DEF Ending
    <3>4. Unknown \ Unknown' \in SUBSET Unknown
        OBVIOUS
    <3> QED
        BY <3>3, <3>4 DEF Effect
  <2> QED
    <3>1. x \in Packets
        BY PacketFacts DEF Packet, Inv, ShapeInv, SocketShape
    <3> QED
        BY <1>16, <2>2, <2>3, <3>1 DEF ChildOpen
<1>17. ASSUME ChildAck PROVE Effect
  <2> DEFINE x == Packet("ack", childReader.a, childReader.ok)
  <2>1. UNCHANGED <<brokerHandles, brokerPending, reported, frames>> /\ x.type # "open"
      BY <1>17 DEF ChildAck, ReaderWrites, Packet
  <2>2. CASE UNCHANGED toParent
      BY <2>1, <2>2, SameUnknown DEF Effect, Unseen
  <2>3. CASE x \in Packets /\ Send(x)
    <3> HIDE DEF x
    <3>1. /\ \A i \in 1 .. Len(toParent) : toParent'[i] = toParent[i] /\ i \in 1 .. Len(toParent')
          /\ \A i \in 1 .. Len(toParent') :
                \/ i \in 1 .. Len(toParent) /\ toParent'[i] = toParent[i]
                \/ i = Len(toParent) + 1 /\ toParent'[i] = x
        BY <2>3, SendFacts
    <3>2. \A g \in Handles : Announced(g)' <=> Announced(g)
        BY <2>1, <3>1 DEF Announced
    <3> QED
        BY <2>1, <3>2 DEF Effect, Unseen, Unknown
  <2> QED
      BY <1>17, <2>2, <2>3, ChildSends
<1>18. ASSUME ChildSend PROVE Effect
  <2> DEFINE x == Packet("verified", childReader.a, childReader.ok)
  <2>1. UNCHANGED <<brokerHandles, brokerPending, reported, frames>> /\ x.type # "open"
      BY <1>18 DEF ChildSend, ReaderWrites, Packet
  <2>2. CASE UNCHANGED toParent
      BY <2>1, <2>2, SameUnknown DEF Effect, Unseen
  <2>3. CASE x \in Packets /\ Send(x)
    <3> HIDE DEF x
    <3>1. /\ \A i \in 1 .. Len(toParent) : toParent'[i] = toParent[i] /\ i \in 1 .. Len(toParent')
          /\ \A i \in 1 .. Len(toParent') :
                \/ i \in 1 .. Len(toParent) /\ toParent'[i] = toParent[i]
                \/ i = Len(toParent) + 1 /\ toParent'[i] = x
        BY <2>3, SendFacts
    <3>2. \A g \in Handles : Announced(g)' <=> Announced(g)
        BY <2>1, <3>1 DEF Announced
    <3> QED
        BY <2>1, <3>2 DEF Effect, Unseen, Unknown
  <2> QED
      BY <1>18, <2>2, <2>3, ChildSends
<1> QED
    BY AssignCases, <1>1, <1>2, <1>3, <1>4, <1>5, <1>6, <1>7, <1>8, <1>9, <1>9a, <1>10,
       <1>11, <1>12, <1>13, <1>14, <1>15, <1>16, <1>17, <1>18
       DEF Next, CloseStep, AssignStep, ReaderStep, ChildStep, vars

----------------------------------------------------------------------------
(***************************************************************************)
(* The broker's maps.                                                      *)
(***************************************************************************)
\* One more frame is one more entry of the log, and of what was published.
LEMMA LogAppends ==
    ASSUME Inv, NEW p \in Assignments, Publishing(p)
    PROVE  PublishedTo' = PublishedTo \cup {p.handle} /\ Log' = Append(Log, {p})
<1> DEFINE n == Len(frames)
           T == SUBSET Assignments
<1>1. PICK a \in Assignments : frames' = Append(frames, [to |-> p, for |-> a])
    BY DEF Publishing
<1> DEFINE x == [to |-> p, for |-> a]
<1>2. frames \in Seq([to : Assignments, for : Assignments])
    BY DEF Inv, ShapeInv, HistoryShape
<1>3. x \in [to : Assignments, for : Assignments] /\ x.to = p /\ frames' = Append(frames, x)
    BY <1>1
<1> HIDE DEF x
<1>4. /\ Len(frames') = n + 1 /\ n \in Nat
      /\ \A i \in 1 .. n : frames'[i] = frames[i] /\ frames[i].to \in Assignments
      /\ frames'[n + 1] = x
  <2>1. /\ Len(Append(frames, x)) = n + 1 /\ n \in Nat
        /\ \A i \in 1 .. n : Append(frames, x)[i] = frames[i]
        /\ Append(frames, x)[n + 1] = x
      BY <1>2, <1>3, AppendFacts
  <2>2. \A i \in 1 .. n : frames[i] \in [to : Assignments, for : Assignments]
      BY <1>2, ElementOfSeq
  <2> QED
      BY <1>3, <2>1, <2>2
<1> HIDE DEF n
<1>5. 1 .. n + 1 = (1 .. n) \cup {n + 1}
    BY <1>4
<1>6. published' = published \cup {x}
    BY <1>4, <1>5 DEF published, n
<1>7. PublishedTo' = PublishedTo \cup {p.handle}
    BY <1>3, <1>6 DEF PublishedTo
<1>8. Log \in [1 .. n -> T] /\ Log' \in [1 .. n + 1 -> T]
  <2>1. Log = [i \in 1 .. n |-> {frames[i].to}]
      BY DEF Log, n
  <2>2. Log' = [i \in 1 .. n + 1 |-> {frames'[i].to}]
      BY <1>4 DEF Log
  <2>3. \A i \in 1 .. n + 1 : {frames'[i].to} \in T
      BY <1>3, <1>4, <1>5
  <2> QED
      BY <1>4, <2>1, <2>2, <2>3
<1>9. Log \in Seq(T) /\ Log' \in Seq(T)
    BY <1>4, <1>8, SeqDef
<1>10. Len(Log) = n /\ Len(Log') = n + 1
    BY <1>4, <1>8, <1>9, LenProperties
<1>11. /\ Append(Log, {p}) \in Seq(T) /\ Len(Append(Log, {p})) = n + 1
       /\ \A i \in 1 .. n : Append(Log, {p})[i] = Log[i]
       /\ Append(Log, {p})[n + 1] = {p}
    BY <1>9, <1>10, AppendFacts
<1>12. \A i \in 1 .. n + 1 : Log'[i] = Append(Log, {p})[i]
  <2>1. \A i \in 1 .. n : Log'[i] = {frames[i].to} /\ Log[i] = {frames[i].to}
      BY <1>4, <1>5 DEF Log, n
  <2>2. Log'[n + 1] = {p}
      BY <1>3, <1>4, <1>5 DEF Log
  <2> QED
      BY <1>5, <1>11, <2>1, <2>2
<1>13. Log' = Append(Log, {p})
    BY <1>9, <1>10, <1>11, <1>12, SeqEqual
<1> QED
    BY <1>7, <1>13

\* Whoever publishes nothing leaves the log.
LEMMA LogKept ==
    ASSUME UNCHANGED frames
    PROVE  PublishedTo' = PublishedTo /\ Log' = Log
BY PublishedKept DEF PublishedTo, Log

\* A connection that can still be reported is not in the broker.
LEMMA UnknownFacts == Inv => brokerHandles \cap Unknown = {} /\ brokerHandles \subseteq Handles
BY DEF Inv, TypeOK, OpenInv, Unknown

\* No kind of step makes the maps disagree.
LEMMA EffectKeepsMaps ==
    ASSUME Inv, MapInv, Effect
    PROVE  MapInv'
<1>1. /\ brokerHandles \cap Unknown = {} /\ brokerHandles \subseteq Handles
      /\ Unknown \subseteq Handles
    BY UnknownFacts DEF Unknown
<1>2. CASE Unseen
    BY <1>2, PublishedKept DEF Unseen, MapInv, Bound, PublishedTo
<1>3. ASSUME NEW S, Removal(S) PROVE MapInv'
    BY <1>3, PublishedKept DEF Removal, MapInv, Bound, PublishedTo
<1>4. ASSUME NEW S, Ending(S) PROVE MapInv'
    BY <1>4, PublishedKept DEF Ending, MapInv, Bound, PublishedTo
<1>5. ASSUME NEW h \in Handles, Reporting(h) PROVE MapInv'
    BY <1>5, PublishedKept DEF Reporting, MapInv, Bound, PublishedTo
<1>6. ASSUME NEW a \in Assignments, Binding(a) PROVE MapInv'
    BY <1>6, PublishedKept, RecordFacts DEF Binding, MapInv, Bound, PublishedTo
<1>7. ASSUME NEW p \in Assignments, Publishing(p) PROVE MapInv'
  <2>1. p.handle \in brokerHandles
      BY <1>7 DEF Publishing, MapInv, Bound
  <2>2. PublishedTo' = PublishedTo \cup {p.handle}
      BY <1>7, LogAppends
  <2>3. Bound' = Bound \ {p.handle}
      BY <1>7 DEF Publishing, MapInv, Bound
  <2> QED
      BY <1>1, <1>7, <2>1, <2>2, <2>3 DEF Publishing, MapInv
<1> QED
    BY <1>2, <1>3, <1>4, <1>5, <1>6, <1>7 DEF Effect

\* An inactive broker is empty.
LEMMA NextActive == (Inv /\ ActiveInv) /\ [Next]_vars => ActiveInv'
<1> SUFFICES ASSUME (Inv /\ ActiveInv), [Next]_vars PROVE ActiveInv'
    OBVIOUS
<1> USE DEF broker, session, sequences, socket, endpoint, history
<1>1. CASE UNCHANGED <<brokerActive, brokerHandles, brokerPending, closing>>
    BY <1>1 DEF ActiveInv
<1>2. CASE 
             (\E c \in Callers : AssignEnter(c) \/ AssignInsert(c) \/ AssignLock(c)
                                 \/ AssignFailed(c) \/ AssignSelect(c) \/ AssignRemove(c))
    BY <1>2, <1>1 DEF AssignEnter, AssignInsert, AssignLock, AssignFailed, AssignSelect,
       AssignRemove
<1>3. CASE ReaderEnds \/ DeliverLookup \/ (\E p \in pending : expirePending(p))
    BY <1>3, <1>1 DEF expirePending, ReaderEnds, DeliverLookup
<1>4. CASE ChildRead \/ ChildEOF \/ ChildAck \/ ChildEmit \/ ChildClaim \/ ChildSend
             \/ ChildClear \/ ChildDies \/ Tick
             \/ (\E h \in Handles : ChildOpen(h) \/ ChildClose(h))
             \/ (\E a \in assignments : ChildExpire(a))
    BY <1>4, <1>1 DEF ChildOpen, CloseTransport, Send, ChildClose, ForgetHandle, Forget,
       ChildRead, ChildEOF, ChildAck, ReaderWrites, ChildEmit, ChildClaim, ChildSend,
       ChildClear, ChildExpire, ChildDies, Tick
<1>5. ASSUME CloseGate PROVE ActiveInv'
    BY <1>5 DEF ActiveInv, Inv, TypeOK, CloseGate
<1>6. ASSUME CloseDone PROVE ActiveInv'
    BY <1>6 DEF ActiveInv, Inv, TypeOK, CloseDone
<1>7. ASSUME CloseDeactivate PROVE ActiveInv'
    BY <1>7 DEF ActiveInv, Inv, TypeOK, CloseDeactivate, BrokerCleared
<1>8. ASSUME CloseConn PROVE ActiveInv'
    BY <1>8 DEF ActiveInv, Inv, TypeOK, CloseConn
<1>9. ASSUME CloseClear PROVE ActiveInv'
    BY <1>9 DEF ActiveInv, Inv, TypeOK, CloseClear, Notify
<1>10. ASSUME NEW c \in Callers, NEW a \in Assignments, AssignGranted(c, a) PROVE ActiveInv'
    BY <1>10 DEF ActiveInv, Inv, TypeOK, AssignGranted
<1>11. ASSUME NEW c \in Callers, NEW a \in Assignments, AssignDuplicate(c, a) PROVE ActiveInv'
    BY <1>11 DEF ActiveInv, Inv, TypeOK, AssignDuplicate
<1>11a. ASSUME NEW c \in Callers, NEW h \in Handles, AssignInvalid(c, h) PROVE ActiveInv'
    BY <1>11a DEF ActiveInv, Inv, TypeOK, AssignInvalid
<1>12. ASSUME NEW c \in Callers, AssignWrite(c) PROVE ActiveInv'
    BY <1>12 DEF ActiveInv, Inv, TypeOK, AssignWrite, Goto, Fail
<1>13. ASSUME NEW c \in Callers, AssignClose(c) PROVE ActiveInv'
    BY <1>13 DEF ActiveInv, Inv, TypeOK, AssignClose, IdleCaller
<1>14. ASSUME NEW a \in brokerPending, BrokerExpire(a) PROVE ActiveInv'
    BY <1>14 DEF ActiveInv, Inv, TypeOK, BrokerExpire
<1>15. ASSUME ReadError PROVE ActiveInv'
    BY <1>15 DEF ActiveInv, Inv, TypeOK, ReadError, ReaderFails, Fail
<1>16. ASSUME ReadOpen PROVE ActiveInv'
    BY <1>16 DEF ActiveInv, Inv, TypeOK, ReadOpen, Receive, Reading, BrokerCleared,
       ReaderFails, Fail
<1>17. ASSUME ReadACK PROVE ActiveInv'
    BY <1>17 DEF ActiveInv, Inv, TypeOK, ReadACK, Receive, Reading, ReaderFails, Fail,
       Notify
<1>18. ASSUME ReadVerified PROVE ActiveInv'
    BY <1>18 DEF ActiveInv, Inv, TypeOK, ReadVerified, Receive, Reading, ReaderFails, Fail
<1>19. ASSUME Deliver PROVE ActiveInv'
    BY <1>19 DEF ActiveInv, Inv, TypeOK, Deliver, Consume, Listening, BrokerCleared,
       ReaderFails, Fail
<1>20. ASSUME OwnerStep PROVE ActiveInv'
    BY <1>20 DEF ActiveInv, Inv, TypeOK, OwnerStep, Fail
<1> QED
    BY AssignCases, <1>1, <1>2, <1>3, <1>4, <1>5, <1>6, <1>7, <1>8, <1>9, <1>10, <1>11, <1>11a,
       <1>12, <1>13, <1>14, <1>15, <1>16, <1>17, <1>18, <1>19, <1>20
       DEF Next, CloseStep, AssignStep, ReaderStep, ChildStep, vars

\* The maps agree in every reachable state.
LEMMA MapsAgree == Spec => [](Inv /\ MapInv /\ ActiveInv)
<1>1. Init => MapInv /\ ActiveInv
    BY DEF Init, MapInv, ActiveInv, Bound, PublishedTo, published
<1>2. Inv /\ MapInv /\ ActiveInv /\ [Next]_vars => MapInv' /\ ActiveInv'
    BY NextEffect, EffectKeepsMaps, NextActive
<1> QED
    BY <1>1, <1>2, Invariant, PTL DEF Spec

----------------------------------------------------------------------------
(***************************************************************************)
(* The refinement mapping.                                                 *)
(***************************************************************************)
\* The phase of a connection follows from the sets above, which are disjoint.
PhaseTable ==
    \A h \in Handles :
        /\ PhaseOf(h) = "published" <=> h \in PublishedTo
        /\ PhaseOf(h) = "bound" <=> h \in Bound
        /\ PhaseOf(h) = "open" <=> h \in brokerHandles \ Bound
        /\ PhaseOf(h) = "unknown" <=> h \in Unknown
        /\ PhaseOf(h) \in {"published", "bound", "open", "unknown", "closed"}

\* A connection that is not bound has no terms.
TermsTable == \A h \in Handles : h \notin Bound => TermsOf(h) = {}

\* Every reachable state has these phases and terms.
LEMMA Mapping == Inv /\ MapInv => PhaseTable /\ TermsTable
<1> SUFFICES ASSUME Inv, MapInv PROVE PhaseTable /\ TermsTable
    OBVIOUS
<1>1. ASSUME NEW h \in Handles
      PROVE  /\ h \in Unknown <=>
                  ~(h \in reported
                    /\ \A i \in 1 .. Len(toParent) : toParent[i].type = "open" => toParent[i].a.handle # h)
             /\ h \in Bound <=> \E a \in brokerPending : a.handle = h
             /\ h \in PublishedTo <=> \E p \in published : p.to.handle = h
             /\ h \in Bound => h \in brokerHandles
             /\ h \in PublishedTo => h \notin brokerHandles /\ h \notin Unknown
             /\ h \in brokerHandles => h \notin Unknown
    BY UnknownFacts DEF Unknown, Announced, Bound, PublishedTo, MapInv
<1>2. PhaseTable
    BY <1>1 DEF PhaseTable, PhaseOf
<1>3. TermsTable
    BY DEF TermsTable, TermsOf, Bound
<1> QED
    BY <1>2, <1>3

\* While its pending entries stay the same, so do the terms of a connection.
LEMMA TermsKept ==
    ASSUME NEW h, {x \in brokerPending' : x.handle = h} = {x \in brokerPending : x.handle = h}
    PROVE  TermsOf(h)' = TermsOf(h)
BY DEF TermsOf

----------------------------------------------------------------------------
(***************************************************************************)
(* Each kind of step implements a step of HandOff.                         *)
(***************************************************************************)
\* A session that has just been started is in an initial state of HandOff.
LEMMA InitPromise == Init => Promise!Init
<1> SUFFICES ASSUME Init PROVE Promise!Init
    OBVIOUS
<1>1. /\ reported = {} /\ published = {} /\ brokerPending = {} /\ brokerHandles = {}
      /\ frames = <<>> /\ Len(frames) = 0
    BY DEF Init, published
<1>2. \A h \in Handles : PhaseOf(h) = "unknown" /\ TermsOf(h) = {}
    BY <1>1 DEF PhaseOf, TermsOf
<1>3. Log = <<>>
  <2>1. 1 .. Len(frames) = {}
      BY <1>1
  <2>2. DOMAIN Log = {} /\ Log = [i \in {} |-> {frames[i].to}]
      BY <2>1 DEF Log
  <2> QED
      BY <2>2
<1> QED
    BY <1>2, <1>3 DEF Promise!Init

\* A step that HandOff does not see.
LEMMA UnseenStutters ==
    ASSUME PhaseTable, PhaseTable', Unseen
    PROVE  UNCHANGED Promise!vars
<1>1. Bound' = Bound /\ PublishedTo' = PublishedTo /\ Log' = Log
    BY LogKept DEF Unseen, Bound
<1>2. \A o \in Handles : PhaseOf(o)' = PhaseOf(o)
    BY <1>1 DEF PhaseTable, Unseen
<1>3. \A o \in Handles : TermsOf(o)' = TermsOf(o)
    BY TermsKept DEF Unseen
<1>4. [o \in Handles |-> PhaseOf(o)]' = [o \in Handles |-> PhaseOf(o)]
    BY <1>2
<1>5. [o \in Handles |-> TermsOf(o)]' = [o \in Handles |-> TermsOf(o)]
    BY <1>3
<1> QED
    BY <1>1, <1>4, <1>5 DEF Promise!vars

\* Refused, replaced and expired connections are given up.
LEMMA RemovalDrops ==
    ASSUME Inv, MapInv, PhaseTable, PhaseTable', TermsTable', NEW S \in SUBSET Handles, Removal(S)
    PROVE  \E T \in SUBSET Promise!Live : Promise!Drop(T)
<1> DEFINE T == S \cap brokerHandles
<1>1. /\ brokerHandles' = brokerHandles \ S /\ Bound' = Bound \ S /\ PublishedTo' = PublishedTo
      /\ Unknown' = Unknown /\ Log' = Log
    BY LogKept DEF Removal, Bound
<1>2. /\ Bound \subseteq brokerHandles /\ brokerHandles \cap Unknown = {}
      /\ PublishedTo \cap brokerHandles = {} /\ brokerHandles \subseteq Handles
    BY UnknownFacts DEF MapInv
<1>3. T \in SUBSET Promise!Live
    BY <1>2 DEF PhaseTable, Promise!Live, Promise!In
<1>4. \A o \in Handles : PhaseOf(o)' = IF o \in T THEN "closed" ELSE PhaseOf(o)
    BY <1>1, <1>2 DEF PhaseTable
<1>5. ASSUME NEW o \in Handles PROVE TermsOf(o)' = IF o \in T THEN {} ELSE TermsOf(o)
  <2>1. CASE o \in T
    <3>1. o \notin Bound'
        BY <1>1, <1>2, <2>1
    <3> QED
        BY <2>1, <3>1 DEF TermsTable
  <2>2. CASE o \notin T
    <3>1. \A x \in brokerPending : x.handle = o => o \notin S
        BY <1>2, <2>2 DEF Bound
    <3>2. {x \in brokerPending' : x.handle = o} = {x \in brokerPending : x.handle = o}
        BY <3>1 DEF Removal
    <3> QED
        BY <2>2, <3>2, TermsKept
  <2> QED
      BY <2>1, <2>2
<1> HIDE DEF T
<1>6. [o \in Handles |-> PhaseOf(o)]' = Promise!Given(T)
    BY <1>4 DEF Promise!Given
<1>7. [o \in Handles |-> TermsOf(o)]' = Promise!Cleared(T)
    BY <1>5 DEF Promise!Cleared
<1> QED
    BY <1>1, <1>3, <1>6, <1>7 DEF Promise!Drop

\* When the broker is cleared everything live is given up, and so are the
\* reports that are lost with it.
LEMMA EndingEnds ==
    ASSUME Inv, MapInv, PhaseTable, PhaseTable', TermsTable', NEW S \in SUBSET Unknown, Ending(S)
    PROVE  Promise!End
<1>1. /\ brokerHandles' = {} /\ Bound' = {} /\ PublishedTo' = PublishedTo
      /\ Unknown' = Unknown \ S /\ Log' = Log
    BY LogKept DEF Ending, Bound
<1>2. /\ Bound \subseteq brokerHandles /\ brokerHandles \cap Unknown = {}
      /\ PublishedTo \cap (brokerHandles \cup Unknown) = {}
      /\ brokerHandles \subseteq Handles /\ Unknown \subseteq Handles
    BY UnknownFacts DEF MapInv, Unknown
<1>3. S \in SUBSET Promise!In("unknown")
    BY <1>2 DEF PhaseTable, Promise!In
<1>4. Promise!Live = brokerHandles
    BY <1>2 DEF PhaseTable, Promise!Live, Promise!In
<1>5. \A o \in Handles : PhaseOf(o)' = IF o \in S \cup brokerHandles THEN "closed" ELSE PhaseOf(o)
    BY <1>1, <1>2 DEF PhaseTable
<1>6. ASSUME NEW o \in Handles PROVE TermsOf(o)' = IF o \in brokerHandles THEN {} ELSE TermsOf(o)
  <2>1. CASE o \in brokerHandles
    <3>1. o \notin Bound'
        BY <1>1, <1>2, <2>1
    <3> QED
        BY <2>1, <3>1 DEF TermsTable
  <2>2. CASE o \notin brokerHandles
    <3>1. \A x \in brokerPending : x.handle # o
        BY <1>2, <2>2 DEF Bound
    <3>2. {x \in brokerPending' : x.handle = o} = {x \in brokerPending : x.handle = o}
        BY <3>1 DEF Ending
    <3> QED
        BY <2>2, <3>2, TermsKept
  <2> QED
      BY <2>1, <2>2
<1>7. [o \in Handles |-> PhaseOf(o)]' = Promise!Given(S \cup Promise!Live)
    BY <1>4, <1>5 DEF Promise!Given
<1>8. [o \in Handles |-> TermsOf(o)]' = Promise!Cleared(Promise!Live)
    BY <1>4, <1>6 DEF Promise!Cleared
<1> QED
    BY <1>1, <1>3, <1>7, <1>8 DEF Promise!End

\* A report that the broker takes opens a connection.
LEMMA ReportingReports ==
    ASSUME Inv, MapInv, PhaseTable, PhaseTable', NEW h \in Handles, Reporting(h)
    PROVE  Promise!Report(h)
<1>1. /\ brokerHandles' = brokerHandles \cup {h} /\ Bound' = Bound /\ PublishedTo' = PublishedTo
      /\ Unknown' = Unknown \ {h} /\ h \in Unknown /\ Log' = Log /\ UNCHANGED brokerPending
    BY LogKept DEF Reporting, Bound
<1>2. /\ Bound \subseteq brokerHandles /\ brokerHandles \cap Unknown = {}
      /\ PublishedTo \cap (brokerHandles \cup Unknown) = {}
    BY UnknownFacts DEF MapInv
<1>3. PhaseOf(h) = "unknown"
    BY <1>1 DEF PhaseTable
<1>4. \A o \in Handles : PhaseOf(o)' = IF o = h THEN "open" ELSE PhaseOf(o)
    BY <1>1, <1>2 DEF PhaseTable
<1>5. \A o \in Handles : TermsOf(o)' = TermsOf(o)
    BY <1>1, TermsKept
<1>6. [o \in Handles |-> PhaseOf(o)]' = [Promise!Given({}) EXCEPT ![h] = "open"]
    BY <1>4 DEF Promise!Given
<1>7. [o \in Handles |-> TermsOf(o)]' = [o \in Handles |-> TermsOf(o)]
    BY <1>5
<1>8. {} \in SUBSET Promise!In("open")
    OBVIOUS
<1> QED
    BY <1>1, <1>3, <1>6, <1>7, <1>8 DEF Promise!Report

\* A granted assignment binds an open connection to a correlation that no
\* other connection is bound to.
LEMMA BindingBinds ==
    ASSUME Inv, MapInv, PhaseTable, PhaseTable', NEW a \in Assignments, Binding(a)
    PROVE  \E h \in Handles : Promise!Bind(h)
<1> DEFINE term(x) == [correlation |-> x.correlation, expiresAt |-> x.expiresAt]
<1>1. PICK h \in Handles : h = a.handle
    BY RecordFacts
<1>2. PICK t \in {{x} : x \in [correlation : Correlations, expiresAt : Instants]} : t = {term(a)}
  <2>1. term(a) \in [correlation : Correlations, expiresAt : Instants]
      BY RecordFacts
  <2> QED
      BY <2>1
<1>3. /\ h \in brokerHandles /\ h \notin Bound /\ Bound' = Bound \cup {h}
      /\ brokerHandles' = brokerHandles /\ PublishedTo' = PublishedTo /\ Unknown' = Unknown
      /\ Log' = Log
    BY <1>1, LogKept DEF Binding, Bound
<1>4. /\ Bound \subseteq brokerHandles /\ PublishedTo \cap brokerHandles = {}
    BY DEF MapInv
<1>5. PhaseOf(h) = "open"
    BY <1>3 DEF PhaseTable
<1>6. ASSUME NEW o \in Handles, PhaseOf(o) = "bound"
      PROVE  {x.correlation : x \in TermsOf(o)} # {x.correlation : x \in t}
  <2>1. PICK p \in brokerPending : p.handle = o
      BY <1>6 DEF PhaseTable, Bound
  <2>2. term(p) \in TermsOf(o)
      BY <2>1 DEF TermsOf
  <2>3. p.correlation \in {x.correlation : x \in TermsOf(o)}
      BY <2>2
  <2>4. {x.correlation : x \in t} = {a.correlation}
      BY <1>2, ElementOfSeq
  <2>5. p.correlation # a.correlation
      BY <2>1 DEF Binding
  <2> QED
      BY <2>3, <2>4, <2>5
<1>7. \A o \in Handles : PhaseOf(o)' = IF o = h THEN "bound" ELSE PhaseOf(o)
    BY <1>3, <1>4 DEF PhaseTable
<1>8. brokerPending' = brokerPending \cup {a}
    BY DEF Binding
<1>9. ASSUME NEW o \in Handles PROVE TermsOf(o)' = IF o = h THEN t ELSE TermsOf(o)
  <2>1. CASE o = h
    <3>1. \A x \in brokerPending : x.handle # h
        BY <1>3 DEF Bound
    <3>2. {x \in brokerPending' : x.handle = o} = {a}
        BY <1>1, <1>8, <2>1, <3>1
    <3>3. TermsOf(o)' = {term(x) : x \in {x \in brokerPending' : x.handle = o}}
        BY DEF TermsOf
    <3> QED
        BY <1>2, <2>1, <3>2, <3>3
  <2>2. CASE o # h
    <3>1. {x \in brokerPending' : x.handle = o} = {x \in brokerPending : x.handle = o}
        BY <1>1, <1>8, <2>2
    <3> QED
        BY <2>2, <3>1, TermsKept
  <2> QED
      BY <2>1, <2>2
<1>10. [o \in Handles |-> PhaseOf(o)]' = [[o \in Handles |-> PhaseOf(o)] EXCEPT ![h] = "bound"]
    BY <1>7
<1>11. [o \in Handles |-> TermsOf(o)]' = [[o \in Handles |-> TermsOf(o)] EXCEPT ![h] = t]
    BY <1>9
<1>12. Promise!Bind(h)
    BY <1>2, <1>3, <1>5, <1>6, <1>10, <1>11 DEF Promise!Bind, Promise!In
<1> QED
    BY <1>12

\* A published frame is that of a bound connection, shows the terms it is
\* bound with, and ends the binding.
LEMMA PublishingPublishes ==
    ASSUME Inv, MapInv, PhaseTable, PhaseTable', TermsTable', NEW p \in Assignments, Publishing(p)
    PROVE  \E h \in Handles : Promise!Publish(h)
<1>1. PICK h \in Handles : h = p.handle
    BY RecordFacts
<1>2. Log' = Append(Log, {p}) /\ PublishedTo' = PublishedTo \cup {h}
    BY <1>1, LogAppends
<1>3. /\ h \in Bound /\ Bound' = Bound \ {h}
      /\ brokerHandles' = brokerHandles \ {h} /\ Unknown' = Unknown
    BY <1>1 DEF Publishing, Bound, MapInv
<1>4. PhaseOf(h) = "bound"
    BY <1>3 DEF PhaseTable
<1>5. \A o \in Handles : PhaseOf(o)' = IF o = h THEN "published" ELSE PhaseOf(o)
    BY <1>2, <1>3 DEF PhaseTable
<1>6. ASSUME NEW o \in Handles PROVE TermsOf(o)' = IF o = h THEN {} ELSE TermsOf(o)
  <2>1. CASE o = h
      BY <1>3, <2>1 DEF TermsTable
  <2>2. CASE o # h
    <3>1. {x \in brokerPending' : x.handle = o} = {x \in brokerPending : x.handle = o}
        BY <1>1, <2>2 DEF Publishing
    <3> QED
        BY <2>2, <3>1, TermsKept
  <2> QED
      BY <2>1, <2>2
<1>7. {[handle |-> h, correlation |-> x.correlation, expiresAt |-> x.expiresAt] : x \in TermsOf(h)} = {p}
  <2>1. {x \in brokerPending : x.handle = h} = {p}
      BY <1>1 DEF Publishing, MapInv
  <2>2. TermsOf(h) = {[correlation |-> p.correlation, expiresAt |-> p.expiresAt]}
      BY <2>1 DEF TermsOf
  <2>3. p = [handle |-> h, correlation |-> p.correlation, expiresAt |-> p.expiresAt]
      BY <1>1 DEF Assignments
  <2> QED
      BY <2>2, <2>3
<1>8. [o \in Handles |-> PhaseOf(o)]' = [[o \in Handles |-> PhaseOf(o)] EXCEPT ![h] = "published"]
    BY <1>5
<1>9. [o \in Handles |-> TermsOf(o)]' = [[o \in Handles |-> TermsOf(o)] EXCEPT ![h] = {}]
    BY <1>6
<1>10. Promise!Publish(h)
    BY <1>2, <1>4, <1>7, <1>8, <1>9 DEF Promise!Publish
<1> QED
    BY <1>10

\* Every step is a step of HandOff or none.
LEMMA NextPromise ==
    ASSUME Inv, MapInv, ActiveInv, MapInv', Inv', [Next]_vars
    PROVE  [Promise!Next]_(Promise!vars)
<1> USE DEF Promise!Next
<1>1. PhaseTable /\ TermsTable /\ PhaseTable' /\ TermsTable'
    BY Mapping, PTL
<1>2. Effect
    BY NextEffect
<1>3. CASE Unseen
    BY <1>1, <1>3, UnseenStutters
<1>4. CASE \E S \in SUBSET Handles : Removal(S)
    BY <1>1, <1>4, RemovalDrops
<1>5. CASE \E S \in SUBSET Unknown : Ending(S)
    BY <1>1, <1>5, EndingEnds
<1>6. CASE \E h \in Handles : Reporting(h)
    BY <1>1, <1>6, ReportingReports
<1>7. CASE \E a \in Assignments : Binding(a)
    BY <1>1, <1>7, BindingBinds
<1>8. CASE \E p \in Assignments : Publishing(p)
    BY <1>1, <1>8, PublishingPublishes
<1> QED
    BY <1>2, <1>3, <1>4, <1>5, <1>6, <1>7, <1>8 DEF Effect

\* The session implements HandOff: for every number of connections,
\* correlations and goroutines, whatever is on its way on the socket when an
\* assignment expires, is refused or replaced, or when a side closes or dies,
\* no connection is reported, bound or published twice, no frame shows another
\* correlation or expiry than its connection is bound with when it is
\* published, and none is revived after it was given up.  HandOff keeps every
\* frame: one that is published again would be a second entry of its log.
THEOREM SessionKeepsPromise == Spec => KeepsPromise
<1>1. /\ Inv /\ MapInv /\ ActiveInv /\ (Inv /\ MapInv /\ ActiveInv)' /\ [Next]_vars
      => [Promise!Next]_(Promise!vars)
    BY NextPromise
<1> QED
    BY <1>1, InitPromise, MapsAgree, PTL DEF Spec, KeepsPromise, Promise!Spec
=============================================================================
