------------------------ MODULE IngressBrokerSafety ------------------------
(***************************************************************************)
(* The safety properties of the broker, for every value of the constants.  *)
(*                                                                         *)
(* What a step does to the two maps, the queues and the history falls into *)
(* few kinds (Effect); each invariant is proved kind by kind.  The last    *)
(* part shows that the broker implements HandOff: every step is, for the   *)
(* connections of the current generation, a step HandOff allows or no step *)
(* at all.                                                                 *)
(***************************************************************************)
EXTENDS IngressBrokerProofs

----------------------------------------------------------------------------
(***************************************************************************)
(* The kinds of steps.                                                     *)
(***************************************************************************)
\* The handles S leave the broker, each with its pending assignment.
PendingIn(S) == {k \in DOMAIN correlations : correlations[k].handle \in S}
Removal(S) ==
    /\ handles' = Without(handles, S)
    /\ correlations' = Without(correlations, PendingIn(S))

\* The generation ends or fails, with the report of a connection or without.
Ending ==
    /\ active' = FALSE
    /\ clearLocked
    /\ reported \subseteq reported' /\ reported' \subseteq Handles
    /\ UNCHANGED <<generation, granted, published>>

Quiet == UNCHANGED <<active, generation, handles, correlations, queues, history>>

Effect ==
    \/ Activate
    \/ Ending
    \/ \E h \in Handles : OpenAccepted(h)
    \/ \E c \in Callers : AssignPending(c)
    \/ \E d \in Deliverers : DeliverPublish(d)
    \/ \E S : Removal(S) /\ UNCHANGED <<active, generation, queues, history>>
    \/ \E k \in Correlations : TimerFires(k)
    \/ ReceiveOpened
    \/ ReceiveVerified
    \/ Quiet

----------------------------------------------------------------------------
(***************************************************************************)
(* The invariants that the properties rest on.                             *)
(***************************************************************************)
\* The assignment that entry k stands for.
GrantOf(k) ==
    [generation |-> generation, handle |-> correlations[k].handle,
     correlation |-> k, expiresAt |-> correlations[k].expiresAt]

\* The frame that a delivery makes of entry k: its expiry is in milliseconds.
FrameOf(k) ==
    [generation |-> generation, handle |-> correlations[k].handle,
     correlation |-> k, expiresAt |-> TimeOfMilli(UnixMilli(correlations[k].expiresAt))]
PublicationOf(k) ==
    [handle |-> correlations[k].handle, correlation |-> k,
     expiresAt |-> TimeOfMilli(UnixMilli(correlations[k].expiresAt))]

\* Queued frames and pending entries stand for assignments that were admitted.
GrantInv ==
    /\ FramesGranted
    /\ \A k \in DOMAIN correlations : GrantOf(k) \in granted

\* A handle is reported before it is anything else, and a frame of it is
\* published only as it is closed.
HistoryInv ==
    /\ DOMAIN handles \subseteq reported /\ Delivered \subseteq reported
    /\ Delivered \cap DOMAIN handles = {}

\* A call of assign is about a handle that was reported in its generation.
CallerInv ==
    \A c \in Callers :
        /\ caller[c].generation <= generation
        /\ caller[c].generation = generation /\ generation # 0 =>
              caller[c].handle \in reported

\* What a refused call was about is closed.
RejectedInv ==
    \A c \in Callers :
        caller[c].pc = "idle" /\ caller[c].result \notin {"none", "ok"}
            /\ caller[c].generation = generation
        => caller[c].handle \notin DOMAIN handles

\* A started expire goroutine belongs to an assignment that has expired.
ExpiredInv == \A x \in expiring : x.expiresAt <= clock

----------------------------------------------------------------------------
(***************************************************************************)
(* Every step is of one of the kinds.                                      *)
(***************************************************************************)
\* Removing one pending assignment with its handle (deliver, closeCorrelation,
\* expire): no other assignment has that handle.
LEMMA ConsumeRemoves ==
    ASSUME PendingHandleOpen, NEW k \in DOMAIN correlations, Consume(k)
    PROVE  Removal({correlations[k].handle})
<1>1. PendingIn({correlations[k].handle}) = {k}
    BY DEF PendingIn, PendingHandleOpen
<1> QED
    BY <1>1 DEF Removal, Consume

\* Removing nothing is a removal too.
LEMMA NothingRemoved ==
    ASSUME MapsType, UNCHANGED <<handles, correlations>>
    PROVE  Removal({})
<1>1. PendingIn({}) = {}
    BY DEF PendingIn
<1> QED
    BY <1>1, WithoutNothing DEF Removal, MapsType

\* clearAssignmentLocked removes the handle and the owner of the correlation.
LEMMA ClearRemoves ==
    ASSUME PendingHandleOpen, NEW h, NEW k \in DOMAIN correlations,
           clearAssignmentLocked(h, k)
    PROVE  Removal({h, correlations[k].handle})
<1> DEFINE S == {h, correlations[k].handle}
<1>1. {correlations[x].handle : x \in {k} \cap DOMAIN correlations} = {correlations[k].handle}
    OBVIOUS
<1>2. {h} \cup {correlations[k].handle} = S
    OBVIOUS
<1>3. PendingIn(S) = {k} \cup PendingOf(h)
    BY DEF PendingIn, PendingOf, PendingHandleOpen
<1>4. handles' = Without(handles, S)
    BY <1>1, <1>2 DEF clearAssignmentLocked
<1> HIDE DEF S
<1>5. correlations' = Without(correlations, PendingIn(S))
    BY <1>3 DEF clearAssignmentLocked
<1> QED
    BY <1>4, <1>5 DEF Removal, S

\* closeHandle removes the handle of the current generation, or nothing.
LEMMA CloseRemoves ==
    ASSUME MapsType, NEW g, NEW h, closeHandle(g, h)
    PROVE  \E S : Removal(S)
<1>1. CASE g = generation
    <2>1. PendingIn({h}) = PendingOf(h)
        BY DEF PendingIn, PendingOf
    <2>2. Removal({h})
        BY <1>1, <2>1 DEF closeHandle, Removal
    <2> QED
        BY <2>2
<1>2. CASE g # generation
    BY <1>2, NothingRemoved DEF closeHandle
<1> QED
    BY <1>1, <1>2

\* Closing a generation that is not the current one changes nothing.
LEMMA CloseEffect ==
    ASSUME TypeInv, NEW g, CloseGeneration(g), UNCHANGED history
    PROVE  Ending \/ Quiet
<1>1. CASE g = generation
    BY <1>1 DEF CloseGeneration, Ending, history, TypeInv, TypeOK, HistoryType
<1>2. CASE g # generation
    BY <1>2 DEF CloseGeneration, Quiet, state
<1> QED
    BY <1>1, <1>2

\* A step that only moves goroutines or the clock is quiet.
LEMMA QuietSteps ==
    ASSUME UNCHANGED <<state, queues, history>>
    PROVE  Quiet
BY DEF Quiet, state

\* Whatever action is taken, what it does to the maps, the queues and the
\* history is one of the kinds of Effect.
LEMMA StepEffect ==
    ASSUME TypeInv, PendingHandleOpen, [Next]_vars
    PROVE  Effect
<1> USE DEF Effect
<1>1. CASE Activate \/ ReceiveOpened \/ ReceiveVerified
    BY <1>1
<1>2. CASE Deactivate
    BY <1>2, CloseEffect DEF Deactivate
<1>3. ASSUME NEW g \in Generations, FatalCall(g) PROVE Effect
    BY <1>3, CloseEffect DEF FatalCall
<1>4. ASSUME NEW h \in Handles \cup {NoHandle}, Open(h) PROVE Effect
    <2>1. CASE OpenInvalid(h)
        BY <2>1 DEF OpenInvalid, failLocked, Ending, history, TypeInv, TypeOK, HistoryType
    <2>2. CASE OpenOverflow(h)
        BY <2>2 DEF OpenOverflow, failLocked, Ending, TypeInv, TypeOK, HistoryType
    <2>3. CASE OpenAccepted(h)
        BY <2>3 DEF OpenAccepted
    <2> QED
        BY <1>4, <2>1, <2>2, <2>3 DEF Open
<1>5. ASSUME NEW c \in Callers, AssignCall(c) PROVE Effect
    BY <1>5, QuietSteps DEF AssignCall, AssignBegin
<1>6. ASSUME NEW c \in Callers, AssignStep(c) PROVE Effect
    <2>1. CASE AssignRefused(c) \/ AssignOK(c) \/ AssignRejected(c)
        BY <2>1, QuietSteps DEF AssignRefused, AssignOK, AssignRejected
    <2>2. CASE AssignPending(c)
        BY <2>2
    <2>3. CASE AssignDuplicate(c)
        <3>1. PICK k \in DOMAIN correlations : clearAssignmentLocked(caller[c].handle, k)
            BY <2>3 DEF AssignDuplicate, PendingOf
        <3>2. \E S : Removal(S)
            BY <3>1, ClearRemoves
        <3>3. UNCHANGED <<active, generation, queues, history>>
            BY <2>3 DEF AssignDuplicate
        <3> QED
            BY <3>2, <3>3
    <2>4. CASE AssignClose(c)
        <3>1. \E S : Removal(S)
            BY <2>4, CloseRemoves DEF AssignClose, TypeInv, TypeOK
        <3>2. UNCHANGED <<active, generation, queues, history>>
            BY <2>4 DEF AssignClose
        <3> QED
            BY <3>1, <3>2
    <2> QED
        BY <1>6, <2>1, <2>2, <2>3, <2>4 DEF AssignStep
<1>7. ASSUME NEW k \in Correlations, TimerFires(k) PROVE Effect
    BY <1>7
<1>8. ASSUME NEW x \in expiring, Expire(x) PROVE Effect
    <2>1. UNCHANGED <<active, generation, queues, history>>
        BY <1>8 DEF Expire
    <2>2. CASE Matches(x)
        <3>1. x.correlation \in DOMAIN correlations /\ Consume(x.correlation)
            BY <1>8, <2>2 DEF Expire, Matches, Consume
        <3> QED
            BY <2>1, <3>1, ConsumeRemoves
    <2>3. CASE ~Matches(x)
        BY <1>8, <2>1, <2>3, NothingRemoved DEF Expire, TypeInv, TypeOK
    <2> QED
        BY <2>2, <2>3
<1>9. ASSUME NEW d \in Deliverers, DeliverCall(d) PROVE Effect
    BY <1>9, QuietSteps DEF DeliverCall, DeliverCallback, DeliverIPCFrame
<1>10. ASSUME NEW d \in Deliverers, DeliverStep(d) PROVE Effect
    <2>1. CASE (\E frameOK \in BOOLEAN : DeliverCheck(d, frameOK)) \/ DeliverRefused(d)
        BY <2>1, QuietSteps DEF DeliverCheck, DeliverRefused
    <2>2. CASE DeliverPublish(d)
        BY <2>2
    <2>3. CASE DeliverOverflow(d)
        BY <2>3 DEF DeliverOverflow, failLocked, Ending, history, TypeInv, TypeOK, HistoryType
    <2>4. CASE DeliverMismatch(d) \/ DeliverClose(d)
        <3>1. UNCHANGED <<active, generation, queues, history>>
            BY <2>4 DEF DeliverMismatch, DeliverClose
        <3>2. CASE \E k \in DOMAIN correlations : Consume(k)
            BY <3>1, <3>2, ConsumeRemoves
        <3>3. CASE UNCHANGED <<handles, correlations>>
            BY <3>1, <3>3, NothingRemoved DEF TypeInv, TypeOK
        <3> QED
            BY <2>4, <3>2, <3>3 DEF DeliverMismatch, DeliverClose, Deliverable
    <2> QED
        BY <1>10, <2>1, <2>2, <2>3, <2>4 DEF DeliverStep
<1>11. CASE Tick \/ UNCHANGED vars
    BY <1>11, QuietSteps DEF Tick, vars
<1> QED
    BY <1>1, <1>2, <1>3, <1>4, <1>5, <1>6, <1>7, <1>8, <1>9, <1>10, <1>11 DEF Next

----------------------------------------------------------------------------
(***************************************************************************)
(* Removal, insertion and the timer, as seen by the invariants.            *)
(***************************************************************************)
\* What a removal leaves: the other handles and exactly their assignments.
LEMMA RemovalFacts ==
    ASSUME NEW S, Removal(S)
    PROVE  /\ DOMAIN handles' = DOMAIN handles \ S
           /\ DOMAIN correlations' = DOMAIN correlations \ PendingIn(S)
           /\ \A k \in DOMAIN correlations' : correlations'[k] = correlations[k]
BY DEF Removal, Without, Restrict

\* A handle that stays open after a removal is being assigned iff it was.
LEMMA RemovalAssigning ==
    ASSUME NEW S, Removal(S)
    PROVE  Assigning' = Assigning \ S
<1>1. /\ DOMAIN correlations' = DOMAIN correlations \ PendingIn(S)
      /\ \A k \in DOMAIN correlations' : correlations'[k] = correlations[k]
    BY RemovalFacts
<1> QED
    BY <1>1 DEF Assigning, PendingIn

\* A firing timer changes neither handle nor expiry of any pending entry.
LEMMA TimerFacts ==
    ASSUME TypeInv, NEW k, TimerFires(k)
    PROVE  /\ DOMAIN correlations' = DOMAIN correlations
           /\ \A j \in DOMAIN correlations :
                 /\ correlations'[j].handle = correlations[j].handle
                 /\ correlations'[j].expiresAt = correlations[j].expiresAt
           /\ UNCHANGED <<active, generation, handles, opened, verified,
                          reported, granted, published>>
<1>1. correlations' = [correlations EXCEPT ![k].fired = TRUE]
    BY DEF TimerFires
<1>2. correlations \in [DOMAIN correlations -> Pending]
    BY DEF TypeInv, TypeOK, MapsType
<1>3. UNCHANGED <<active, generation, handles, opened, verified, reported, granted, published>>
    BY DEF TimerFires, queues, history
<1> QED
    BY <1>1, <1>2, <1>3 DEF Pending

\* An admitted assignment adds one entry, under the handle it is about.
LEMMA PendingFacts ==
    ASSUME NEW c, AssignPending(c)
    PROVE  LET a == caller[c]
               k == a.correlation
           IN  /\ k \notin DOMAIN correlations
               /\ DOMAIN correlations' = DOMAIN correlations \cup {k}
               /\ correlations'[k].handle = a.handle
               /\ correlations'[k].expiresAt = a.expiresAt
               /\ \A j \in DOMAIN correlations : correlations'[j] = correlations[j]
               /\ a.handle \in DOMAIN handles /\ PendingOf(a.handle) = {}
               /\ granted' = granted \cup
                    {[generation |-> generation, handle |-> a.handle,
                      correlation |-> k, expiresAt |-> a.expiresAt]}
               /\ UNCHANGED <<active, generation, handles, opened, verified,
                              reported, published>>
<1> DEFINE a == caller[c]
           k == a.correlation
<1>1. k \notin DOMAIN correlations /\ a.handle \in DOMAIN handles /\ PendingOf(a.handle) = {}
    BY DEF AssignPending, Assignable
<1>2. correlations' = With(correlations, k, NewPending(a))
    BY DEF AssignPending
<1>3. NewPending(a).handle = a.handle /\ NewPending(a).expiresAt = a.expiresAt
    BY DEF NewPending
<1>4. /\ granted' = granted \cup
           {[generation |-> generation, handle |-> a.handle,
             correlation |-> k, expiresAt |-> a.expiresAt]}
      /\ UNCHANGED <<active, generation, handles, opened, verified, reported, published>>
    BY DEF AssignPending, queues
<1> QED
    BY <1>1, <1>2, <1>3, <1>4 DEF With

\* An accepted report adds one handle, in place of none that is assigned.
LEMMA OpenFacts ==
    ASSUME NEW h, OpenAccepted(h)
    PROVE  /\ h \in Handles /\ h \notin reported
           /\ \E S \in Survivors : DOMAIN handles' = S \cup {h}
           /\ reported' = reported \cup {h}
           /\ UNCHANGED <<active, generation, correlations, verified, granted, published>>
<1>1. PICK S \in Survivors : handles' = With(Restrict(handles, S), h, clock)
    BY DEF OpenAccepted
<1>2. DOMAIN handles' = S \cup {h}
    BY <1>1, SurvivorsSpareAssigning DEF With, Restrict
<1> QED
    BY <1>2 DEF OpenAccepted

\* The log of frames and the handles in it.
LEMMA LogAppends ==
    ASSUME published \in Seq(Publications), NEW x \in Publications,
           published' = Append(published, x)
    PROVE  Delivered' = Delivered \cup {x.handle}
<1>1. /\ Len(published') = Len(published) + 1 /\ Len(published) \in Nat
      /\ \A i \in 1 .. Len(published) : published'[i] = published[i]
      /\ published'[Len(published) + 1] = x
    BY AppendProperties, LenProperties
<1>2. 1 .. Len(published') = 1 .. Len(published) \cup {Len(published) + 1}
    BY <1>1
<1> QED
    BY <1>1, <1>2 DEF Delivered

LEMMA LogEmpty == ASSUME published = <<>> PROVE Delivered = {}
BY DEF Delivered

\* A publication removes the handle of the pending assignment, queues a frame
\* with its terms to the millisecond, and is one more entry of the log.
LEMMA PublishFacts ==
    ASSUME TypeInv, PendingHandleOpen, NEW d, DeliverPublish(d)
    PROVE  LET k == deliverer[d].correlation
               h == correlations[k].handle
           IN  /\ k \in DOMAIN correlations
               /\ Removal({h})
               /\ FrameOf(k) \in Frames
               /\ GrantedAs(FrameOf(k), GrantOf(k))
               /\ verified' = Append(verified, FrameOf(k))
               /\ published' = Append(published, PublicationOf(k))
               /\ Delivered' = Delivered \cup {h}
               /\ UNCHANGED <<active, generation, opened, reported, granted>>
<1> DEFINE r == deliverer[d]
           k == r.correlation
           h == correlations[k].handle
           e == correlations[k].expiresAt
           frame == [generation |-> r.generation, handle |-> h,
                     correlation |-> k, expiresAt |-> TimeOfMilli(r.expiresUnixMS)]
           entry == [handle |-> frame.handle, correlation |-> frame.correlation,
                     expiresAt |-> frame.expiresAt]
<1>1. /\ k \in DOMAIN correlations /\ r.generation = generation /\ active
      /\ UnixMilli(e) = r.expiresUnixMS
    BY DEF DeliverPublish, Deliverable, SameExpiry
<1>2. Consume(k)
    BY DEF DeliverPublish
<1>3. Removal({h})
    BY <1>1, <1>2, ConsumeRemoves
<1>4. frame = FrameOf(k) /\ entry = PublicationOf(k)
    BY <1>1 DEF FrameOf, PublicationOf
<1>5. /\ verified' = Append(verified, frame)
      /\ published' = Append(published, entry)
      /\ UNCHANGED <<active, generation, opened, reported, granted>>
    BY DEF DeliverPublish
<1>6. /\ k \in Correlations /\ h \in Handles /\ e \in Instants
      /\ published \in Seq(Publications)
    BY <1>1 DEF TypeInv, TypeOK, MapsType, Pending, HistoryType
<1>7. generation \in Generations
    BY <1>1 DEF TypeInv, TypeOK, GenerationInv, ScalarsType, Generations
<1>8. /\ TimeOfMilli(UnixMilli(e)) \in Instants
      /\ TimeOfMilli(UnixMilli(e)) <= e /\ e < TimeOfMilli(UnixMilli(e)) + Milli
    <2> HIDE DEF e
    <2>1. e \in Nat
        BY <1>6, BoundAssumption DEF Instants
    <2>2. UnixMilli(e) \in Milliseconds
        BY <1>6, MillisecondFacts
    <2> QED
        BY <2>1, <2>2, Truncation, MillisecondFacts
<1> HIDE DEF r, frame, entry
<1>9. FrameOf(k) \in Frames /\ PublicationOf(k) \in Publications
    BY <1>6, <1>7, <1>8 DEF FrameOf, Frames, PublicationOf, Publications
<1>10. GrantedAs(FrameOf(k), GrantOf(k))
    BY <1>8 DEF GrantedAs, FrameOf, GrantOf
<1>11. Delivered' = Delivered \cup {h}
    <2>1. Delivered' = Delivered \cup {PublicationOf(k).handle}
        BY <1>4, <1>5, <1>6, <1>9, LogAppends
    <2> QED
        BY <2>1 DEF PublicationOf
<1> QED
    BY <1>1, <1>3, <1>4, <1>5, <1>9, <1>10, <1>11 DEF r

----------------------------------------------------------------------------
(***************************************************************************)
(* Frames carry the terms that were granted.                               *)
(***************************************************************************)
\* Appending an element of S to a queue whose elements are in S.
LEMMA AppendKeeps ==
    ASSUME NEW A, NEW q \in Seq(A), NEW x \in A, NEW S, x \in S,
           \A i \in 1 .. Len(q) : q[i] \in S
    PROVE  \A i \in 1 .. Len(Append(q, x)) : Append(q, x)[i] \in S
<1>1. /\ Append(q, x) \in Seq(A) /\ Len(Append(q, x)) = Len(q) + 1
      /\ \A i \in 1 .. Len(q) : Append(q, x)[i] = q[i]
      /\ Append(q, x)[Len(q) + 1] = x
    BY AppendProperties
<1>2. Len(q) \in Nat
    BY LenProperties
<1> QED
    BY <1>1, <1>2

\* Receiving from a queue whose elements are in S.
LEMMA TailKeeps ==
    ASSUME NEW A, NEW q \in Seq(A), q # <<>>, NEW S,
           \A i \in 1 .. Len(q) : q[i] \in S
    PROVE  \A i \in 1 .. Len(Tail(q)) : Tail(q)[i] \in S
<1>1. /\ Len(Tail(q)) = Len(q) - 1 /\ Len(q) \in Nat
      /\ \A i \in 1 .. Len(Tail(q)) : Tail(q)[i] = q[i + 1]
    BY HeadTailProperties, LenProperties
<1> QED
    BY <1>1

\* Every step keeps queued frames and pending entries within what was granted.
LEMMA NextGrant ==
    ASSUME TypeInv, PendingHandleOpen, GrantInv, [Next]_vars
    PROVE  GrantInv'
<1> DEFINE Pend == \A k \in DOMAIN correlations : GrantOf(k) \in granted
<1>0. FramesGranted /\ Pend /\ verified \in Seq(Frames)
    BY DEF GrantInv, TypeInv, TypeOK, QueuesType
<1>1. CASE Activate \/ Ending
    <2>1. verified' = <<>> /\ DOMAIN correlations' = {}
        BY <1>1, EmptyFacts DEF Activate, Ending, clearLocked
    <2> QED
        BY <2>1 DEF GrantInv, FramesGranted
<1>2. ASSUME NEW h, OpenAccepted(h) PROVE GrantInv'
    <2>1. UNCHANGED <<generation, correlations, verified, granted>>
        BY <1>2, OpenFacts
    <2> QED
        BY <2>1 DEF GrantInv, FramesGranted, GrantedAs, GrantOf
<1>3. ASSUME NEW c, AssignPending(c) PROVE GrantInv'
    <2> DEFINE a == caller[c]
               k == a.correlation
    <2>1. /\ DOMAIN correlations' = DOMAIN correlations \cup {k}
          /\ correlations'[k].handle = a.handle
          /\ correlations'[k].expiresAt = a.expiresAt
          /\ \A j \in DOMAIN correlations : correlations'[j] = correlations[j]
          /\ granted' = granted \cup
               {[generation |-> generation, handle |-> a.handle,
                 correlation |-> k, expiresAt |-> a.expiresAt]}
          /\ UNCHANGED <<generation, verified>>
          /\ k \notin DOMAIN correlations
        BY <1>3, PendingFacts
    <2> HIDE DEF a, k
    <2>2. FramesGranted'
        BY <1>0, <2>1 DEF FramesGranted, GrantedAs
    <2>3. Pend'
        BY <1>0, <2>1 DEF GrantOf
    <2> QED
        BY <2>2, <2>3 DEF GrantInv
<1>4. ASSUME NEW d, DeliverPublish(d) PROVE GrantInv'
    <2> DEFINE k == deliverer[d].correlation
    <2>1. /\ k \in DOMAIN correlations
          /\ Removal({correlations[k].handle})
          /\ FrameOf(k) \in Frames /\ GrantedAs(FrameOf(k), GrantOf(k))
          /\ verified' = Append(verified, FrameOf(k))
          /\ UNCHANGED <<generation, granted>>
        BY <1>4, PublishFacts
    <2> DEFINE S == {f \in Frames : \E x \in granted : GrantedAs(f, x)}
    <2> HIDE DEF k
    <2>2. /\ DOMAIN correlations' \subseteq DOMAIN correlations
          /\ \A j \in DOMAIN correlations' : correlations'[j] = correlations[j]
        BY <2>1, RemovalFacts
    <2>3. FrameOf(k) \in S /\ \A i \in 1 .. Len(verified) : verified[i] \in S
        BY <1>0, <2>1 DEF FramesGranted
    <2>4. FramesGranted'
        <3>1. \A i \in 1 .. Len(verified') : verified'[i] \in S
            BY <1>0, <2>1, <2>3, AppendKeeps
        <3> QED
            BY <2>1, <3>1 DEF FramesGranted, GrantedAs
    <2>5. Pend'
        BY <1>0, <2>1, <2>2 DEF GrantOf
    <2> QED
        BY <2>4, <2>5 DEF GrantInv
<1>5. ASSUME NEW S, Removal(S), UNCHANGED <<generation, queues, history>> PROVE GrantInv'
    <2>1. /\ DOMAIN correlations' \subseteq DOMAIN correlations
          /\ \A j \in DOMAIN correlations' : correlations'[j] = correlations[j]
          /\ UNCHANGED <<generation, verified, granted>>
        BY <1>5, RemovalFacts DEF queues, history
    <2> QED
        BY <2>1 DEF GrantInv, FramesGranted, GrantedAs, GrantOf
<1>6. ASSUME NEW k, TimerFires(k) PROVE GrantInv'
    <2>1. /\ DOMAIN correlations' = DOMAIN correlations
          /\ \A j \in DOMAIN correlations :
                /\ correlations'[j].handle = correlations[j].handle
                /\ correlations'[j].expiresAt = correlations[j].expiresAt
          /\ UNCHANGED <<generation, verified, granted>>
        BY <1>6, TimerFacts
    <2> QED
        BY <2>1 DEF GrantInv, FramesGranted, GrantedAs, GrantOf
<1>7. CASE ReceiveVerified
    <2>1. /\ verified # <<>> /\ verified' = Tail(verified)
          /\ UNCHANGED <<generation, correlations, granted>>
        BY <1>7 DEF ReceiveVerified, state, history
    <2> DEFINE S == {f \in Frames : \E x \in granted : GrantedAs(f, x)}
    <2>2. FramesGranted'
        <3>1. \A i \in 1 .. Len(verified) : verified[i] \in S
            BY <1>0 DEF FramesGranted
        <3>2. \A i \in 1 .. Len(verified') : verified'[i] \in S
            BY <1>0, <2>1, <3>1, TailKeeps
        <3> QED
            BY <2>1, <3>2 DEF FramesGranted, GrantedAs
    <2> QED
        BY <1>0, <2>1, <2>2 DEF GrantInv, GrantOf
<1>8. CASE ReceiveOpened \/ Quiet
    <2>1. UNCHANGED <<generation, correlations, verified, granted>>
        BY <1>8 DEF ReceiveOpened, Quiet, state, queues, history
    <2> QED
        BY <2>1 DEF GrantInv, FramesGranted, GrantedAs, GrantOf
<1> QED
    BY <1>1, <1>2, <1>3, <1>4, <1>5, <1>6, <1>7, <1>8, StepEffect DEF Effect

----------------------------------------------------------------------------
(***************************************************************************)
(* The history of a handle.                                                *)
(***************************************************************************)
\* Every step keeps the history of every handle in order: reported, then open,
\* then closed or published, and never open again.
LEMMA NextHistory ==
    ASSUME TypeInv, PendingHandleOpen, HistoryInv, [Next]_vars
    PROVE  HistoryInv'
<1>0. UNCHANGED published => Delivered' = Delivered
    BY DEF Delivered
<1>1. CASE Activate
    <2>1. DOMAIN handles' = {} /\ reported' = {} /\ published' = <<>>
        BY <1>1, EmptyFacts DEF Activate, clearLocked
    <2>2. Delivered' = {}
        BY <2>1 DEF Delivered
    <2> QED
        BY <2>1, <2>2 DEF HistoryInv
<1>2. CASE Ending
    <2>1. /\ DOMAIN handles' = {} /\ reported \subseteq reported'
          /\ UNCHANGED published
        BY <1>2, EmptyFacts DEF Ending, clearLocked
    <2> QED
        BY <1>0, <2>1 DEF HistoryInv
<1>3. ASSUME NEW h, OpenAccepted(h) PROVE HistoryInv'
    <2>1. PICK S \in Survivors : DOMAIN handles' = S \cup {h}
        BY <1>3, OpenFacts
    <2>2. h \notin reported /\ reported' = reported \cup {h} /\ UNCHANGED published
        BY <1>3, OpenFacts
    <2>3. S \subseteq DOMAIN handles
        BY SurvivorsSpareAssigning
    <2> QED
        BY <1>0, <2>1, <2>2, <2>3 DEF HistoryInv
<1>4. ASSUME NEW S, Removal(S), UNCHANGED <<reported, published>> PROVE HistoryInv'
    <2>1. DOMAIN handles' = DOMAIN handles \ S
        BY <1>4, RemovalFacts
    <2> QED
        BY <1>0, <1>4, <2>1 DEF HistoryInv
<1>5. ASSUME NEW d, DeliverPublish(d) PROVE HistoryInv'
    <2> DEFINE k == deliverer[d].correlation
               h == correlations[k].handle
    <2>1. /\ k \in DOMAIN correlations /\ Removal({h})
          /\ Delivered' = Delivered \cup {h}
          /\ UNCHANGED reported
        BY <1>5, PublishFacts
    <2>2. h \in DOMAIN handles
        BY <2>1 DEF PendingHandleOpen
    <2> HIDE DEF k, h
    <2>3. DOMAIN handles' = DOMAIN handles \ {h}
        BY <2>1, RemovalFacts
    <2> QED
        BY <2>1, <2>2, <2>3 DEF HistoryInv
<1>6. ASSUME UNCHANGED <<handles, reported, published>> PROVE HistoryInv'
    BY <1>0, <1>6 DEF HistoryInv
<1>7. CASE \E c \in Callers : AssignPending(c)
    BY <1>6, <1>7, PendingFacts
<1>8. CASE \E k \in Correlations : TimerFires(k)
    BY <1>6, <1>8, TimerFacts
<1>9. CASE ReceiveOpened \/ ReceiveVerified \/ Quiet
    BY <1>6, <1>9 DEF ReceiveOpened, ReceiveVerified, Quiet, state, history
<1> QED
    BY <1>1, <1>2, <1>3, <1>4, <1>5, <1>7, <1>8, <1>9, StepEffect DEF Effect, history

----------------------------------------------------------------------------
(***************************************************************************)
(* The handle map is bounded.                                              *)
(***************************************************************************)
BoundInv == IsFiniteSet(DOMAIN handles) /\ HandlesBounded

\* Fewer handles stay within the limit.
LEMMA FewerHandles ==
    ASSUME BoundInv, DOMAIN handles' \subseteq DOMAIN handles
    PROVE  BoundInv'
<1>1. /\ IsFiniteSet(DOMAIN handles')
      /\ Cardinality(DOMAIN handles') <= Cardinality(DOMAIN handles)
      /\ Cardinality(DOMAIN handles') \in Nat /\ Cardinality(DOMAIN handles) \in Nat
    BY FS_Subset, FS_CardinalityType DEF BoundInv
<1> QED
    BY <1>1, BoundAssumption DEF BoundInv, HandlesBounded

\* evictStaleHandlesLocked leaves room for one more handle.
LEMMA SurvivorsLeaveRoom ==
    ASSUME BoundInv, NEW S \in Survivors
    PROVE  IsFiniteSet(S) /\ Cardinality(S) < MaxHandles
<1> DEFINE fresh == DOMAIN handles \ Stale
<1>1. /\ IsFiniteSet(fresh) /\ Cardinality(fresh) \in Nat
      /\ Cardinality(fresh) <= Cardinality(DOMAIN handles)
      /\ Cardinality(DOMAIN handles) \in Nat
    BY FS_Subset, FS_CardinalityType DEF BoundInv
<1>2. Cardinality(fresh) <= MaxHandles
    BY <1>1, BoundAssumption DEF BoundInv, HandlesBounded
<1>3. CASE Cardinality(fresh) < MaxHandles
    <2>1. S = fresh
        BY <1>3 DEF Survivors
    <2> QED
        BY <1>1, <1>3, <2>1
<1>4. CASE ~(Cardinality(fresh) < MaxHandles)
    <2>1. PICK h \in fresh : S = fresh \ {h}
        BY <1>4 DEF Survivors, Oldest
    <2>2. IsFiniteSet(S) /\ Cardinality(S) = Cardinality(fresh) - 1
        BY <1>1, <2>1, FS_RemoveElement
    <2> QED
        BY <1>1, <1>2, <2>2, BoundAssumption
<1> QED
    BY <1>3, <1>4

\* Every step keeps the number of open handles within the limit.
LEMMA NextBound ==
    ASSUME TypeInv, PendingHandleOpen, BoundInv, [Next]_vars
    PROVE  BoundInv'
<1>1. CASE Activate \/ Ending
    <2>1. DOMAIN handles' = {}
        BY <1>1, EmptyFacts DEF Activate, Ending, clearLocked
    <2> QED
        BY <2>1, FewerHandles
<1>2. ASSUME NEW h, OpenAccepted(h) PROVE BoundInv'
    <2>1. PICK S \in Survivors : DOMAIN handles' = S \cup {h}
        BY <1>2, OpenFacts
    <2>2. IsFiniteSet(S) /\ Cardinality(S) < MaxHandles /\ Cardinality(S) \in Nat
        BY SurvivorsLeaveRoom, FS_CardinalityType
    <2>3. IsFiniteSet(S \cup {h}) /\ Cardinality(S \cup {h}) <= Cardinality(S) + 1
        BY <2>2, FS_AddElement
    <2>4. Cardinality(S \cup {h}) \in Nat
        BY <2>3, FS_CardinalityType
    <2> QED
        BY <2>1, <2>2, <2>3, <2>4, BoundAssumption DEF BoundInv, HandlesBounded
<1>3. ASSUME NEW c, AssignPending(c) PROVE BoundInv'
    BY <1>3, FewerHandles DEF AssignPending
<1>4. ASSUME NEW d, DeliverPublish(d) PROVE BoundInv'
    <2>1. \E S : Removal(S)
        BY <1>4, PublishFacts
    <2> QED
        BY <2>1, RemovalFacts, FewerHandles
<1>5. ASSUME NEW S, Removal(S) PROVE BoundInv'
    BY <1>5, RemovalFacts, FewerHandles
<1>6. ASSUME NEW k, TimerFires(k) PROVE BoundInv'
    BY <1>6, FewerHandles DEF TimerFires
<1>7. CASE ReceiveOpened \/ ReceiveVerified \/ Quiet
    BY <1>7, FewerHandles DEF ReceiveOpened, ReceiveVerified, Quiet, state
<1> QED
    BY <1>1, <1>2, <1>3, <1>4, <1>5, <1>6, <1>7, StepEffect DEF Effect

----------------------------------------------------------------------------
(***************************************************************************)
(* Goroutines in assign.                                                   *)
(***************************************************************************)
\* What a step may do to the goroutines in assign.
CallerStep ==
    \/ UNCHANGED caller
    \/ \E c \in Callers : AssignCall(c) \/ AssignStep(c)

\* No other action touches them.
LEMMA CallerSteps == ASSUME [Next]_vars PROVE CallerStep
BY DEF Next, CallerStep, vars, Activate, Deactivate, FatalCall, Open, OpenInvalid, OpenAccepted,
       OpenOverflow, TimerFires, Expire, DeliverCall, DeliverCallback, DeliverIPCFrame,
       DeliverStep, DeliverCheck, DeliverRefused, DeliverMismatch, DeliverPublish,
       DeliverOverflow, DeliverClose, ReceiveOpened, ReceiveVerified, Tick

\* A call that begins is about a real generation up to the current one, and
\* about a reported handle if it is the current one.
LEMMA CallFacts ==
    ASSUME TypeInv, NEW c \in Callers, AssignCall(c)
    PROVE  /\ caller \in [Callers -> CallerRecords]
           /\ \E v : /\ caller' = [caller EXCEPT ![c] = v]
                     /\ v.pc \in {"lock", "close"}
                     /\ v.generation \in 1 .. generation
                     /\ v.generation = generation => v.handle \in reported
           /\ UNCHANGED <<active, generation, handles, correlations, reported>>
<1>1. PICK g \in 1 .. generation, h \in Handles, k \in Correlations \cup {NoCorrelation},
           e \in clock .. clock + MaxLifetime + 1 :
              (g = generation => h \in reported) /\ AssignBegin(c, g, h, k, e)
    BY DEF AssignCall
<1> DEFINE a == [pc |-> "lock", generation |-> g, handle |-> h,
                 correlation |-> k, expiresAt |-> e, native |-> 0, result |-> "none"]
<1>2. a.pc = "lock" /\ a.generation = g /\ a.handle = h
    OBVIOUS
<1>3. \A r : /\ CallerAt("close", g, h, r).pc = "close"
             /\ CallerAt("close", g, h, r).generation = g
             /\ CallerAt("close", g, h, r).handle = h
    BY DEF CallerAt
<1> HIDE DEF a
<1>4. \/ caller' = [caller EXCEPT ![c] = a]
      \/ \E r : caller' = [caller EXCEPT ![c] = CallerAt("close", g, h, r)]
    BY <1>1 DEF AssignBegin, a
<1>5. UNCHANGED <<active, generation, handles, correlations, reported>>
    BY <1>1 DEF AssignBegin, state, history
<1>6. caller \in [Callers -> CallerRecords]
    BY DEF TypeInv, TypeOK, ThreadsType
<1> QED
    BY <1>1, <1>2, <1>3, <1>4, <1>5, <1>6

\* A call that returns is forgotten, or its record says what was refused.
LEMMA ReturnFacts ==
    ASSUME TypeInv, NEW c \in Callers, NEW r, Return(c, r)
    PROVE  \E v : /\ caller' = [caller EXCEPT ![c] = v]
                  /\ v.pc = "idle"
                  /\ \/ v = IdleCaller
                     \/ /\ caller[c].generation = generation /\ v.generation = generation
                        /\ v.handle = caller[c].handle
<1> DEFINE w == CallerAt("idle", caller[c].generation, caller[c].handle, r)
<1>1. w.pc = "idle" /\ w.generation = caller[c].generation /\ w.handle = caller[c].handle
    BY DEF CallerAt
<1> HIDE DEF w
<1>2. \/ caller' = [caller EXCEPT ![c] = IdleCaller]
      \/ caller[c].generation = generation /\ caller' = [caller EXCEPT ![c] = w]
    BY DEF Return, w
<1> QED
    BY <1>1, <1>2, IdleTypes

\* A call that goes on stays about its generation and handle.  One that
\* returns an error in the current generation leaves its handle closed; one
\* inside assignNative has the function of its own generation.
LEMMA AssignStepFacts ==
    ASSUME TypeInv, NEW c \in Callers, AssignStep(c)
    PROVE  /\ caller \in [Callers -> CallerRecords]
           /\ UNCHANGED <<generation, reported>>
           /\ DOMAIN handles' \subseteq DOMAIN handles
           /\ \E v :
                /\ caller' = [caller EXCEPT ![c] = v]
                /\ \/ v = IdleCaller
                   \/ /\ v.generation = caller[c].generation
                      /\ v.handle = caller[c].handle
                      /\ v.pc = "idle" /\ v.generation = generation =>
                            v.handle \notin DOMAIN handles'
                      /\ v.pc = "native" => v.native # 0 /\ v.native = v.generation
<1>0. caller \in [Callers -> CallerRecords]
    BY DEF TypeInv, TypeOK, ThreadsType
<1>1. CASE AssignRefused(c)
    <2>1. UNCHANGED <<generation, reported, handles>>
        BY <1>1 DEF AssignRefused, state, history
    <2>2. ~Assignable(caller[c]) /\ \E r : Return(c, r)
        BY <1>1 DEF AssignRefused
    <2>3. caller[c].generation = generation => caller[c].handle \notin DOMAIN handles
        BY <2>2 DEF Assignable, TypeInv, GenerationInv
    <2> QED
        BY <1>0, <2>1, <2>2, <2>3, ReturnFacts
<1>2. CASE AssignDuplicate(c)
    <2>1. UNCHANGED <<generation, reported>>
        BY <1>2 DEF AssignDuplicate, history
    <2>2. \E k : clearAssignmentLocked(caller[c].handle, k)
        BY <1>2 DEF AssignDuplicate
    <2>3. DOMAIN handles' \subseteq DOMAIN handles \ {caller[c].handle}
        BY <2>2 DEF clearAssignmentLocked, Without, Restrict
    <2>4. \E r : Return(c, r)
        BY <1>2 DEF AssignDuplicate
    <2> QED
        BY <1>0, <2>1, <2>3, <2>4, ReturnFacts
<1>3. CASE AssignPending(c)
    <2> DEFINE a == caller[c]
               v == [pc |-> "native", generation |-> a.generation,
                     handle |-> a.handle, correlation |-> a.correlation,
                     expiresAt |-> a.expiresAt, native |-> assignNative,
                     result |-> a.result]
    <2>1. caller' = [caller EXCEPT ![c] = v] /\ UNCHANGED <<generation, reported, handles>>
        BY <1>3 DEF AssignPending
    <2>2. a.generation = generation /\ active
        BY <1>3 DEF AssignPending, Assignable
    <2>3. assignNative = generation /\ generation # 0
        BY <2>2 DEF TypeInv, GenerationInv
    <2>4. /\ v.pc = "native" /\ v.generation = caller[c].generation /\ v.handle = caller[c].handle
          /\ v.native # 0 /\ v.native = v.generation
        BY <2>2, <2>3
    <2> HIDE DEF v
    <2> QED
        BY <1>0, <2>1, <2>4
<1>4. CASE AssignOK(c)
    <2>1. caller' = [caller EXCEPT ![c] = IdleCaller] /\ UNCHANGED <<generation, reported, handles>>
        BY <1>4 DEF AssignOK, Return, state, history
    <2> QED
        BY <1>0, <2>1
<1>5. CASE AssignRejected(c)
    <2> DEFINE v == CallerAt("close", caller[c].generation, caller[c].handle, "Rejected")
    <2>1. caller' = [caller EXCEPT ![c] = v] /\ UNCHANGED <<generation, reported, handles>>
        BY <1>5 DEF AssignRejected, state, history
    <2>2. v.pc = "close" /\ v.generation = caller[c].generation /\ v.handle = caller[c].handle
        BY DEF CallerAt
    <2> HIDE DEF v
    <2> QED
        BY <1>0, <2>1, <2>2
<1>6. CASE AssignClose(c)
    <2>1. UNCHANGED <<generation, reported>>
        BY <1>6 DEF AssignClose, history
    <2>2. closeHandle(caller[c].generation, caller[c].handle) /\ \E r : Return(c, r)
        BY <1>6 DEF AssignClose
    <2>3. /\ DOMAIN handles' \subseteq DOMAIN handles
          /\ caller[c].generation = generation => caller[c].handle \notin DOMAIN handles'
        BY <2>2 DEF closeHandle, Without, Restrict
    <2> QED
        BY <1>0, <2>1, <2>2, <2>3, ReturnFacts
<1> QED
    BY <1>1, <1>2, <1>3, <1>4, <1>5, <1>6 DEF AssignStep

\* Within a generation handles are only ever added to the reported ones, and
\* a handle that opens was not reported before.
LEMMA GenerationSteps ==
    ASSUME TypeInv, PendingHandleOpen, [Next]_vars
    PROVE  \/ generation' = generation + 1 /\ DOMAIN handles' = {}
           \/ /\ generation' = generation
              /\ reported \subseteq reported'
              /\ DOMAIN handles' \cap reported \subseteq DOMAIN handles
<1>1. CASE Activate
    BY <1>1, EmptyFacts DEF Activate, clearLocked
<1>2. CASE Ending
    BY <1>2, EmptyFacts DEF Ending, clearLocked
<1>3. ASSUME NEW h, OpenAccepted(h) PROVE /\ generation' = generation
                                          /\ reported \subseteq reported'
                                          /\ DOMAIN handles' \cap reported \subseteq DOMAIN handles
    <2>1. PICK S \in Survivors : DOMAIN handles' = S \cup {h}
        BY <1>3, OpenFacts
    <2>2. h \notin reported /\ generation' = generation /\ reported' = reported \cup {h}
        BY <1>3, OpenFacts
    <2>3. S \subseteq DOMAIN handles
        BY SurvivorsSpareAssigning
    <2> QED
        BY <2>1, <2>2, <2>3
<1>4. ASSUME NEW c, AssignPending(c) PROVE UNCHANGED <<generation, reported, handles>>
    BY <1>4 DEF AssignPending
<1>5. ASSUME NEW d, DeliverPublish(d) PROVE /\ UNCHANGED <<generation, reported>>
                                            /\ DOMAIN handles' \subseteq DOMAIN handles
    BY <1>5, PublishFacts, RemovalFacts
<1>6. ASSUME NEW S, Removal(S) PROVE DOMAIN handles' \subseteq DOMAIN handles
    BY <1>6, RemovalFacts
<1>7. ASSUME NEW k, TimerFires(k) PROVE UNCHANGED <<generation, reported, handles>>
    BY <1>7, TimerFacts
<1>8. CASE ReceiveOpened \/ ReceiveVerified \/ Quiet
    BY <1>8 DEF ReceiveOpened, ReceiveVerified, Quiet, state, history
<1> QED
    BY <1>1, <1>2, <1>3, <1>4, <1>5, <1>6, <1>7, <1>8, StepEffect DEF Effect, history

NativeInv ==
    \A c \in Callers :
        caller[c].pc = "native" => caller[c].native # 0 /\ caller[c].native = caller[c].generation

AssignInv == CallerInv /\ RejectedInv /\ NativeInv

\* Every step keeps what is known of the goroutines in assign.
LEMMA NextAssign ==
    ASSUME TypeInv, PendingHandleOpen, AssignInv, [Next]_vars
    PROVE  AssignInv'
<1> USE DEF AssignInv
<1>0. /\ generation \in Nat
      /\ \A c \in Callers : caller[c].generation \in Nat
    BY BoundAssumption DEF TypeInv, TypeOK, ScalarsType, ThreadsType, CallerRecords
<1>1. CASE UNCHANGED caller
    <2>1. CASE generation' = generation + 1 /\ DOMAIN handles' = {}
        BY <1>0, <1>1, <2>1 DEF CallerInv, RejectedInv, NativeInv
    <2>2. CASE /\ generation' = generation
               /\ reported \subseteq reported'
               /\ DOMAIN handles' \cap reported \subseteq DOMAIN handles
        <3>1. CallerInv'
            BY <1>1, <2>2 DEF CallerInv
        <3>2. RejectedInv'
            <4>1. CASE generation = 0
                <5>1. DOMAIN handles' \subseteq DOMAIN handles
                    BY <2>2, <4>1, NextTypeInv DEF TypeInv, GenerationInv
                <5> QED
                    BY <1>1, <2>2, <5>1 DEF RejectedInv
            <4>2. CASE generation # 0
                BY <1>1, <2>2, <4>2 DEF RejectedInv, CallerInv
            <4> QED
                BY <4>1, <4>2
        <3> QED
            BY <1>1, <3>1, <3>2 DEF NativeInv
    <2> QED
        BY <2>1, <2>2, GenerationSteps
<1>2. ASSUME NEW c \in Callers, AssignCall(c) PROVE AssignInv'
    <2>1. /\ caller \in [Callers -> CallerRecords]
          /\ UNCHANGED <<generation, handles, reported>>
        BY <1>2, CallFacts
    <2>2. PICK v : /\ caller' = [caller EXCEPT ![c] = v]
                   /\ v.pc \in {"lock", "close"}
                   /\ v.generation \in 1 .. generation
                   /\ v.generation = generation => v.handle \in reported
        BY <1>2, CallFacts
    <2>3. CallerInv'
        BY <1>0, <2>1, <2>2 DEF CallerInv
    <2>4. RejectedInv' /\ NativeInv'
        BY <2>1, <2>2 DEF RejectedInv, NativeInv
    <2> QED
        BY <2>3, <2>4
<1>3. ASSUME NEW c \in Callers, AssignStep(c) PROVE AssignInv'
    <2>1. /\ caller \in [Callers -> CallerRecords]
          /\ UNCHANGED <<generation, reported>>
          /\ DOMAIN handles' \subseteq DOMAIN handles
        BY <1>3, AssignStepFacts
    <2>2. PICK v :
             /\ caller' = [caller EXCEPT ![c] = v]
             /\ \/ v = IdleCaller
                \/ /\ v.generation = caller[c].generation
                   /\ v.handle = caller[c].handle
                   /\ v.pc = "idle" /\ v.generation = generation => v.handle \notin DOMAIN handles'
                   /\ v.pc = "native" => v.native # 0 /\ v.native = v.generation
        BY <1>3, AssignStepFacts
    <2>3. IdleCaller.generation = 0 /\ IdleCaller.pc = "idle" /\ IdleCaller.result = "none"
        BY DEF IdleCaller, CallerAt
    <2>4. \A b \in Callers : b # c => caller'[b] = caller[b]
        BY <2>1, <2>2
    <2>5. caller'[c] = v
        BY <2>1, <2>2
    <2>6. CallerInv'
        BY <1>0, <2>1, <2>2, <2>3, <2>4, <2>5 DEF CallerInv
    <2>7. RejectedInv'
        BY <2>1, <2>2, <2>3, <2>4, <2>5 DEF RejectedInv
    <2>8. NativeInv'
        BY <2>1, <2>2, <2>3, <2>4, <2>5 DEF NativeInv
    <2> QED
        BY <2>6, <2>7, <2>8
<1> QED
    BY <1>1, <1>2, <1>3, CallerSteps DEF CallerStep

----------------------------------------------------------------------------
(***************************************************************************)
(* The queues, the fatal callback and the expiry goroutines.               *)
(***************************************************************************)
\* Every step keeps the events of other generations out of the queues, and
\* the broker empty while it is not active.
LEMMA NextIsolated ==
    ASSUME TypeInv, PendingHandleOpen, GrantInv, AssignInv, GenerationIsolated, [Next]_vars
    PROVE  GenerationIsolated'
<1> DEFINE Own(q) == \A i \in 1 .. Len(q) : q[i].generation = generation
<1>1. TypeInv' /\ AssignInv'
    BY NextTypeInv, NextAssign
<1>2. /\ opened \in Seq(Opens) /\ verified \in Seq(Frames)
      /\ Own(opened) /\ Own(verified)
    BY DEF TypeInv, TypeOK, QueuesType, GenerationIsolated
<1>3. (Own(opened) /\ Own(verified))'
    <2>1. CASE Activate \/ Ending
        BY <2>1 DEF Activate, Ending, clearLocked
    <2>2. ASSUME NEW h, OpenAccepted(h) PROVE (Own(opened) /\ Own(verified))'
        <3> DEFINE x == [generation |-> generation, handle |-> h]
                   S == {o \in Opens : o.generation = generation}
        <3>1. opened' = Append(opened, x) /\ UNCHANGED <<generation, verified>>
            BY <2>2 DEF OpenAccepted
        <3>2. active /\ h \in Handles
            BY <2>2 DEF OpenAccepted
        <3>3. generation # 0
            BY <3>2 DEF TypeInv, GenerationInv
        <3>4. x \in S
            BY <3>2, <3>3, BoundAssumption
               DEF Opens, Generations, TypeInv, TypeOK, ScalarsType
        <3>5. \A i \in 1 .. Len(opened) : opened[i] \in S
            BY <1>2
        <3> HIDE DEF x
        <3>6. \A i \in 1 .. Len(opened') : opened'[i] \in S
            BY <1>2, <3>1, <3>4, <3>5, AppendKeeps
        <3> QED
            BY <1>2, <3>1, <3>6
    <2>3. ASSUME NEW d, DeliverPublish(d) PROVE (Own(opened) /\ Own(verified))'
        <3> DEFINE k == deliverer[d].correlation
                   S == {x \in Frames : x.generation = generation}
        <3>1. /\ k \in DOMAIN correlations
              /\ FrameOf(k) \in Frames
              /\ verified' = Append(verified, FrameOf(k))
              /\ UNCHANGED <<generation, opened>>
            BY <2>3, PublishFacts
        <3> HIDE DEF k
        <3>3. FrameOf(k) \in S
            BY <3>1 DEF FrameOf
        <3>4. \A i \in 1 .. Len(verified) : verified[i] \in S
            BY <1>2
        <3>5. \A i \in 1 .. Len(verified') : verified'[i] \in S
            BY <1>2, <3>1, <3>3, <3>4, AppendKeeps
        <3> QED
            BY <1>2, <3>1, <3>5
    <2>4. CASE ReceiveOpened
        <3> DEFINE S == {o \in Opens : o.generation = generation}
        <3>1. opened # <<>> /\ opened' = Tail(opened) /\ UNCHANGED <<generation, verified>>
            BY <2>4 DEF ReceiveOpened, state
        <3>2. \A i \in 1 .. Len(opened) : opened[i] \in S
            BY <1>2
        <3>3. \A i \in 1 .. Len(opened') : opened'[i] \in S
            BY <1>2, <3>1, <3>2, TailKeeps
        <3> QED
            BY <1>2, <3>1, <3>3
    <2>5. CASE ReceiveVerified
        <3> DEFINE S == {x \in Frames : x.generation = generation}
        <3>1. verified # <<>> /\ verified' = Tail(verified) /\ UNCHANGED <<generation, opened>>
            BY <2>5 DEF ReceiveVerified, state
        <3>2. \A i \in 1 .. Len(verified) : verified[i] \in S
            BY <1>2
        <3>3. \A i \in 1 .. Len(verified') : verified'[i] \in S
            BY <1>2, <3>1, <3>2, TailKeeps
        <3> QED
            BY <1>2, <3>1, <3>3
    <2>6. ASSUME UNCHANGED <<generation, opened, verified>> PROVE (Own(opened) /\ Own(verified))'
        BY <1>2, <2>6
    <2>7. ASSUME NEW c, AssignPending(c) PROVE UNCHANGED <<generation, opened, verified>>
        BY <2>7 DEF AssignPending, queues
    <2>8. ASSUME NEW k, TimerFires(k) PROVE UNCHANGED <<generation, opened, verified>>
        BY <2>8 DEF TimerFires, queues
    <2>9. ASSUME UNCHANGED <<active, generation, queues, history>> PROVE UNCHANGED <<generation, opened, verified>>
        BY <2>9 DEF queues
    <2>10. ASSUME Quiet PROVE UNCHANGED <<generation, opened, verified>>
        BY <2>10 DEF Quiet, queues
    <2> HIDE DEF Own
    <2> QED
        BY <2>1, <2>2, <2>3, <2>4, <2>5, <2>6, <2>7, <2>8, <2>9, <2>10, StepEffect DEF Effect
<1> QED
    BY <1>1, <1>3 DEF GenerationIsolated, TypeInv, GenerationInv, AssignInv, NativeInv

\* A failure that the broker finds itself leaves the fatal callback on its
\* way until the owner has closed the generation.
LEMMA NextReported ==
    ASSUME TypeInv, FailureReported, [Next]_vars
    PROVE  FailureReported'
<1>1. CASE Activate
    BY <1>1 DEF Activate, FailureReported
<1>2. CASE failLocked
    BY <1>2 DEF failLocked, FailureReported
<1>3. ASSUME NEW g, CloseGeneration(g), fatalCalls \ {g} \subseteq fatalCalls'
      PROVE  FailureReported'
    <2>1. CASE g = generation
        BY <1>3, <2>1 DEF CloseGeneration, FailureReported
    <2>2. CASE g # generation
        <3>1. UNCHANGED <<active, fatal>> /\ (fatal = 0 \/ fatal # g)
            BY <1>3, <2>2 DEF CloseGeneration, state, TypeInv, GenerationInv
        <3> QED
            BY <1>3, <3>1 DEF FailureReported
    <2> QED
        BY <2>1, <2>2
<1>4. CASE UNCHANGED <<active, fatal, fatalCalls>>
    BY <1>4 DEF FailureReported
<1>5. CASE Deactivate
    BY <1>3, <1>5 DEF Deactivate
<1>6. ASSUME NEW g \in Generations, FatalCall(g) PROVE FailureReported'
    BY <1>3, <1>6 DEF FatalCall
<1>7. ASSUME NEW h, Open(h) PROVE FailureReported'
    BY <1>2, <1>4, <1>7 DEF Open, OpenInvalid, OpenAccepted, OpenOverflow
<1>8. ASSUME NEW c, AssignCall(c) \/ AssignStep(c) PROVE FailureReported'
    BY <1>4, <1>8 DEF AssignCall, AssignBegin, AssignStep, AssignRefused, AssignDuplicate,
                      AssignPending, AssignOK, AssignRejected, AssignClose, state
<1>9. ASSUME NEW d, DeliverCall(d) \/ DeliverStep(d) PROVE FailureReported'
    BY <1>2, <1>4, <1>9 DEF DeliverCall, DeliverCallback, DeliverIPCFrame, DeliverStep,
                            DeliverCheck, DeliverRefused, DeliverMismatch, DeliverPublish,
                            DeliverOverflow, DeliverClose, state
<1>10. CASE (\E k \in Correlations : TimerFires(k)) \/ (\E x \in expiring : Expire(x))
    BY <1>4, <1>10 DEF TimerFires, Expire
<1>11. CASE ReceiveOpened \/ ReceiveVerified \/ Tick \/ UNCHANGED vars
    BY <1>4, <1>11 DEF ReceiveOpened, ReceiveVerified, Tick, vars, state
<1> QED
    BY <1>1, <1>5, <1>6, <1>7, <1>8, <1>9, <1>10, <1>11 DEF Next

\* Expire goroutines only come from timers that were due, and the clock does
\* not go back.
LEMMA ExpiringSteps ==
    ASSUME TypeInv, [Next]_vars
    PROVE  /\ clock' >= clock
           /\ \/ expiring' = expiring
              \/ \E x \in expiring : Expire(x)
              \/ \E k \in Correlations : TimerFires(k)
<1>0. clock' = clock \/ clock' = clock + 1
    BY ZenonT(60) DEF Next, vars, Activate, Deactivate, FatalCall,
       Open, OpenInvalid, OpenAccepted, OpenOverflow, AssignCall, AssignBegin, AssignStep,
       AssignRefused, AssignDuplicate, AssignPending, AssignOK, AssignRejected, AssignClose,
       TimerFires, Expire, DeliverCall, DeliverCallback, DeliverIPCFrame, DeliverStep,
       DeliverCheck, DeliverRefused, DeliverMismatch, DeliverPublish, DeliverOverflow,
       DeliverClose, ReceiveOpened, ReceiveVerified, Tick
<1>1. clock' >= clock
    BY <1>0, BoundAssumption DEF TypeInv, TypeOK, ScalarsType
<1>2. \/ expiring' = expiring
      \/ \E x \in expiring : Expire(x)
      \/ \E k \in Correlations : TimerFires(k)
    BY ZenonT(60) DEF Next, vars, Activate, Deactivate, FatalCall,
       Open, OpenInvalid, OpenAccepted, OpenOverflow, AssignCall, AssignBegin, AssignStep,
       AssignRefused, AssignDuplicate, AssignPending, AssignOK, AssignRejected, AssignClose,
       DeliverCall, DeliverCallback, DeliverIPCFrame, DeliverStep,
       DeliverCheck, DeliverRefused, DeliverMismatch, DeliverPublish, DeliverOverflow,
       DeliverClose, ReceiveOpened, ReceiveVerified, Tick
<1> QED
    BY <1>1, <1>2

\* Every step keeps expire goroutines to expired assignments.
LEMMA NextExpired ==
    ASSUME TypeInv, ExpiredInv, [Next]_vars
    PROVE  ExpiredInv'
<1>1. /\ clock \in Nat /\ clock' \in Nat
      /\ \A x \in expiring : x.expiresAt \in Nat
    BY NextTypeInv, BoundAssumption DEF TypeInv, TypeOK, ScalarsType, ThreadsType, Frames, Instants
<1>2. clock' >= clock
    BY ExpiringSteps
<1>3. CASE expiring' \subseteq expiring
    BY <1>1, <1>2, <1>3 DEF ExpiredInv
<1>4. ASSUME NEW k \in Correlations, TimerFires(k) PROVE ExpiredInv'
    <2> DEFINE x == [generation |-> generation, handle |-> correlations[k].handle,
                     correlation |-> k, expiresAt |-> correlations[k].expiresAt]
    <2>1. /\ expiring' = expiring \cup {x} /\ clock' = clock
          /\ clock >= correlations[k].expiresAt /\ k \in DOMAIN correlations
        BY <1>4 DEF TimerFires
    <2>2. x.expiresAt = correlations[k].expiresAt /\ correlations[k].expiresAt \in Nat
        BY <2>1, BoundAssumption DEF TypeInv, TypeOK, MapsType, Pending, Instants
    <2> HIDE DEF x
    <2> QED
        BY <1>1, <2>1, <2>2 DEF ExpiredInv
<1>5. ASSUME NEW x \in expiring, Expire(x) PROVE ExpiredInv'
    BY <1>3, <1>5 DEF Expire
<1> QED
    BY <1>3, <1>4, <1>5, ExpiringSteps

----------------------------------------------------------------------------
(***************************************************************************)
(* The theorems.                                                           *)
(***************************************************************************)
SafetyInv ==
    /\ TypeInv /\ PendingHandleOpen
    /\ GrantInv /\ HistoryInv /\ BoundInv
    /\ AssignInv /\ GenerationIsolated /\ FailureReported /\ ExpiredInv

\* A new broker satisfies the whole invariant.
LEMMA InitSafety == Init => SafetyInv
<1> SUFFICES ASSUME Init PROVE SafetyInv
    OBVIOUS
<1>1. DOMAIN handles = {} /\ DOMAIN correlations = {}
    BY EmptyFacts DEF Init
<1>2. TypeInv /\ PendingHandleOpen
    BY <1>1, InitTypeInv, EmptyPending
<1>3. GrantInv /\ HistoryInv
    BY <1>1, LogEmpty DEF Init, GrantInv, FramesGranted, HistoryInv
<1>4. BoundInv
    BY <1>1, FS_EmptySet, BoundAssumption DEF BoundInv, HandlesBounded
<1>5. /\ IdleCaller.generation = 0 /\ IdleCaller.pc = "idle" /\ IdleCaller.result = "none"
      /\ \A c \in Callers : caller[c] = IdleCaller
    BY DEF Init, IdleCaller, CallerAt
<1>6. AssignInv
    BY <1>1, <1>5 DEF Init, AssignInv, CallerInv, RejectedInv, NativeInv
<1>7. GenerationIsolated
    BY <1>1, <1>5 DEF Init, GenerationIsolated
<1>8. FailureReported /\ ExpiredInv
    BY DEF Init, FailureReported, ExpiredInv
<1> QED
    BY <1>2, <1>3, <1>4, <1>6, <1>7, <1>8 DEF SafetyInv

\* Every step of the broker preserves the whole invariant.
LEMMA NextSafety == SafetyInv /\ [Next]_vars => SafetyInv'
BY NextTypeInv, NextPending, NextGrant, NextHistory, NextBound, NextAssign, NextIsolated,
   NextReported, NextExpired DEF SafetyInv

\* The invariant holds throughout.
LEMMA Safety == Spec => []SafetyInv
BY InitSafety, NextSafety, PTL DEF Spec

\* Nothing survives its generation, and assignNative is called outside the lock
\* only as the function of the assignment's own generation, for every number
\* of generations, goroutines and interleavings of them.
THEOREM Isolation == Spec => []GenerationIsolated
<1>1. SafetyInv => GenerationIsolated
    BY DEF SafetyInv
<1> QED
    BY <1>1, Safety, PTL

\* Whatever the native side delivers, a frame on the queue has the handle and
\* the correlation of an assignment the broker admitted in this generation,
\* and an expiry that is never later than the admitted one and less than a
\* millisecond earlier (the checks of deliver under the lock, on UnixMilli
\* values, suffice).
THEOREM FramesAsGranted == Spec => []FramesGranted
<1>1. SafetyInv => FramesGranted
    BY DEF SafetyInv, GrantInv
<1> QED
    BY <1>1, Safety, PTL

\* A generation that failed inside the broker is always on its way to its
\* owner: failLocked never loses the fatal callback.
THEOREM FailuresReachOwner == Spec => []FailureReported
<1>1. SafetyInv => FailureReported
    BY DEF SafetyInv
<1> QED
    BY <1>1, Safety, PTL

\* The handle map never exceeds its limit, whatever it is: eviction in open
\* makes room or the broker fails.
THEOREM HandleMapBounded == Spec => []HandlesBounded
<1>1. SafetyInv => HandlesBounded
    BY DEF SafetyInv, BoundInv
<1> QED
    BY <1>1, Safety, PTL

\* A handle for which AssignConnection returned an error stays closed for the
\* rest of its generation, on every error path of assign.
THEOREM RefusalIsFinal == Spec => []RejectedStaysClosed
<1>1. SafetyInv => RejectedStaysClosed
    <2> SUFFICES ASSUME SafetyInv, NEW c \in Callers,
                        caller[c].pc = "idle", caller[c].result \notin {"none", "ok"},
                        caller[c].generation = generation
                 PROVE  caller[c].handle \notin DOMAIN handles /\ PendingOf(caller[c].handle) = {}
        BY DEF RejectedStaysClosed
    <2>1. caller[c].handle \notin DOMAIN handles
        BY DEF SafetyInv, AssignInv, RejectedInv
    <2> QED
        BY <2>1 DEF SafetyInv, PendingHandleOpen, PendingOf
<1> QED
    BY <1>1, Safety, PTL

----------------------------------------------------------------------------
(***************************************************************************)
(* What a step may never do.                                               *)
(***************************************************************************)
\* expire takes away only assignments that have expired, also when its timer
\* lost the race with Stop and the correlation was assigned again.
THEOREM ExpiryIsSound == Spec => ExpireOnlyExpired
<1> DEFINE Sound == \A k \in DOMAIN correlations \ DOMAIN correlations' :
                       expiring' # expiring => correlations[k].expiresAt <= clock
<1>1. SafetyInv /\ [Next]_vars => [Sound]_vars
    <2> SUFFICES ASSUME SafetyInv, [Next]_vars,
                        NEW k \in DOMAIN correlations \ DOMAIN correlations',
                        expiring' # expiring
                 PROVE  correlations[k].expiresAt <= clock
        OBVIOUS
    <2>1. CASE \E j \in Correlations : TimerFires(j)
        BY <2>1, TimerFacts DEF SafetyInv
    <2>2. ASSUME NEW x \in expiring, Expire(x) PROVE correlations[k].expiresAt <= clock
        <3>1. CASE Matches(x)
            <4>1. correlations' = Without(correlations, {x.correlation})
                BY <2>2, <3>1 DEF Expire
            <4>2. k = x.correlation
                BY <4>1 DEF Without, Restrict
            <4> QED
                BY <3>1, <4>2 DEF Matches, SafetyInv, ExpiredInv
        <3>2. CASE ~Matches(x)
            BY <2>2, <3>2 DEF Expire
        <3> QED
            BY <3>1, <3>2
    <2> QED
        BY <2>1, <2>2, ExpiringSteps DEF SafetyInv
<1> QED
    BY <1>1, Safety, PTL DEF Spec, ExpireOnlyExpired

\* A step of a goroutine in assign moves no other one.
LEMMA OneCaller ==
    ASSUME TypeInv, NEW b \in Callers, NEW c \in Callers, AssignCall(c) \/ AssignStep(c),
           caller'[b] # caller[b]
    PROVE  b = c
<1>1. \E v : caller' = [caller EXCEPT ![c] = v]
    BY CallFacts, AssignStepFacts
<1>2. caller \in [Callers -> CallerRecords]
    BY DEF TypeInv, TypeOK, ThreadsType
<1> QED
    BY <1>1, <1>2

\* A step of a goroutine in assign whose generation is over changes nothing.
LEMMA StaleCaller ==
    ASSUME TypeInv, NEW c \in Callers, caller[c].pc # "idle", caller[c].generation # generation,
           AssignCall(c) \/ AssignStep(c)
    PROVE  UNCHANGED <<state, queues>>
<1>1. ~AssignCall(c)
    BY DEF AssignCall, AssignBegin
<1>2. ~AssignDuplicate(c) /\ ~AssignPending(c)
    BY DEF AssignDuplicate, AssignPending, Assignable
<1>3. CASE AssignClose(c)
    BY <1>3 DEF AssignClose, closeHandle, state
<1>4. CASE AssignRefused(c) \/ AssignOK(c) \/ AssignRejected(c)
    BY <1>4 DEF AssignRefused, AssignOK, AssignRejected
<1> QED
    BY <1>1, <1>2, <1>3, <1>4 DEF AssignStep

\* The same of a goroutine in deliver.
LEMMA StaleDeliverer ==
    ASSUME NEW d \in Deliverers, deliverer[d].pc # "idle", deliverer[d].generation # generation,
           DeliverCall(d) \/ DeliverStep(d)
    PROVE  UNCHANGED <<state, queues>>
<1>1. ~DeliverCall(d)
    BY DEF DeliverCall, DeliverCallback, DeliverIPCFrame
<1>2. ~DeliverMismatch(d) /\ ~DeliverPublish(d) /\ ~DeliverOverflow(d)
    BY DEF DeliverMismatch, DeliverPublish, DeliverOverflow, Deliverable
<1>3. CASE DeliverClose(d)
    BY <1>3 DEF DeliverClose, state
<1>4. CASE (\E frameOK \in BOOLEAN : DeliverCheck(d, frameOK)) \/ DeliverRefused(d)
    BY <1>4 DEF DeliverCheck, DeliverRefused
<1> QED
    BY <1>1, <1>2, <1>3, <1>4 DEF DeliverStep

\* Only a delivery moves the goroutines in deliver, one at a time.
LEMMA OneDeliverer ==
    ASSUME TypeInv, [Next]_vars, NEW b \in Deliverers, deliverer'[b] # deliverer[b]
    PROVE  DeliverCall(b) \/ DeliverStep(b)
<1>1. PICK d \in Deliverers : DeliverCall(d) \/ DeliverStep(d)
    BY ZenonT(60) DEF Next, vars, Activate, Deactivate, FatalCall, Open, OpenInvalid, OpenAccepted,
       OpenOverflow, AssignCall, AssignBegin, AssignStep, AssignRefused, AssignDuplicate,
       AssignPending, AssignOK, AssignRejected, AssignClose, TimerFires, Expire,
       ReceiveOpened, ReceiveVerified, Tick
<1>2. \E v : deliverer' = [deliverer EXCEPT ![d] = v]
    BY <1>1 DEF DeliverCall, DeliverCallback, DeliverIPCFrame, DeliverStep, DeliverCheck,
       DeliverRefused, DeliverMismatch, DeliverPublish, DeliverOverflow, DeliverClose
<1>3. deliverer \in [Deliverers -> DelivererRecords]
    BY DEF TypeInv, TypeOK, ThreadsType
<1>4. b = d
    BY <1>2, <1>3
<1> QED
    BY <1>1, <1>4

\* Only the fatal callback of g takes g from the pending callbacks.
LEMMA OneFatalCall ==
    ASSUME [Next]_vars, NEW g \in fatalCalls \ fatalCalls'
    PROVE  FatalCall(g)
<1>1. \/ \E f \in Generations : FatalCall(f)
      \/ fatalCalls \subseteq fatalCalls'
    BY ZenonT(60) DEF Next, vars, Activate, Deactivate, Open, OpenInvalid, OpenAccepted,
       OpenOverflow, AssignCall, AssignBegin, AssignStep, AssignRefused, AssignDuplicate,
       AssignPending, AssignOK, AssignRejected, AssignClose, TimerFires, Expire,
       DeliverCall, DeliverCallback, DeliverIPCFrame, DeliverStep, DeliverCheck,
       DeliverRefused, DeliverMismatch, DeliverPublish, DeliverOverflow, DeliverClose,
       ReceiveOpened, ReceiveVerified, Tick, failLocked
<1>2. \A f : FatalCall(f) => f = g
    BY DEF FatalCall
<1> QED
    BY <1>1, <1>2

\* Whatever an earlier generation left behind (an assign after its native call,
\* a delivery, a started timer, a fatal callback) changes nothing of the
\* generation that is active when it gets the lock.
THEOREM LeftoversHarmless == Spec => StaleGenerationHarmless
<1> DEFINE Leftover ==
              \/ \E c \in Callers : /\ caller'[c] # caller[c]
                                    /\ caller[c].pc # "idle"
                                    /\ caller[c].generation # generation
              \/ \E d \in Deliverers : /\ deliverer'[d] # deliverer[d]
                                       /\ deliverer[d].pc # "idle"
                                       /\ deliverer[d].generation # generation
              \/ \E x \in expiring \ expiring' : x.generation # generation
              \/ \E g \in fatalCalls \ fatalCalls' : g # generation
<1>1. TypeInv /\ [Next]_vars => [Leftover => UNCHANGED <<state, queues>>]_vars
    <2> SUFFICES ASSUME TypeInv, [Next]_vars, Leftover PROVE UNCHANGED <<state, queues>>
        OBVIOUS
    <2>1. ASSUME NEW c \in Callers, caller'[c] # caller[c], caller[c].pc # "idle",
                 caller[c].generation # generation
          PROVE  UNCHANGED <<state, queues>>
        <3>1. PICK b \in Callers : AssignCall(b) \/ AssignStep(b)
            BY <2>1, CallerSteps DEF CallerStep
        <3>2. b = c
            BY <2>1, <3>1, OneCaller
        <3> QED
            BY <2>1, <3>1, <3>2, StaleCaller
    <2>2. ASSUME NEW d \in Deliverers, deliverer'[d] # deliverer[d], deliverer[d].pc # "idle",
                 deliverer[d].generation # generation
          PROVE  UNCHANGED <<state, queues>>
        BY <2>2, OneDeliverer, StaleDeliverer
    <2>3. ASSUME NEW x \in expiring \ expiring', x.generation # generation
          PROVE  UNCHANGED <<state, queues>>
        <3>1. PICK y \in expiring : Expire(y)
            BY <2>3, ExpiringSteps DEF TimerFires
        <3>2. y = x
            BY <2>3, <3>1 DEF Expire
        <3>3. ~Matches(x)
            BY <2>3 DEF Matches
        <3> QED
            BY <3>1, <3>2, <3>3 DEF Expire, state
    <2>4. ASSUME NEW g \in fatalCalls \ fatalCalls', g # generation
          PROVE  UNCHANGED <<state, queues>>
        BY <2>4, OneFatalCall DEF FatalCall, CloseGeneration
    <2> QED
        BY <2>1, <2>2, <2>3, <2>4
<1>2. Spec => []TypeInv
    BY InitTypeInv, NextTypeInv, PTL DEF Spec
<1> QED
    BY <1>1, <1>2, PTL DEF Spec, StaleGenerationHarmless

----------------------------------------------------------------------------
(***************************************************************************)
(* The refinement mapping.                                                 *)
(***************************************************************************)
\* The phases of a handle in terms of the broker's maps and history: no two
\* overlap.
PhaseTable ==
    \A h \in Handles :
        /\ PhaseOf(h) = "published" <=> h \in Delivered
        /\ PhaseOf(h) = "bound" <=> h \in Assigning
        /\ PhaseOf(h) = "open" <=> h \in DOMAIN handles /\ h \notin Assigning
        /\ PhaseOf(h) = "closed" <=>
              h \in reported /\ h \notin Delivered /\ h \notin DOMAIN handles
        /\ PhaseOf(h) = "unknown" <=> h \notin reported
        /\ PhaseOf(h) \in {"published", "bound", "open", "closed", "unknown"}

\* The terms of a bound handle are those of its only pending entry.
TermsTable ==
    \A h \in Handles :
        /\ \A k \in DOMAIN correlations :
              correlations[k].handle = h => TermsOf(h) = EntryTerms(k)
        /\ h \notin Assigning => TermsOf(h) = NoTerms

MappingInv == PhaseTable /\ TermsTable

\* Every reachable state has the phases and the terms that the tables say.
LEMMA Mapping == SafetyInv => MappingInv
<1> SUFFICES ASSUME SafetyInv PROVE MappingInv
    OBVIOUS
<1>1. /\ DOMAIN handles \subseteq reported /\ Delivered \subseteq reported
      /\ Delivered \cap DOMAIN handles = {}
    BY DEF SafetyInv, HistoryInv
<1>2. Assigning \subseteq DOMAIN handles
    BY DEF SafetyInv, PendingHandleOpen, Assigning
<1>3. \A h : h \in Assigning <=> PendingOf(h) # {}
    BY DEF Assigning, PendingOf
<1>4. PhaseTable
    BY <1>1, <1>2, <1>3 DEF PhaseOf, PhaseTable
<1>5. ASSUME NEW h \in Handles, NEW k \in DOMAIN correlations, correlations[k].handle = h
      PROVE  TermsOf(h) = EntryTerms(k)
    <2>1. PendingOf(h) = {k}
        BY <1>5 DEF SafetyInv, PendingHandleOpen, PendingOf
    <2>2. (CHOOSE j \in PendingOf(h) : TRUE) = k
        BY <2>1
    <2> QED
        BY <2>1, <2>2 DEF TermsOf
<1>6. ASSUME NEW h \in Handles, h \notin Assigning PROVE TermsOf(h) = NoTerms
    BY <1>3, <1>6 DEF TermsOf
<1> QED
    BY <1>4, <1>5, <1>6 DEF MappingInv, TermsTable

\* The terms of a handle stay while its pending entry does, and while it has
\* none.
LEMMA TermsKept ==
    ASSUME MappingInv, MappingInv', NEW h \in Handles,
           h \in Assigning' => h \in Assigning,
           \A k \in DOMAIN correlations : correlations[k].handle = h =>
               /\ k \in DOMAIN correlations'
               /\ correlations'[k].handle = h
               /\ correlations'[k].expiresAt = correlations[k].expiresAt
    PROVE  TermsOf(h)' = TermsOf(h)
<1>1. CASE h \in Assigning
    <2>1. PICK k \in DOMAIN correlations : correlations[k].handle = h
        BY <1>1 DEF Assigning
    <2>2. TermsOf(h) = EntryTerms(k)
        BY <2>1 DEF MappingInv, TermsTable
    <2>3. TermsOf(h)' = EntryTerms(k)'
        BY <2>1 DEF MappingInv, TermsTable, EntryTerms
    <2>4. EntryTerms(k)' = EntryTerms(k)
        BY <2>1 DEF EntryTerms
    <2> QED
        BY <2>2, <2>3, <2>4
<1>2. CASE h \notin Assigning
    BY <1>2 DEF MappingInv, TermsTable, NoTerms
<1> QED
    BY <1>1, <1>2

----------------------------------------------------------------------------
(***************************************************************************)
(* Each kind of step implements a step of HandOff.                         *)
(***************************************************************************)
\* A new broker is in an initial state of HandOff.
LEMMA InitPromise == Init => Promise!Init
<1> SUFFICES ASSUME Init PROVE Promise!Init
    OBVIOUS
<1>1. MappingInv
    BY InitSafety, Mapping
<1>2. reported = {} /\ published = <<>> /\ Assigning = {}
    BY EmptyFacts DEF Init, Assigning
<1>3. \A h \in Handles : PhaseOf(h) = "unknown" /\ TermsOf(h) = NoTerms
    BY <1>1, <1>2 DEF MappingInv, PhaseTable, TermsTable
<1> QED
    BY <1>2, <1>3 DEF Promise!Init

\* Activation renews every connection.
LEMMA ActivateRenews ==
    ASSUME MappingInv', Activate
    PROVE  Promise!Renew
<1>1. reported' = {} /\ published' = <<>> /\ Assigning' = {}
    BY EmptyFacts DEF Activate, clearLocked, Assigning
<1>2. \A h \in Handles : PhaseOf(h)' = "unknown" /\ TermsOf(h)' = NoTerms
    BY <1>1 DEF MappingInv, PhaseTable, TermsTable, NoTerms
<1> QED
    BY <1>1, <1>2 DEF Promise!Renew

\* When the generation ends everything live is given up, and so is a report
\* that the failure swallowed.
LEMMA EndingEnds ==
    ASSUME SafetyInv, MappingInv, MappingInv', Ending
    PROVE  Promise!End
<1> DEFINE S == reported' \ reported
           D == {h \in Handles : h \in DOMAIN handles}
<1>1. /\ DOMAIN handles' = {} /\ Assigning' = {} /\ DOMAIN correlations' = {}
      /\ reported \subseteq reported' /\ reported' \subseteq Handles
      /\ UNCHANGED <<published, Delivered>>
    BY EmptyFacts DEF Ending, clearLocked, Assigning, Delivered
<1>2. /\ DOMAIN handles \subseteq reported /\ Delivered \subseteq reported
      /\ Delivered \cap DOMAIN handles = {} /\ Assigning \subseteq DOMAIN handles
    BY DEF SafetyInv, HistoryInv, PendingHandleOpen, Assigning
<1>3. S \in SUBSET Promise!In("unknown")
    BY <1>1 DEF MappingInv, PhaseTable, Promise!In
<1>4. Promise!Live = D
    BY <1>2 DEF MappingInv, PhaseTable, Promise!Live, Promise!In
<1>5. \A h \in Handles : PhaseOf(h)' = IF h \in S \cup D THEN "closed" ELSE PhaseOf(h)
    BY <1>1, <1>2 DEF MappingInv, PhaseTable
<1>6. \A h \in Handles : TermsOf(h)' = IF h \in D THEN NoTerms ELSE TermsOf(h)
    <2> SUFFICES ASSUME NEW h \in Handles
                 PROVE  TermsOf(h)' = IF h \in D THEN NoTerms ELSE TermsOf(h)
        OBVIOUS
    <2>1. TermsOf(h)' = NoTerms
        BY <1>1 DEF MappingInv, TermsTable, NoTerms
    <2>2. h \notin D => TermsOf(h) = NoTerms
        BY <1>2 DEF MappingInv, TermsTable
    <2> QED
        BY <2>1, <2>2
<1> HIDE DEF S, D
<1>7. [h \in Handles |-> PhaseOf(h)]' = Promise!Given(S \cup Promise!Live)
    BY <1>4, <1>5 DEF Promise!Given
<1>8. [h \in Handles |-> TermsOf(h)]' = Promise!Cleared(Promise!Live)
    BY <1>4, <1>6 DEF Promise!Cleared
<1> QED
    BY <1>1, <1>3, <1>7, <1>8 DEF Promise!End

\* An accepted report opens the connection; what eviction takes away was open
\* and not bound.
LEMMA OpenReports ==
    ASSUME SafetyInv, MappingInv, MappingInv', NEW h \in Handles, OpenAccepted(h)
    PROVE  Promise!Report(h)
<1>1. PICK S \in Survivors : DOMAIN handles' = S \cup {h}
    BY OpenFacts
<1>2. /\ h \notin reported /\ reported' = reported \cup {h}
      /\ UNCHANGED <<correlations, published, Delivered>>
    BY OpenFacts DEF Delivered
<1>3. /\ DOMAIN handles \subseteq reported /\ Delivered \subseteq reported
      /\ Delivered \cap DOMAIN handles = {} /\ Assigning \subseteq DOMAIN handles
      /\ reported \subseteq Handles
    BY DEF SafetyInv, HistoryInv, PendingHandleOpen, Assigning, TypeInv, TypeOK, HistoryType
<1>4. S \subseteq DOMAIN handles /\ Assigning \subseteq S /\ Assigning' = Assigning
    BY <1>2, <1>3, SurvivorsSpareAssigning DEF Assigning
<1> DEFINE E == DOMAIN handles \ S
<1>5. E \in SUBSET Promise!In("open")
    BY <1>3, <1>4 DEF MappingInv, PhaseTable, Promise!In
<1>6. PhaseOf(h) = "unknown"
    BY <1>2 DEF MappingInv, PhaseTable
<1>7. \A o \in Handles :
         PhaseOf(o)' = IF o = h THEN "open" ELSE IF o \in E THEN "closed" ELSE PhaseOf(o)
    BY <1>1, <1>2, <1>3, <1>4 DEF MappingInv, PhaseTable
<1>8. \A o \in Handles : TermsOf(o)' = TermsOf(o)
    BY <1>2, <1>4, TermsKept
<1> HIDE DEF E
<1>9. [o \in Handles |-> PhaseOf(o)]' = [Promise!Given(E) EXCEPT ![h] = "open"]
    BY <1>7 DEF Promise!Given
<1>10. [o \in Handles |-> TermsOf(o)]' = [o \in Handles |-> TermsOf(o)]
    BY <1>8
<1> QED
    BY <1>2, <1>5, <1>6, <1>9, <1>10 DEF Promise!Report

\* An admitted assignment binds an open connection to a correlation that no
\* other connection is bound to.
LEMMA PendingBinds ==
    ASSUME SafetyInv, MappingInv, MappingInv', NEW c \in Callers, AssignPending(c)
    PROVE  \E h \in Handles : Promise!Bind(h)
<1> DEFINE a == caller[c]
           h == a.handle
           k == a.correlation
           t == [correlation |-> k, expiresAt |-> a.expiresAt]
<1>1. /\ k \notin DOMAIN correlations
      /\ DOMAIN correlations' = DOMAIN correlations \cup {k}
      /\ correlations'[k].handle = h
      /\ correlations'[k].expiresAt = a.expiresAt
      /\ \A j \in DOMAIN correlations : correlations'[j] = correlations[j]
      /\ h \in DOMAIN handles /\ PendingOf(h) = {}
      /\ UNCHANGED <<handles, reported, published>>
    BY PendingFacts
<1>2. Delivered' = Delivered /\ t.correlation = k
    BY <1>1 DEF Delivered
<1>3. h \in Handles /\ t \in [correlation : Correlations, expiresAt : Instants]
    <2>1. a \in CallerRecords
        BY DEF SafetyInv, TypeInv, TypeOK, ThreadsType
    <2>2. k \in Correlations
        BY DEF AssignPending, SafetyInv, TypeInv, AssignmentInv
    <2>3. h \in Handles
        BY <1>1 DEF SafetyInv, TypeInv, TypeOK, MapsType
    <2> QED
        BY <2>1, <2>2, <2>3 DEF CallerRecords
<1> HIDE DEF a, h, k, t
<1>4. h \notin Assigning
    BY <1>1 DEF Assigning, PendingOf
<1>5. Assigning' = Assigning \cup {h}
    BY <1>1 DEF Assigning
<1>6. /\ Delivered \cap DOMAIN handles = {} /\ Assigning \subseteq DOMAIN handles
    BY DEF SafetyInv, HistoryInv, PendingHandleOpen, Assigning
<1>7. PhaseOf(h) = "open"
    BY <1>1, <1>3, <1>4 DEF MappingInv, PhaseTable
<1>8. ASSUME NEW o \in Handles, PhaseOf(o) = "bound" PROVE TermsOf(o).correlation # k
    <2>1. o \in Assigning
        BY <1>8 DEF MappingInv, PhaseTable
    <2>2. PICK j \in DOMAIN correlations : correlations[j].handle = o
        BY <2>1 DEF Assigning
    <2>3. TermsOf(o) = EntryTerms(j)
        BY <2>2 DEF MappingInv, TermsTable
    <2>4. TermsOf(o).correlation = j
        BY <2>3 DEF EntryTerms
    <2> QED
        BY <1>1, <2>4
<1>9. \A o \in Handles : PhaseOf(o)' = IF o = h THEN "bound" ELSE PhaseOf(o)
    BY <1>1, <1>2, <1>3, <1>5, <1>6 DEF MappingInv, PhaseTable
<1>10. \A o \in Handles : TermsOf(o)' = IF o = h THEN t ELSE TermsOf(o)
    <2>1. ASSUME NEW o \in Handles, o = h PROVE TermsOf(o)' = t
        <3>1. PICK j \in DOMAIN correlations' : j = k
            BY <1>1
        <3>2. TermsOf(o)' = EntryTerms(j)'
            BY <1>1, <2>1, <3>1 DEF MappingInv, TermsTable, EntryTerms
        <3>3. EntryTerms(j)' = t
            BY <1>1, <3>1 DEF EntryTerms, t
        <3> QED
            BY <3>2, <3>3
    <2>2. ASSUME NEW o \in Handles, o # h PROVE TermsOf(o)' = TermsOf(o)
        BY <1>1, <1>5, <2>2, TermsKept
    <2> QED
        BY <2>1, <2>2
<1>11. [o \in Handles |-> PhaseOf(o)]' = [[o \in Handles |-> PhaseOf(o)] EXCEPT ![h] = "bound"]
    BY <1>9
<1>12. [o \in Handles |-> TermsOf(o)]' = [[o \in Handles |-> TermsOf(o)] EXCEPT ![h] = t]
    BY <1>10
<1>13. Promise!Bind(h)
    BY <1>1, <1>2, <1>3, <1>7, <1>8, <1>11, <1>12 DEF Promise!Bind, Promise!In
<1> QED
    BY <1>3, <1>13

\* A published frame is the next and only one of a bound connection, and shows
\* the terms of the entry pending at that moment.
LEMMA DeliverPublishes ==
    ASSUME SafetyInv, MappingInv, MappingInv', NEW d, DeliverPublish(d)
    PROVE  \E h \in Handles : Promise!Publish(h)
<1> DEFINE k == deliverer[d].correlation
           h == correlations[k].handle
<1>1. /\ k \in DOMAIN correlations /\ Removal({h})
      /\ published' = Append(published, PublicationOf(k))
      /\ Delivered' = Delivered \cup {h}
      /\ UNCHANGED reported
    BY PublishFacts DEF SafetyInv
<1>2. h \in Handles /\ h \in Assigning
    BY <1>1 DEF SafetyInv, TypeInv, TypeOK, MapsType, Pending, Assigning
<1>3. TermsOf(h) = EntryTerms(k)
    BY <1>1, <1>2 DEF MappingInv, TermsTable
<1>4. PublicationOf(k) =
        [handle |-> h, correlation |-> TermsOf(h).correlation,
         expiresAt |-> TimeOfMilli(UnixMilli(TermsOf(h).expiresAt))]
    BY <1>3 DEF PublicationOf, EntryTerms
<1> HIDE DEF k, h
<1>5. /\ DOMAIN handles' = DOMAIN handles \ {h} /\ Assigning' = Assigning \ {h}
      /\ DOMAIN correlations' = DOMAIN correlations \ PendingIn({h})
      /\ \A j \in DOMAIN correlations' : correlations'[j] = correlations[j]
    BY <1>1, RemovalFacts, RemovalAssigning
<1>6. PhaseOf(h) = "bound"
    BY <1>2 DEF MappingInv, PhaseTable
<1>7. \A o \in Handles : PhaseOf(o)' = IF o = h THEN "published" ELSE PhaseOf(o)
    BY <1>1, <1>2, <1>5 DEF MappingInv, PhaseTable
<1>8. \A o \in Handles : TermsOf(o)' = IF o = h THEN NoTerms ELSE TermsOf(o)
    <2>1. ASSUME NEW o \in Handles, o = h PROVE TermsOf(o)' = NoTerms
        BY <1>5, <2>1 DEF MappingInv, TermsTable, NoTerms
    <2>2. ASSUME NEW o \in Handles, o # h PROVE TermsOf(o)' = TermsOf(o)
        BY <1>5, <2>2, TermsKept DEF PendingIn
    <2> QED
        BY <2>1, <2>2
<1>9. [o \in Handles |-> PhaseOf(o)]' = [[o \in Handles |-> PhaseOf(o)] EXCEPT ![h] = "published"]
    BY <1>7
<1>10. [o \in Handles |-> TermsOf(o)]' = [[o \in Handles |-> TermsOf(o)] EXCEPT ![h] = NoTerms]
    BY <1>8
<1>11. Promise!Publish(h)
    BY <1>1, <1>2, <1>4, <1>6, <1>9, <1>10 DEF Promise!Publish
<1> QED
    BY <1>2, <1>11

\* Handles that are removed were live and are given up.
LEMMA RemovalDrops ==
    ASSUME SafetyInv, MappingInv, MappingInv', NEW S, Removal(S), UNCHANGED history
    PROVE  \E T \in SUBSET Promise!Live : Promise!Drop(T)
<1> DEFINE T == S \cap DOMAIN handles
<1>1. /\ DOMAIN handles' = DOMAIN handles \ S /\ Assigning' = Assigning \ S
      /\ DOMAIN correlations' = DOMAIN correlations \ PendingIn(S)
      /\ \A j \in DOMAIN correlations' : correlations'[j] = correlations[j]
    BY RemovalFacts, RemovalAssigning
<1>2. /\ DOMAIN handles \subseteq reported /\ reported \subseteq Handles
      /\ Delivered \cap DOMAIN handles = {} /\ Assigning \subseteq DOMAIN handles
    BY DEF SafetyInv, HistoryInv, PendingHandleOpen, Assigning, TypeInv, TypeOK, HistoryType
<1>3. UNCHANGED <<reported, published, Delivered>>
    BY DEF history, Delivered
<1>4. T \in SUBSET Promise!Live
    BY <1>2 DEF MappingInv, PhaseTable, Promise!Live, Promise!In
<1>5. \A o \in Handles : PhaseOf(o)' = IF o \in T THEN "closed" ELSE PhaseOf(o)
    BY <1>1, <1>2, <1>3 DEF MappingInv, PhaseTable
<1>6. \A o \in Handles : TermsOf(o)' = IF o \in T THEN NoTerms ELSE TermsOf(o)
    <2> SUFFICES ASSUME NEW o \in Handles
                 PROVE  TermsOf(o)' = IF o \in T THEN NoTerms ELSE TermsOf(o)
        OBVIOUS
    <2>1. CASE o \in T
        BY <1>1, <2>1 DEF MappingInv, TermsTable, NoTerms
    <2>2. CASE o \notin T
        <3>1. \A k \in DOMAIN correlations : correlations[k].handle = o => k \notin PendingIn(S)
            BY <1>2, <2>2 DEF PendingIn, Assigning
        <3>2. \A k \in DOMAIN correlations : correlations[k].handle = o =>
                 k \in DOMAIN correlations' /\ correlations'[k] = correlations[k]
            BY <1>1, <3>1
        <3>3. o \in Assigning' => o \in Assigning
            BY <1>1
        <3> QED
            BY <2>2, <3>2, <3>3, TermsKept
    <2> QED
        BY <2>1, <2>2
<1> HIDE DEF T
<1>7. [o \in Handles |-> PhaseOf(o)]' = Promise!Given(T)
    BY <1>5 DEF Promise!Given
<1>8. [o \in Handles |-> TermsOf(o)]' = Promise!Cleared(T)
    BY <1>6 DEF Promise!Cleared
<1> QED
    BY <1>3, <1>4, <1>7, <1>8 DEF Promise!Drop

\* A step that touches neither the open handles, nor the assignments pending
\* for them, nor the history is not seen by HandOff.
LEMMA QuietStutters ==
    ASSUME MappingInv, MappingInv', DOMAIN handles' = DOMAIN handles,
           DOMAIN correlations' = DOMAIN correlations,
           \A j \in DOMAIN correlations :
               /\ correlations'[j].handle = correlations[j].handle
               /\ correlations'[j].expiresAt = correlations[j].expiresAt,
           UNCHANGED <<reported, published>>
    PROVE  UNCHANGED Promise!vars
<1>1. Assigning' = Assigning /\ Delivered' = Delivered
    BY DEF Assigning, Delivered
<1>2. \A o \in Handles : PhaseOf(o)' = PhaseOf(o)
    BY <1>1 DEF MappingInv, PhaseTable
<1>3. \A o \in Handles : TermsOf(o)' = TermsOf(o)
    BY <1>1, TermsKept
<1>4. [o \in Handles |-> PhaseOf(o)]' = [o \in Handles |-> PhaseOf(o)]
    BY <1>2
<1>5. [o \in Handles |-> TermsOf(o)]' = [o \in Handles |-> TermsOf(o)]
    BY <1>3
<1> QED
    BY <1>4, <1>5 DEF Promise!vars

\* Every step of the broker is a step of HandOff or none.
LEMMA NextPromise ==
    ASSUME SafetyInv, MappingInv, MappingInv', [Next]_vars
    PROVE  [Promise!Next]_(Promise!vars)
<1> USE DEF Promise!Next
<1>0. TypeInv /\ PendingHandleOpen
    BY DEF SafetyInv
<1>1. CASE Activate
    BY <1>1, ActivateRenews
<1>2. CASE Ending
    BY <1>2, EndingEnds
<1>3. CASE \E h \in Handles : OpenAccepted(h)
    BY <1>3, OpenReports
<1>4. CASE \E c \in Callers : AssignPending(c)
    BY <1>4, PendingBinds
<1>5. CASE \E d \in Deliverers : DeliverPublish(d)
    BY <1>5, DeliverPublishes
<1>6. CASE \E S : Removal(S) /\ UNCHANGED <<active, generation, queues, history>>
    BY <1>6, RemovalDrops
<1>7. CASE \E k \in Correlations : TimerFires(k)
    BY <1>0, <1>7, TimerFacts, QuietStutters
<1>8. CASE ReceiveOpened \/ ReceiveVerified \/ Quiet
    <2>1. UNCHANGED <<handles, correlations, reported, published>>
        BY <1>8 DEF ReceiveOpened, ReceiveVerified, Quiet, state, history
    <2> QED
        BY <2>1, QuietStutters
<1> QED
    BY <1>0, <1>1, <1>2, <1>3, <1>4, <1>5, <1>6, <1>7, <1>8, StepEffect DEF Effect

\* The broker implements HandOff: for every number of connections,
\* correlations, goroutines and generations and every length of a millisecond,
\* no interleaving of callers, deliveries, timers and failures reports or binds
\* a connection twice, publishes a second frame of it or one that shows other
\* terms than those of the assignment pending at that moment, or revives a
\* connection that was given up.
THEOREM BrokerKeepsPromise == Spec => KeepsPromise
<1>1. SafetyInv /\ MappingInv /\ MappingInv' /\ [Next]_vars => [Promise!Next]_(Promise!vars)
    BY NextPromise
<1> QED
    BY <1>1, InitPromise, Mapping, Safety, PTL DEF Spec, KeepsPromise, Promise!Spec
=============================================================================
