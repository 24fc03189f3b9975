------------------------ MODULE IngressBrokerProofs ------------------------
(***************************************************************************)
(* Safety of the broker for every number of handles, correlations,         *)
(* goroutines and generations, every capacity and every lifetime.          *)
(***************************************************************************)
EXTENDS IngressBroker, SequenceTheorems, FiniteSetTheorems, TLAPS

----------------------------------------------------------------------------
(***************************************************************************)
(* The partial functions the two maps are.                                 *)
(***************************************************************************)
\* Deleting the keys S from a map keeps every other entry.
LEMMA WithoutFacts ==
    ASSUME NEW f, NEW S
    PROVE  /\ DOMAIN Without(f, S) = DOMAIN f \ S
           /\ \A x \in DOMAIN f \ S : Without(f, S)[x] = f[x]
           /\ \A B : f \in [DOMAIN f -> B] =>
                 Without(f, S) \in [DOMAIN f \ S -> B]
BY DEF Without, Restrict

\* Inserting x |-> v changes no other entry.
LEMMA WithFacts ==
    ASSUME NEW f, NEW x, NEW v
    PROVE  /\ DOMAIN With(f, x, v) = DOMAIN f \cup {x}
           /\ With(f, x, v)[x] = v
           /\ \A y \in DOMAIN f \ {x} : With(f, x, v)[y] = f[y]
           /\ \A B : f \in [DOMAIN f -> B] /\ v \in B =>
                 With(f, x, v) \in [DOMAIN f \cup {x} -> B]
BY DEF With

\* Inserting an entry of the right type keeps the map's type.
LEMMA WithType ==
    ASSUME NEW A, NEW B, NEW f, NEW x \in A, NEW v \in B,
           DOMAIN f \subseteq A, f \in [DOMAIN f -> B]
    PROVE  /\ DOMAIN With(f, x, v) \subseteq A
           /\ With(f, x, v) \in [DOMAIN With(f, x, v) -> B]
BY DEF With

\* Keeping only the keys S of a map.
LEMMA RestrictFacts ==
    ASSUME NEW f, NEW S \in SUBSET DOMAIN f
    PROVE  /\ DOMAIN Restrict(f, S) = S
           /\ \A x \in S : Restrict(f, S)[x] = f[x]
           /\ \A B : f \in [DOMAIN f -> B] => Restrict(f, S) \in [S -> B]
BY DEF Restrict

\* The empty map.
LEMMA EmptyFacts ==
    /\ DOMAIN Empty = {}
    /\ \A B : Empty \in [DOMAIN Empty -> B]
BY DEF Empty

\* Deleting no key changes nothing.
LEMMA WithoutNothing ==
    ASSUME NEW f, NEW B, f \in [DOMAIN f -> B]
    PROVE  Without(f, {}) = f
BY DEF Without, Restrict

----------------------------------------------------------------------------
(***************************************************************************)
(* Type correctness needs two more facts: what a broker that is, or is     *)
(* not, active looks like, and that an assignment past its first checks    *)
(* carries a real correlation.                                             *)
(***************************************************************************)
GenerationInv ==
    /\ active => /\ generation # 0
                 /\ assignNative = generation
                 /\ fatal = generation
    /\ fatal \in {0, generation}
    /\ ~active => /\ DOMAIN handles = {} /\ DOMAIN correlations = {}
                  /\ opened = <<>> /\ verified = <<>>

AssignmentInv ==
    \A c \in Callers :
        caller[c].pc \in {"lock", "native"} => caller[c].correlation \in Correlations

TypeInv == TypeOK /\ GenerationInv /\ AssignmentInv

\* What is left of an instant once it went through milliseconds: never later,
\* and less than a millisecond earlier.
LEMMA Truncation ==
    ASSUME NEW t \in Nat
    PROVE  /\ TimeOfMilli(UnixMilli(t)) \in Nat
           /\ TimeOfMilli(UnixMilli(t)) <= t
           /\ t < TimeOfMilli(UnixMilli(t)) + Milli
BY BoundAssumption DEF UnixMilli, TimeOfMilli

\* The milliseconds a delivery may name: zero, and those of every instant;
\* they stand for instants again.
LEMMA MillisecondFacts ==
    /\ 0 \in Milliseconds
    /\ \A t \in Instants : UnixMilli(t) \in Milliseconds
    /\ \A ms \in Milliseconds : TimeOfMilli(ms) \in Instants
<1>1. Instants \subseteq Nat /\ 0 \in Instants
    BY BoundAssumption DEF Instants
<1>2. UnixMilli(0) = 0
    BY BoundAssumption DEF UnixMilli
<1>3. ASSUME NEW t \in Instants PROVE TimeOfMilli(UnixMilli(t)) \in Instants
    <2> DEFINE u == TimeOfMilli(UnixMilli(t))
    <2>1. t \in Nat /\ u \in Nat /\ u <= t
        BY <1>1, Truncation
    <2> HIDE DEF u
    <2>2. u \in Instants
        BY <2>1, BoundAssumption DEF Instants
    <2> QED
        BY <2>2 DEF u
<1> QED
    BY <1>1, <1>2, <1>3 DEF Milliseconds

\* What a goroutine outside assign and deliver looks like.
LEMMA IdleTypes ==
    /\ IdleCaller \in CallerRecords /\ IdleCaller.pc = "idle"
    /\ IdleDeliverer \in DelivererRecords /\ IdleDeliverer.pc = "idle"
BY BoundAssumption, MillisecondFacts
   DEF IdleCaller, CallerAt, CallerRecords, Instants, Results, IdleDeliverer, DelivererRecords

\* A new broker satisfies the type invariant.
LEMMA InitTypeInv == Init => TypeInv
<1> SUFFICES ASSUME Init PROVE TypeInv
    OBVIOUS
<1> USE BoundAssumption
<1>1. handles = Empty /\ correlations = Empty /\ DOMAIN Empty = {}
    BY EmptyFacts DEF Init
<1>2. TypeOK
    <2>3. MapsType
        BY <1>1, EmptyFacts DEF MapsType
    <2>4. QueuesType
        BY DEF Init, QueuesType
    <2>5. ScalarsType
        BY DEF Init, ScalarsType
    <2>6. ThreadsType
        BY IdleTypes DEF Init, ThreadsType
    <2>7. HistoryType
        BY DEF Init, HistoryType
    <2>8. active \in BOOLEAN
        BY DEF Init
    <2> QED
        BY <2>3, <2>4, <2>5, <2>6, <2>7, <2>8 DEF TypeOK
<1>3. GenerationInv
    BY <1>1 DEF Init, GenerationInv
<1>4. AssignmentInv
    BY IdleTypes DEF Init, AssignmentInv
<1> QED
    BY <1>2, <1>3, <1>4 DEF TypeInv

\* Deleting entries from both maps keeps their types.
LEMMA DeleteMaps ==
    ASSUME MapsType, NEW S, NEW K,
           handles' = Without(handles, S),
           correlations' = Without(correlations, K)
    PROVE  MapsType'
<1>1. DOMAIN handles' \subseteq Handles /\ handles' \in [DOMAIN handles' -> 0 .. MaxTime]
    BY WithoutFacts, ZenonT(60) DEF MapsType
<1>2. DOMAIN correlations' \subseteq Correlations /\ correlations' \in [DOMAIN correlations' -> Pending]
    BY WithoutFacts, ZenonT(60) DEF MapsType
<1> QED
    BY <1>1, <1>2 DEF MapsType

\* Deleting entries adds no key to either map.
LEMMA DeleteDomains ==
    ASSUME NEW S, NEW K,
           handles' = Without(handles, S),
           correlations' = Without(correlations, K)
    PROVE  /\ DOMAIN handles' \subseteq DOMAIN handles
           /\ DOMAIN correlations' \subseteq DOMAIN correlations
BY DEF Without, Restrict

\* Deleting entries while everything else of the broker stays keeps the
\* generation facts.
LEMMA DeleteGeneration ==
    ASSUME GenerationInv,
           DOMAIN handles' \subseteq DOMAIN handles,
           DOMAIN correlations' \subseteq DOMAIN correlations,
           UNCHANGED <<active, generation, assignNative, fatal, queues>>
    PROVE  GenerationInv'
BY DEF GenerationInv, queues

\* What deactivate, failGeneration and the fatal callback do to the types.
LEMMA CloseGenerationType ==
    ASSUME TypeInv, NEW g, CloseGeneration(g), UNCHANGED clock
    PROVE  /\ (active \in BOOLEAN)' /\ ScalarsType' /\ MapsType' /\ QueuesType'
           /\ GenerationInv'
<1> USE BoundAssumption DEF TypeInv, TypeOK
<1>1. CASE g = generation
    <2>1. (active \in BOOLEAN)'
        BY <1>1 DEF CloseGeneration
    <2>2. MapsType' /\ QueuesType' /\ ScalarsType'
        BY <1>1, EmptyFacts DEF CloseGeneration, clearLocked, MapsType, QueuesType, ScalarsType
    <2>3. GenerationInv'
        BY <1>1, EmptyFacts DEF CloseGeneration, clearLocked, GenerationInv, ScalarsType
    <2> QED
        BY <2>1, <2>2, <2>3
<1>2. CASE g # generation
    <2>1. UNCHANGED <<active, generation, assignNative, fatal, handles, correlations, opened, verified>>
        BY <1>2 DEF CloseGeneration, state, queues
    <2>2. (active \in BOOLEAN)'
        BY <2>1
    <2>3. MapsType' /\ QueuesType' /\ ScalarsType'
        BY <2>1 DEF MapsType, QueuesType, ScalarsType
    <2>4. GenerationInv'
        BY <2>1 DEF GenerationInv
    <2> QED
        BY <2>2, <2>3, <2>4
<1> QED
    BY <1>1, <1>2

\* What failLocked does to the types.
LEMMA FailLockedType ==
    ASSUME TypeInv, failLocked, UNCHANGED clock
    PROVE  /\ (active \in BOOLEAN)' /\ ScalarsType' /\ MapsType' /\ QueuesType'
           /\ GenerationInv'
           /\ fatalCalls' \subseteq Generations
<1> USE BoundAssumption DEF TypeInv, TypeOK
<1>1. (active \in BOOLEAN)'
    BY DEF failLocked
<1>2. MapsType' /\ QueuesType' /\ ScalarsType'
    BY EmptyFacts DEF failLocked, clearLocked, MapsType, QueuesType, ScalarsType
<1>3. GenerationInv'
    BY EmptyFacts DEF failLocked, clearLocked, GenerationInv, ScalarsType
<1>4. fatalCalls' \subseteq Generations
    BY DEF failLocked, ThreadsType, ScalarsType, Generations
<1> QED
    BY <1>1, <1>2, <1>3, <1>4

\* A goroutine's record when assign has returned.
LEMMA ReturnType ==
    ASSUME TypeInv, NEW c \in Callers, NEW r \in Results, Return(c, r)
    PROVE  caller' \in [Callers -> CallerRecords] /\ AssignmentInv'
<1> USE BoundAssumption DEF TypeInv, TypeOK
<1> DEFINE refused == CallerAt("idle", caller[c].generation, caller[c].handle, r)
<1>1. caller[c] \in CallerRecords
    BY DEF ThreadsType
<1>2. refused \in CallerRecords /\ refused.pc = "idle"
    BY <1>1 DEF CallerRecords, Instants, CallerAt
<1>3. IdleCaller \in CallerRecords /\ IdleCaller.pc = "idle"
    BY IdleTypes
<1> HIDE DEF refused
<1>4. \E v \in {refused, IdleCaller} : caller' = [caller EXCEPT ![c] = v]
    BY DEF Return, refused
<1> QED
    BY <1>2, <1>3, <1>4 DEF ThreadsType, AssignmentInv

\* A step that deletes map entries and otherwise moves only goroutines.
LEMMA DeleteType ==
    ASSUME TypeInv, NEW S, NEW K,
           handles' = Without(handles, S), correlations' = Without(correlations, K),
           UNCHANGED <<active, generation, assignNative, fatal, queues, clock, history>>,
           ThreadsType', AssignmentInv'
    PROVE  TypeInv'
<1> USE DEF TypeInv, TypeOK
<1>1. MapsType'
    BY DeleteMaps
<1>2. DOMAIN handles' \subseteq DOMAIN handles /\ DOMAIN correlations' \subseteq DOMAIN correlations
    BY DeleteDomains
<1>3. GenerationInv'
    BY <1>2, DeleteGeneration
<1>4. (active \in BOOLEAN)'
    OBVIOUS
<1>5. ScalarsType' /\ QueuesType' /\ HistoryType'
    BY DEF queues, history, ScalarsType, QueuesType, HistoryType
<1> QED
    BY <1>1, <1>3, <1>4, <1>5

\* A step that changes nothing but one deliverer.
LEMMA DelivererOnly ==
    ASSUME TypeInv, NEW d \in Deliverers, NEW v \in DelivererRecords,
           deliverer' = [deliverer EXCEPT ![d] = v],
           UNCHANGED <<state, queues, expiring, fatalCalls, caller, clock, history>>
    PROVE  TypeInv'
<1> USE DEF TypeInv, TypeOK
<1>1. (active \in BOOLEAN)' /\ GenerationInv'
    BY DEF state, queues, GenerationInv
<1>2. ScalarsType' /\ MapsType' /\ QueuesType' /\ ThreadsType' /\ HistoryType'
    BY DEF state, queues, history, ScalarsType, MapsType, QueuesType, ThreadsType, HistoryType
<1>3. AssignmentInv'
    BY DEF AssignmentInv
<1> QED
    BY <1>1, <1>2, <1>3

\* The record of a delivery after the checks before the lock.
LEMMA CheckedType ==
    ASSUME NEW g \in 0 .. MaxGeneration, NEW k \in Correlations \cup {NoCorrelation},
           NEW ms \in Milliseconds, NEW frameOK
    PROVE  Checked(g, k, ms, frameOK) \in DelivererRecords
BY MillisecondFacts DEF Checked, DelivererRecords

\* Receiving from a queue keeps its type and its bound.
LEMMA TailType ==
    ASSUME NEW A, NEW q \in Seq(A), q # <<>>, Len(q) <= Capacity
    PROVE  Tail(q) \in Seq(A) /\ Len(Tail(q)) <= Capacity
<1>1. Tail(q) \in Seq(A) /\ Len(Tail(q)) = Len(q) - 1 /\ Len(q) \in Nat
    BY HeadTailProperties, LenProperties
<1> QED
    BY <1>1, BoundAssumption

\* Every step preserves the type invariant.
LEMMA NextTypeInv == TypeInv /\ [Next]_vars => TypeInv'
<1> SUFFICES ASSUME TypeInv, [Next]_vars PROVE TypeInv'
    OBVIOUS
<1> USE BoundAssumption DEF TypeInv, TypeOK
<1>1. CASE Activate
    <2>1. (active \in BOOLEAN)'
        BY <1>1 DEF Activate
    <2>2. MapsType'
        BY <1>1, EmptyFacts DEF Activate, clearLocked, MapsType
    <2>3. QueuesType' /\ ScalarsType' /\ HistoryType'
        BY <1>1 DEF Activate, clearLocked, QueuesType, ScalarsType, HistoryType
    <2>4. ThreadsType'
        BY <1>1 DEF Activate, ThreadsType
    <2>5. GenerationInv'
        BY <1>1, EmptyFacts DEF Activate, clearLocked, GenerationInv, ScalarsType
    <2>6. AssignmentInv'
        BY <1>1 DEF Activate, AssignmentInv
    <2> QED
        BY <2>1, <2>2, <2>3, <2>4, <2>5, <2>6
<1>2. CASE Deactivate
    <2>1. ThreadsType' /\ HistoryType' /\ AssignmentInv'
        BY <1>2 DEF Deactivate, ThreadsType, HistoryType, AssignmentInv, history
    <2> QED
        BY <1>2, <2>1, CloseGenerationType DEF Deactivate
<1>3. ASSUME NEW g \in Generations, FatalCall(g) PROVE TypeInv'
    <2>1. ThreadsType' /\ HistoryType' /\ AssignmentInv'
        BY <1>3 DEF FatalCall, ThreadsType, HistoryType, AssignmentInv, history
    <2> QED
        BY <1>3, <2>1, CloseGenerationType DEF FatalCall
<1>4. ASSUME NEW h \in Handles \cup {NoHandle}, Open(h) PROVE TypeInv'
    <2>1. CASE OpenInvalid(h)
        <3>1. ThreadsType' /\ HistoryType' /\ AssignmentInv'
            BY <2>1, FailLockedType DEF OpenInvalid, ThreadsType, HistoryType, AssignmentInv, history
        <3> QED
            BY <2>1, <3>1, FailLockedType DEF OpenInvalid
    <2>2. CASE OpenOverflow(h)
        <3>1. ThreadsType' /\ HistoryType' /\ AssignmentInv'
            BY <2>2, FailLockedType DEF OpenOverflow, ThreadsType, HistoryType, AssignmentInv
        <3> QED
            BY <2>2, <3>1, FailLockedType DEF OpenOverflow
    <2>3. CASE OpenAccepted(h)
        <3>1. PICK S \in Survivors : handles' = With(Restrict(handles, S), h, clock)
            BY <2>3 DEF OpenAccepted
        <3>2. S \subseteq DOMAIN handles
            BY <3>1 DEF Survivors
        <3>3. /\ DOMAIN Restrict(handles, S) \subseteq Handles
              /\ Restrict(handles, S) \in [DOMAIN Restrict(handles, S) -> 0 .. MaxTime]
            BY <3>2, RestrictFacts DEF MapsType
        <3>4. /\ DOMAIN handles' \subseteq Handles
              /\ handles' \in [DOMAIN handles' -> 0 .. MaxTime]
            <4>1. clock \in 0 .. MaxTime /\ h \in Handles
                BY <2>3 DEF OpenAccepted, ScalarsType
            <4> QED
                BY <3>1, <3>3, <4>1, WithType
        <3>5. MapsType'
            BY <2>3, <3>4 DEF OpenAccepted, MapsType
        <3>6. active /\ active'
            BY <2>3 DEF OpenAccepted
        <3>6a. generation # 0
            BY <3>6 DEF GenerationInv
        <3>6b. generation \in Generations
            BY <3>6a DEF ScalarsType, Generations
        <3>7. [generation |-> generation, handle |-> h] \in Opens
            BY <2>3, <3>6b DEF OpenAccepted, Opens
        <3>8. QueuesType'
            BY <2>3, <3>7 DEF OpenAccepted, QueuesType, Room
        <3>9. (active \in BOOLEAN)'
            BY <2>3 DEF OpenAccepted
        <3>10. ScalarsType' /\ ThreadsType' /\ HistoryType' /\ AssignmentInv'
            BY <2>3 DEF OpenAccepted, ScalarsType, ThreadsType, HistoryType, AssignmentInv
        <3>11. GenerationInv'
            BY <2>3, <3>6 DEF OpenAccepted, GenerationInv
        <3> QED
            BY <3>5, <3>8, <3>9, <3>10, <3>11
    <2> QED
        BY <1>4, <2>1, <2>2, <2>3 DEF Open
<1>5. ASSUME NEW c \in Callers, AssignCall(c) PROVE TypeInv'
    <2>1. PICK g \in 1 .. generation, h \in Handles,
               k \in Correlations \cup {NoCorrelation},
               e \in clock .. clock + MaxLifetime + 1 : AssignBegin(c, g, h, k, e)
        BY <1>5 DEF AssignCall
    <2> DEFINE a == [pc |-> "lock", generation |-> g, handle |-> h,
                     correlation |-> k, expiresAt |-> e, native |-> 0, result |-> "none"]
    <2>2. g \in 0 .. MaxGeneration /\ e \in Instants
        BY DEF ScalarsType, Instants
    <2>3. a \in CallerRecords /\ a.pc = "lock" /\ a.correlation = k
        BY <2>2 DEF CallerRecords, Instants, Results
    <2>4. \A r \in {"Lifetime", "Mismatch"} :
             CallerAt("close", g, h, r) \in CallerRecords /\ CallerAt("close", g, h, r).pc = "close"
        BY <2>2 DEF CallerRecords, Instants, Results, CallerAt
    <2> HIDE DEF a
    <2>5. \/ k \in Correlations /\ caller' = [caller EXCEPT ![c] = a]
          \/ \E r \in {"Lifetime", "Mismatch"} :
                caller' = [caller EXCEPT ![c] = CallerAt("close", g, h, r)]
        BY <2>1 DEF AssignBegin, a
    <2>6. caller' \in [Callers -> CallerRecords]
        BY <2>3, <2>4, <2>5 DEF ThreadsType
    <2>7. AssignmentInv'
        BY <2>3, <2>4, <2>5 DEF ThreadsType, AssignmentInv
    <2>8. UNCHANGED <<state, queues, expiring, fatalCalls, deliverer, clock, history>>
        BY <2>1 DEF AssignBegin
    <2>9. (active \in BOOLEAN)' /\ GenerationInv'
        BY <2>8 DEF state, queues, GenerationInv
    <2>10. ScalarsType' /\ MapsType' /\ QueuesType' /\ ThreadsType' /\ HistoryType'
        BY <2>6, <2>8 DEF state, queues, history, ScalarsType, MapsType,
                          QueuesType, ThreadsType, HistoryType
    <2> QED
        BY <2>7, <2>9, <2>10
<1>6. ASSUME NEW c \in Callers, AssignRefused(c) \/ AssignOK(c) PROVE TypeInv'
    <2>1. PICK r \in Results : Return(c, r)
        BY <1>6 DEF AssignRefused, AssignOK, Results
    <2>2. caller' \in [Callers -> CallerRecords] /\ AssignmentInv'
        BY <2>1, ReturnType
    <2>3. UNCHANGED <<state, queues, expiring, fatalCalls, deliverer, clock, history>>
        BY <1>6 DEF AssignRefused, AssignOK
    <2>4. (active \in BOOLEAN)' /\ GenerationInv'
        BY <2>3 DEF state, queues, GenerationInv
    <2>5. ScalarsType' /\ MapsType' /\ QueuesType' /\ ThreadsType' /\ HistoryType'
        BY <2>2, <2>3 DEF state, queues, history, ScalarsType, MapsType,
                          QueuesType, ThreadsType, HistoryType
    <2> QED
        BY <2>2, <2>4, <2>5
<1>7. ASSUME NEW c \in Callers, AssignDuplicate(c) \/ AssignClose(c) PROVE TypeInv'
    <2>1. PICK r \in Results : Return(c, r)
        BY <1>7 DEF AssignDuplicate, AssignClose, Results, ThreadsType, CallerRecords
    <2>2. caller' \in [Callers -> CallerRecords] /\ AssignmentInv'
        BY <2>1, ReturnType
    <2>3. \E S, K : handles' = Without(handles, S) /\ correlations' = Without(correlations, K)
        <3>1. CASE AssignDuplicate(c)
            BY <3>1 DEF AssignDuplicate, clearAssignmentLocked
        <3>2. CASE AssignClose(c)
            <4>1. CASE caller[c].generation = generation
                BY <3>2, <4>1 DEF AssignClose, closeHandle
            <4>2. CASE caller[c].generation # generation
                <5>1. handles' = handles /\ correlations' = correlations
                    BY <3>2, <4>2 DEF AssignClose, closeHandle
                <5> QED
                    BY <5>1, WithoutNothing DEF MapsType
            <4> QED
                BY <4>1, <4>2
        <3> QED
            BY <1>7, <3>1, <3>2
    <2>4. PICK S, K : handles' = Without(handles, S) /\ correlations' = Without(correlations, K)
        BY <2>3
    <2>5. MapsType'
        BY <2>4, DeleteMaps
    <2>6. DOMAIN handles' \subseteq DOMAIN handles /\ DOMAIN correlations' \subseteq DOMAIN correlations
        BY <2>4, WithoutFacts, ZenonT(60)
    <2>7. UNCHANGED <<active, generation, assignNative, fatal, queues, expiring,
                      fatalCalls, deliverer, clock, history>>
        BY <1>7 DEF AssignDuplicate, AssignClose
    <2>8. (active \in BOOLEAN)'
        BY <2>7
    <2>9. GenerationInv'
        BY <2>6, <2>7, DeleteGeneration
    <2>10. ScalarsType' /\ QueuesType' /\ ThreadsType' /\ HistoryType'
        BY <2>2, <2>7 DEF queues, history, ScalarsType, QueuesType, ThreadsType, HistoryType
    <2> QED
        BY <2>2, <2>5, <2>8, <2>9, <2>10
<1>8. ASSUME NEW c \in Callers, AssignPending(c) PROVE TypeInv'
    <2> DEFINE a == caller[c]
               k == a.correlation
               grant == [generation |-> generation, handle |-> a.handle,
                         correlation |-> k, expiresAt |-> a.expiresAt]
               called == [pc |-> "native", generation |-> a.generation,
                          handle |-> a.handle, correlation |-> k,
                          expiresAt |-> a.expiresAt, native |-> assignNative,
                          result |-> a.result]
    <2>1. a \in CallerRecords
        BY DEF ThreadsType
    <2>2. k \in Correlations /\ a.handle \in Handles /\ a.expiresAt \in Instants
        BY <1>8, <2>1 DEF AssignPending, AssignmentInv, Assignable, MapsType, CallerRecords
    <2>3. active /\ active'
        BY <1>8 DEF AssignPending, Assignable
    <2>4. generation # 0
        BY <2>3 DEF GenerationInv
    <2>5. grant \in Frames
        BY <2>2, <2>4 DEF Frames, Generations, ScalarsType
    <2>6. NewPending(a) \in Pending
        BY <2>2 DEF NewPending, Pending
    <2>7. called \in CallerRecords /\ called.correlation = k
        BY <2>1 DEF CallerRecords, ScalarsType
    <2>8. /\ correlations' = With(correlations, k, NewPending(a))
          /\ caller' = [caller EXCEPT ![c] = called]
          /\ granted' = granted \cup {grant}
          /\ UNCHANGED <<active, generation, assignNative, fatal, handles,
                         opened, verified, expiring, fatalCalls, deliverer, clock,
                         reported, published>>
        BY <1>8 DEF AssignPending, queues
    <2> HIDE DEF k, grant, called, a
    <2>9. /\ DOMAIN correlations' \subseteq Correlations
          /\ correlations' \in [DOMAIN correlations' -> Pending]
        BY <2>2, <2>6, <2>8, WithType DEF MapsType
    <2>10. MapsType'
        BY <2>8, <2>9 DEF MapsType
    <2>11. ScalarsType' /\ QueuesType' /\ ThreadsType' /\ HistoryType'
        BY <2>5, <2>7, <2>8 DEF ScalarsType, QueuesType, ThreadsType, HistoryType
    <2>12. AssignmentInv'
        BY <2>2, <2>7, <2>8 DEF ThreadsType, AssignmentInv
    <2>13. (active \in BOOLEAN)' /\ GenerationInv'
        BY <2>3, <2>8 DEF GenerationInv
    <2> QED
        BY <2>10, <2>11, <2>12, <2>13
<1>9. ASSUME NEW c \in Callers, AssignRejected(c) PROVE TypeInv'
    <2> DEFINE v == CallerAt("close", caller[c].generation, caller[c].handle, "Rejected")
    <2>1. v \in CallerRecords /\ v.pc = "close"
        BY DEF CallerAt, CallerRecords, Instants, Results, ThreadsType
    <2>2. /\ caller' = [caller EXCEPT ![c] = v]
          /\ UNCHANGED <<state, queues, expiring, fatalCalls, deliverer, clock, history>>
        BY <1>9 DEF AssignRejected
    <2> HIDE DEF v
    <2>3. AssignmentInv'
        BY <2>1, <2>2 DEF ThreadsType, AssignmentInv
    <2>4. (active \in BOOLEAN)' /\ GenerationInv'
        BY <2>2 DEF state, queues, GenerationInv
    <2>5. ScalarsType' /\ MapsType' /\ QueuesType' /\ ThreadsType' /\ HistoryType'
        BY <2>1, <2>2 DEF state, queues, history, ScalarsType, MapsType,
                          QueuesType, ThreadsType, HistoryType
    <2> QED
        BY <2>3, <2>4, <2>5
<1>10. ASSUME NEW k \in Correlations, TimerFires(k) PROVE TypeInv'
    <2> DEFINE p == correlations[k]
               x == [generation |-> generation, handle |-> p.handle,
                     correlation |-> k, expiresAt |-> p.expiresAt]
    <2>1. k \in DOMAIN correlations
        BY <1>10 DEF TimerFires
    <2>2. p \in Pending
        BY <2>1 DEF MapsType
    <2>3. active
        BY <2>1 DEF GenerationInv
    <2>4. generation # 0
        BY <2>3 DEF GenerationInv
    <2>5. x \in Frames
        BY <2>2, <2>4 DEF Pending, Frames, Generations, ScalarsType
    <2>6. [p EXCEPT !.fired = TRUE] \in Pending
        BY <2>2 DEF Pending
    <2>7. /\ correlations' = [correlations EXCEPT ![k] = [p EXCEPT !.fired = TRUE]]
          /\ expiring' = expiring \cup {x}
          /\ UNCHANGED <<active, generation, assignNative, fatal, handles, opened, verified,
                         fatalCalls, caller, deliverer, clock, reported, granted, published>>
        BY <1>10 DEF TimerFires, queues, history
    <2> HIDE DEF p, x
    <2>8. MapsType'
        BY <2>6, <2>7 DEF MapsType
    <2>9. ScalarsType' /\ QueuesType' /\ ThreadsType' /\ HistoryType' /\ AssignmentInv'
        BY <2>5, <2>7 DEF ScalarsType, QueuesType, ThreadsType, HistoryType, AssignmentInv
    <2>10. (active \in BOOLEAN)' /\ GenerationInv'
        BY <2>3, <2>7 DEF GenerationInv
    <2> QED
        BY <2>8, <2>9, <2>10
<1>11. ASSUME NEW x \in expiring, Expire(x) PROVE TypeInv'
    <2>1. PICK S, K : handles' = Without(handles, S) /\ correlations' = Without(correlations, K)
        <3>1. CASE Matches(x)
            BY <1>11, <3>1 DEF Expire
        <3>2. CASE ~Matches(x)
            <4>1. handles' = handles /\ correlations' = correlations
                BY <1>11, <3>2 DEF Expire
            <4> QED
                BY <4>1, WithoutNothing DEF MapsType
        <3> QED
            BY <3>1, <3>2
    <2>2. /\ UNCHANGED <<active, generation, assignNative, fatal, queues, clock, history>>
          /\ UNCHANGED <<fatalCalls, caller, deliverer>>
          /\ expiring' \subseteq expiring
        BY <1>11 DEF Expire
    <2>3. ThreadsType' /\ AssignmentInv'
        BY <2>2 DEF ThreadsType, AssignmentInv
    <2> QED
        BY <2>1, <2>2, <2>3, DeleteType
<1>12. ASSUME NEW d \in Deliverers, DeliverCall(d) PROVE TypeInv'
    <2>1. CASE \E g \in 1 .. generation, k \in Correlations, frameOK \in BOOLEAN,
                  ms \in {UnixMilli(t) : t \in clock .. MaxTime} :
                      DeliverCallback(d, g, k, ms, frameOK)
        <3>1. PICK g \in 1 .. generation, k \in Correlations, frameOK \in BOOLEAN,
                   ms \in {UnixMilli(t) : t \in clock .. MaxTime} :
                       DeliverCallback(d, g, k, ms, frameOK)
            BY <2>1
        <3>2. g \in 0 .. MaxGeneration /\ clock .. MaxTime \subseteq Instants
            BY DEF ScalarsType, Instants
        <3>3. Checked(g, k, ms, frameOK) \in DelivererRecords
            BY <3>2, CheckedType, MillisecondFacts
        <3>4. /\ deliverer' = [deliverer EXCEPT ![d] = Checked(g, k, ms, frameOK)]
              /\ UNCHANGED <<state, queues, expiring, fatalCalls, caller, clock, history>>
            BY <3>1 DEF DeliverCallback
        <3> QED
            BY <3>3, <3>4, DelivererOnly
    <2>2. CASE \E g \in 1 .. generation, h \in Handles, k \in Correlations :
                  DeliverIPCFrame(d, g, h, k)
        <3>1. PICK g \in 1 .. generation, h \in Handles, k \in Correlations :
                   DeliverIPCFrame(d, g, h, k)
            BY <2>2
        <3> DEFINE v == [pc |-> "check", generation |-> g, correlation |-> k,
                         expiresUnixMS |-> UnixMilli(correlations[k].expiresAt)]
        <3>2. g \in 0 .. MaxGeneration
            BY DEF ScalarsType
        <3>3. UnixMilli(correlations[k].expiresAt) \in Milliseconds
            BY <3>1, MillisecondFacts DEF DeliverIPCFrame, PendingOf, MapsType, Pending
        <3>4. v \in DelivererRecords
            BY <3>2, <3>3 DEF DelivererRecords
        <3>5. /\ deliverer' = [deliverer EXCEPT ![d] = v]
              /\ UNCHANGED <<state, queues, expiring, fatalCalls, caller, clock, history>>
            BY <3>1 DEF DeliverIPCFrame
        <3> HIDE DEF v
        <3> QED
            BY <3>4, <3>5, DelivererOnly
    <2> QED
        BY <1>12, <2>1, <2>2 DEF DeliverCall
<1>13. ASSUME NEW d \in Deliverers, NEW frameOK \in BOOLEAN, DeliverCheck(d, frameOK)
       PROVE  TypeInv'
    <2> DEFINE r == deliverer[d]
               v == Checked(r.generation, r.correlation, r.expiresUnixMS, frameOK)
    <2>1. r \in DelivererRecords
        BY DEF ThreadsType
    <2>2. /\ r.generation \in 0 .. MaxGeneration
          /\ r.correlation \in Correlations \cup {NoCorrelation}
          /\ r.expiresUnixMS \in Milliseconds
        BY <2>1 DEF DelivererRecords
    <2>3. v \in DelivererRecords
        BY <2>2, CheckedType
    <2>4. /\ deliverer' = [deliverer EXCEPT ![d] = v]
          /\ UNCHANGED <<state, queues, expiring, fatalCalls, caller, clock, history>>
        BY <1>13 DEF DeliverCheck
    <2> QED
        BY <2>3, <2>4, DelivererOnly
<1>14. ASSUME NEW d \in Deliverers, DeliverRefused(d) PROVE TypeInv'
    BY <1>14, IdleTypes, DelivererOnly DEF DeliverRefused
<1>15. ASSUME NEW d \in Deliverers, DeliverMismatch(d) \/ DeliverClose(d) PROVE TypeInv'
    <2>1. PICK S, K : handles' = Without(handles, S) /\ correlations' = Without(correlations, K)
        <3>1. CASE handles' = handles /\ correlations' = correlations
            BY <3>1, WithoutNothing DEF MapsType
        <3>2. CASE \E k : Consume(k)
            BY <3>2 DEF Consume
        <3> QED
            BY <1>15, <3>1, <3>2 DEF DeliverMismatch, DeliverClose
    <2>2. /\ UNCHANGED <<active, generation, assignNative, fatal, queues, clock, history>>
          /\ UNCHANGED <<expiring, fatalCalls, caller>>
          /\ deliverer' = [deliverer EXCEPT ![d] = IdleDeliverer]
        BY <1>15 DEF DeliverMismatch, DeliverClose
    <2>3. ThreadsType' /\ AssignmentInv'
        BY <2>2, IdleTypes DEF ThreadsType, AssignmentInv
    <2> QED
        BY <2>1, <2>2, <2>3, DeleteType
<1>16. ASSUME NEW d \in Deliverers, DeliverPublish(d) PROVE TypeInv'
    <2> DEFINE r == deliverer[d]
               k == r.correlation
               h == correlations[k].handle
               frame == [generation |-> r.generation, handle |-> h,
                         correlation |-> k, expiresAt |-> TimeOfMilli(r.expiresUnixMS)]
               entry == [handle |-> frame.handle, correlation |-> frame.correlation,
                         expiresAt |-> frame.expiresAt]
    <2>1. r \in DelivererRecords
        BY DEF ThreadsType
    <2>2. active /\ active'
        BY <1>16 DEF DeliverPublish, Deliverable
    <2>3. generation # 0
        BY <2>2 DEF GenerationInv
    <2>4. k \in DOMAIN correlations /\ r.generation = generation
        BY <1>16 DEF DeliverPublish, Deliverable
    <2>5. k \in Correlations /\ h \in Handles /\ TimeOfMilli(r.expiresUnixMS) \in Instants
        BY <2>1, <2>4, MillisecondFacts DEF MapsType, Pending, DelivererRecords
    <2>6. frame \in Frames
        BY <2>3, <2>4, <2>5 DEF Frames, Generations, ScalarsType
    <2>7. /\ handles' = Without(handles, {h}) /\ correlations' = Without(correlations, {k})
          /\ verified' = Append(verified, frame) /\ Len(verified) < Capacity
          /\ published' = Append(published, entry)
          /\ deliverer' = [deliverer EXCEPT ![d] = IdleDeliverer]
          /\ UNCHANGED <<active, generation, assignNative, fatal, opened,
                         expiring, fatalCalls, caller, clock, reported, granted>>
        BY <1>16 DEF DeliverPublish, Consume, Room
    <2>8. entry \in Publications
        BY <2>5 DEF Publications
    <2> HIDE DEF r, k, h, frame, entry
    <2>9. MapsType'
        BY <2>7, DeleteMaps
    <2>10. QueuesType'
        BY <2>6, <2>7 DEF QueuesType
    <2>11. ScalarsType' /\ ThreadsType' /\ HistoryType' /\ AssignmentInv'
        BY <2>5, <2>7, <2>8, IdleTypes DEF ScalarsType, ThreadsType, HistoryType, AssignmentInv
    <2>12. (active \in BOOLEAN)' /\ GenerationInv'
        BY <2>2, <2>7 DEF GenerationInv
    <2> QED
        BY <2>9, <2>10, <2>11, <2>12
<1>17. ASSUME NEW d \in Deliverers, DeliverOverflow(d) PROVE TypeInv'
    <2>1. failLocked /\ UNCHANGED clock
        BY <1>17 DEF DeliverOverflow
    <2>2. /\ deliverer' = [deliverer EXCEPT ![d] = IdleDeliverer]
          /\ UNCHANGED <<expiring, caller, history>>
        BY <1>17 DEF DeliverOverflow
    <2>3. ThreadsType' /\ HistoryType' /\ AssignmentInv'
        BY <2>1, <2>2, FailLockedType, IdleTypes DEF ThreadsType, HistoryType, AssignmentInv, history
    <2> QED
        BY <2>1, <2>3, FailLockedType
<1>18. CASE ReceiveOpened \/ ReceiveVerified
    <2>1. QueuesType'
        <3>1. CASE ReceiveOpened
            BY <3>1, TailType DEF ReceiveOpened, QueuesType
        <3>2. CASE ReceiveVerified
            BY <3>2, TailType DEF ReceiveVerified, QueuesType
        <3> QED
            BY <1>18, <3>1, <3>2
    <2>2. UNCHANGED <<active, generation, assignNative, fatal, handles, correlations,
                      expiring, fatalCalls, caller, deliverer, clock,
                      reported, granted, published>>
        BY <1>18 DEF ReceiveOpened, ReceiveVerified, state, history
    <2>3. ScalarsType' /\ MapsType' /\ ThreadsType' /\ HistoryType' /\ AssignmentInv'
        BY <2>2 DEF ScalarsType, MapsType, ThreadsType, HistoryType, AssignmentInv
    <2>4. opened = <<>> /\ verified = <<>> => FALSE
        BY <1>18 DEF ReceiveOpened, ReceiveVerified
    <2>5. (active \in BOOLEAN)' /\ GenerationInv'
        BY <2>2, <2>4 DEF GenerationInv
    <2> QED
        BY <2>1, <2>3, <2>5
<1>19. CASE Tick
    <2>1. ScalarsType'
        BY <1>19 DEF Tick, ScalarsType, state
    <2>2. UNCHANGED <<state, queues, expiring, fatalCalls, caller, deliverer, history>>
        BY <1>19 DEF Tick
    <2>3. MapsType' /\ QueuesType' /\ ThreadsType' /\ HistoryType' /\ AssignmentInv'
        BY <2>2 DEF state, queues, history, MapsType, QueuesType, ThreadsType, HistoryType, AssignmentInv
    <2>4. (active \in BOOLEAN)' /\ GenerationInv'
        BY <2>2 DEF state, queues, GenerationInv
    <2> QED
        BY <2>1, <2>3, <2>4
<1>20. CASE UNCHANGED vars
    <2>1. UNCHANGED <<active, generation, assignNative, fatal, handles, correlations, opened,
                      verified, expiring, fatalCalls, caller, deliverer, clock,
                      reported, granted, published>>
        BY <1>20 DEF vars, state, queues, history
    <2>2. (active \in BOOLEAN)' /\ GenerationInv'
        BY <2>1 DEF GenerationInv
    <2>3. ScalarsType' /\ MapsType' /\ QueuesType' /\ ThreadsType' /\ HistoryType' /\ AssignmentInv'
        BY <2>1 DEF ScalarsType, MapsType, QueuesType, ThreadsType, HistoryType, AssignmentInv
    <2> QED
        BY <2>2, <2>3
<1>21. CASE Next
    BY <1>1, <1>2, <1>3, <1>4, <1>5, <1>6, <1>7, <1>8, <1>9, <1>10, <1>11, <1>12,
       <1>13, <1>14, <1>15, <1>16, <1>17, <1>18, <1>19, <1>21
       DEF Next, AssignStep, DeliverStep
<1> QED
    BY <1>20, <1>21

\* Type correctness: in every reachable state of the broker, for any number of
\* goroutines and any timing, each map and record has its type and neither
\* queue of newIngressBroker exceeds its capacity.
THEOREM TypeCorrect == Spec => []TypeOK
<1>1. TypeInv => TypeOK
    BY DEF TypeInv
<1> QED
    BY <1>1, InitTypeInv, NextTypeInv, PTL DEF Spec

----------------------------------------------------------------------------
(***************************************************************************)
(* The two maps agree.  The invariant is inductive with the types.         *)
(***************************************************************************)
\* Deleting the handles S and the correlations K keeps the maps consistent if
\* no assignment that stays belongs to a deleted handle.
LEMMA DeletePending ==
    ASSUME PendingHandleOpen, NEW S, NEW K,
           handles' = Without(handles, S), correlations' = Without(correlations, K),
           \A k \in DOMAIN correlations \ K : correlations[k].handle \notin S
    PROVE  PendingHandleOpen'
<1>1. DOMAIN handles' = DOMAIN handles \ S
    BY DEF Without, Restrict
<1>2. /\ DOMAIN correlations' = DOMAIN correlations \ K
      /\ \A k \in DOMAIN correlations' : correlations'[k] = correlations[k]
    BY DEF Without, Restrict
<1> QED
    BY <1>1, <1>2 DEF PendingHandleOpen

\* A broker without assignments is consistent.
LEMMA EmptyPending == ASSUME DOMAIN correlations = {} PROVE PendingHandleOpen
BY DEF PendingHandleOpen

\* Eviction spares every handle with a pending assignment.
LEMMA SurvivorsSpareAssigning ==
    ASSUME NEW S \in Survivors
    PROVE  S \subseteq DOMAIN handles /\ DOMAIN handles \cap Assigning \subseteq S
BY DEF Survivors, Stale, Oldest

\* Every step keeps the two maps consistent.
LEMMA NextPending == TypeInv /\ PendingHandleOpen /\ [Next]_vars => PendingHandleOpen'
<1> SUFFICES ASSUME TypeInv, PendingHandleOpen, [Next]_vars PROVE PendingHandleOpen'
    OBVIOUS
<1>1. CASE clearLocked
    BY <1>1, EmptyFacts DEF clearLocked, PendingHandleOpen
<1>2. CASE UNCHANGED <<handles, correlations>>
    BY <1>2 DEF PendingHandleOpen
<1>3. ASSUME NEW h, OpenAccepted(h) PROVE PendingHandleOpen'
    <2>1. PICK S \in Survivors : handles' = With(Restrict(handles, S), h, clock)
        BY <1>3 DEF OpenAccepted
    <2>2. S \subseteq DOMAIN handles'
        BY <2>1, SurvivorsSpareAssigning DEF With, Restrict
    <2>3. correlations' = correlations
        BY <1>3 DEF OpenAccepted
    <2>4. \A k \in DOMAIN correlations : correlations[k].handle \in S
        BY SurvivorsSpareAssigning DEF Assigning, PendingHandleOpen
    <2> QED
        BY <2>2, <2>3, <2>4 DEF PendingHandleOpen
<1>4. ASSUME NEW c \in Callers, AssignDuplicate(c) PROVE PendingHandleOpen'
    <2> DEFINE h == caller[c].handle
    <2>1. PICK k : k \in DOMAIN correlations /\ clearAssignmentLocked(h, k)
        BY <1>4 DEF AssignDuplicate, PendingOf
    <2>2. /\ handles' = Without(handles, {h, correlations[k].handle})
          /\ correlations' = Without(correlations, {k} \cup PendingOf(h))
        <3>1. {correlations[x].handle : x \in {k} \cap DOMAIN correlations}
                 = {correlations[k].handle}
            BY <2>1
        <3>2. {h} \cup {correlations[k].handle} = {h, correlations[k].handle}
            OBVIOUS
        <3> QED
            BY <2>1, <3>1, <3>2 DEF clearAssignmentLocked
    <2>3. \A j \in DOMAIN correlations \ ({k} \cup PendingOf(h)) :
             correlations[j].handle \notin {h, correlations[k].handle}
        BY <2>1 DEF PendingOf, PendingHandleOpen
    <2> QED
        BY <2>2, <2>3, DeletePending
<1>5. ASSUME NEW c \in Callers, AssignPending(c) PROVE PendingHandleOpen'
    <2> DEFINE a == caller[c]
    <2>1. /\ a.handle \in DOMAIN handles /\ handles' = handles
          /\ PendingOf(a.handle) = {}
          /\ correlations' = With(correlations, a.correlation, NewPending(a))
        BY <1>5 DEF AssignPending, Assignable
    <2>2. NewPending(a).handle = a.handle
        BY DEF NewPending
    <2>3. /\ DOMAIN correlations' = DOMAIN correlations \cup {a.correlation}
          /\ correlations'[a.correlation].handle = a.handle
          /\ \A k \in DOMAIN correlations \ {a.correlation} : correlations'[k] = correlations[k]
        BY <2>1, <2>2 DEF With
    <2> HIDE DEF a
    <2> QED
        BY <2>1, <2>3 DEF PendingHandleOpen, PendingOf
<1>6. ASSUME NEW c \in Callers, AssignClose(c) PROVE PendingHandleOpen'
    <2> DEFINE h == caller[c].handle
    <2>1. CASE handles' = Without(handles, {h}) /\ correlations' = Without(correlations, PendingOf(h))
        <3>1. \A k \in DOMAIN correlations \ PendingOf(h) : correlations[k].handle \notin {h}
            BY DEF PendingOf
        <3> QED
            BY <2>1, <3>1, DeletePending
    <2> QED
        BY <1>2, <1>6, <2>1 DEF AssignClose, closeHandle
<1>7. ASSUME NEW k \in Correlations, TimerFires(k) PROVE PendingHandleOpen'
    <2>1. /\ k \in DOMAIN correlations /\ handles' = handles
          /\ correlations' = [correlations EXCEPT ![k].fired = TRUE]
        BY <1>7 DEF TimerFires
    <2>2. correlations \in [DOMAIN correlations -> Pending]
        BY DEF TypeInv, TypeOK, MapsType
    <2>3. /\ DOMAIN correlations' = DOMAIN correlations
          /\ \A j \in DOMAIN correlations : correlations'[j].handle = correlations[j].handle
        BY <2>1, <2>2 DEF Pending
    <2> QED
        BY <2>1, <2>3 DEF PendingHandleOpen
<1>8. ASSUME NEW k, k \in DOMAIN correlations, Consume(k) PROVE PendingHandleOpen'
    <2>1. \A j \in DOMAIN correlations \ {k} :
             correlations[j].handle \notin {correlations[k].handle}
        BY <1>8 DEF PendingHandleOpen
    <2> QED
        BY <1>8, <2>1, DeletePending DEF Consume
<1>9. ASSUME NEW x \in expiring, Expire(x) PROVE PendingHandleOpen'
    <2>1. CASE Matches(x)
        BY <1>8, <1>9, <2>1 DEF Expire, Matches, Consume
    <2>2. CASE ~Matches(x)
        BY <1>2, <1>9, <2>2 DEF Expire
    <2> QED
        BY <2>1, <2>2
<1>10. ASSUME NEW d \in Deliverers, DeliverStep(d) PROVE PendingHandleOpen'
    <2>1. CASE (\E frameOK \in BOOLEAN : DeliverCheck(d, frameOK)) \/ DeliverRefused(d)
        BY <1>2, <2>1 DEF DeliverCheck, DeliverRefused, state
    <2>2. CASE DeliverMismatch(d) \/ DeliverPublish(d)
        BY <1>8, <2>2 DEF DeliverMismatch, DeliverPublish, Deliverable
    <2>3. CASE DeliverOverflow(d)
        BY <1>1, <2>3 DEF DeliverOverflow, failLocked
    <2>4. CASE DeliverClose(d)
        BY <1>2, <1>8, <2>4 DEF DeliverClose
    <2> QED
        BY <1>10, <2>1, <2>2, <2>3, <2>4 DEF DeliverStep
<1>11. ASSUME NEW g, CloseGeneration(g) PROVE PendingHandleOpen'
    BY <1>1, <1>2, <1>11 DEF CloseGeneration, state
<1>12. ASSUME NEW c \in Callers,
              AssignCall(c) \/ AssignRefused(c) \/ AssignOK(c) \/ AssignRejected(c)
       PROVE  PendingHandleOpen'
    BY <1>2, <1>12 DEF AssignCall, AssignBegin, AssignRefused, AssignOK, AssignRejected, state
<1>13. ASSUME NEW d \in Deliverers, DeliverCall(d) PROVE PendingHandleOpen'
    BY <1>2, <1>13 DEF DeliverCall, DeliverCallback, DeliverIPCFrame, state
<1>14. ASSUME NEW h, Open(h) PROVE PendingHandleOpen'
    BY <1>1, <1>3, <1>14 DEF Open, OpenInvalid, OpenOverflow, failLocked
<1>15. CASE ReceiveOpened \/ ReceiveVerified \/ Tick \/ UNCHANGED vars
    BY <1>2, <1>15 DEF ReceiveOpened, ReceiveVerified, Tick, vars, state
<1>16. CASE Activate \/ Deactivate \/ \E g \in Generations : FatalCall(g)
    BY <1>1, <1>11, <1>16 DEF Activate, Deactivate, FatalCall
<1> QED
    BY <1>4, <1>5, <1>6, <1>7, <1>9, <1>10, <1>12, <1>13, <1>14, <1>15, <1>16
       DEF Next, AssignStep

\* The two maps agree in every reachable state: whatever interleaving of open,
\* assign, expire and deliver, an assignment is never pending for a handle that
\* was evicted or closed, and no handle ever has two.
THEOREM PendingConsistent == Spec => []PendingHandleOpen
<1>1. Init => PendingHandleOpen
    BY EmptyFacts, EmptyPending DEF Init
<1> QED
    BY <1>1, InitTypeInv, NextTypeInv, NextPending, PTL DEF Spec
============================================================================
