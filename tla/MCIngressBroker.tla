------------------------- MODULE MCIngressBroker -------------------------
(***************************************************************************)
(* Small instances of the broker for TLC.                                  *)
(***************************************************************************)
EXTENDS IngressBroker, TLC

\* Handles, correlations and goroutines are interchangeable in the actions
\* and in the safety properties.
Symmetry ==
    Permutations(Handles) \cup Permutations(Correlations)
        \cup Permutations(Callers) \cup Permutations(Deliverers)

BusyCallers == {c \in Callers : caller[c] # IdleCaller}
Delivering == \E d \in Deliverers : deliverer[d] # IdleDeliverer
UsedHandles ==
    (reported \cup {caller[c].handle : c \in Callers}) \ {NoHandle}
UsedCorrelations ==
    ({x.correlation : x \in granted \cup expiring}
        \cup {caller[c].correlation : c \in Callers}
        \cup {deliverer[d].correlation : d \in Deliverers}) \ {NoCorrelation}

\* Expiries of at most one millisecond; later ones, which lose a part of a
\* millisecond on their way, meet every delivery in Handoff.
Short ==
    /\ \A x \in granted : x.expiresAt <= Milli
    /\ \A c \in Callers : caller[c].expiresAt <= Milli

\* The four situations the safety run explores in full, each within bounds of
\* its own: one connection across two generations; two connections against
\* deliveries and timers; two connections and two concurrent assignments; and
\* more connections than the handle map holds.
AcrossGenerations ==
    /\ Cardinality(UsedHandles) <= 1
    /\ Cardinality(UsedCorrelations) <= 1
    /\ Cardinality(BusyCallers) <= 1 \/ ~Delivering
    /\ Short
    /\ clock <= 1
Handoff ==
    /\ generation <= 1
    /\ Cardinality(reported) <= 2
    /\ Cardinality(BusyCallers) <= 1
    /\ clock <= 1
ConcurrentAssign ==
    /\ generation <= 1
    /\ Cardinality(reported) <= 2
    /\ ~Delivering
    /\ published = <<>>
    /\ Short
    /\ clock <= 1
Eviction ==
    /\ generation <= 1
    /\ Cardinality(BusyCallers) <= 1
    /\ Cardinality(UsedCorrelations) <= 1
    /\ ~Delivering
    /\ published = <<>>
    /\ Short
    /\ clock <= 2

Situations == AcrossGenerations \/ Handoff \/ ConcurrentAssign \/ Eviction
==========================================================================
