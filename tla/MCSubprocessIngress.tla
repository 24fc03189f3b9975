------------------------ MODULE MCSubprocessIngress ------------------------
(***************************************************************************)
(* Small instances of the session for TLC.                                 *)
(***************************************************************************)
EXTENDS SubprocessIngress, TLC

\* Connections, correlations and goroutines are interchangeable in the actions
\* and in the safety properties.
Symmetry ==
    Permutations(Handles) \cup Permutations(Correlations) \cup Permutations(Callers)

\* The two situations the liveness run explores in full, with numbered
\* connections and goroutines.  They bound only what Gate and the child choose
\* to do, for which no fairness is assumed.
Busy == {c \in Callers : caller[c] # IdleCaller}
InOrder == \A g, h \in Handles : g < h /\ h \in reported => g \in reported

\* One goroutine and two connections against a child that answers, or not.
Answering ==
    /\ Cardinality(reported) <= 2
    /\ \A c \in Busy : c = 1 /\ caller[c].a.expiresAt = 1

\* A child that has read nothing, and an assignment more than the socket and
\* the writer hold: connection 1 fills the socket, 2 and 3 follow.
Silent ==
    /\ childRead = 1 /\ childErr = "none"
    /\ child = "running" => connections = reported
    /\ Busy # {} => reported = Handles
    /\ \A c \in Busy : caller[c].a.handle \in {1, c + 1}
    /\ \A c \in Busy : IF caller[c].a.handle = 1 THEN c = 1
                       ELSE writeSequence > 0 /\ caller[c].a.expiresAt = 2

Situations == InOrder /\ (Answering \/ Silent)
============================================================================
