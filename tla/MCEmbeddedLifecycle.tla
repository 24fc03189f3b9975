------------------------ MODULE MCEmbeddedLifecycle ------------------------
(***************************************************************************)
(* Small instances of the embedded lifecycle for TLC.                      *)
(***************************************************************************)
EXTENDS EmbeddedLifecycle, TLC

\* The servers of a process are interchangeable in the safety properties.
Symmetry == Permutations(Servers)

\* With two servers, cancellation comes from the callers' contexts: Stop does
\* the same to the run and then only waits for it.
OnlyContexts == \A s \in Servers : stopper[s] = "idle"
============================================================================
