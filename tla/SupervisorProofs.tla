-------------------------- MODULE SupervisorProofs --------------------------
(***************************************************************************)
(* Safety of the restart loop for every retry limit, backoff and number of *)
(* children.                                                               *)
(***************************************************************************)
EXTENDS SubprocessSupervisor, TLAPS

----------------------------------------------------------------------------
(***************************************************************************)
(* The inductive invariant: what holds at each step of run and runOnce.    *)
(***************************************************************************)
\* The steps of run outside runOnce, and those of runOnce before the pipes
\* are read.
Outside == {"setup", "check", "launch", "decide", "backoff", "returned"}
Unread == {"bootstrap", "pipes", "reapUnbooted"}

\* The loop counter stays below its bound while a child may run.
AttemptInv == pc \notin {"setup", "check", "returned"} => attempt < MaxRuns

\* Outside runOnce nothing of a child is left; inside, its output reader
\* starts with the pipes and the child is awaited before the readers are.
RunInv ==
    /\ pc \in Outside => child # "alive" /\ session # "open"
    /\ pc \in Outside \cup Unread => output # "reading" /\ ~healthy
    /\ pc \in {"reapUnbooted", "reap", "join"} => session # "open"
    /\ pc = "join" => child \in Exited

\* Why runOnce ends: until the session fails, SIGTERM comes from the watcher
\* only, and only after a cancellation; a session that failed has its error.
TermInv ==
    /\ watcher \in {"term", "kill"} => canceled
    /\ pc \in {"bootstrap", "pipes", "select"} /\ term => watcher \in {"term", "kill"}
    /\ pc = "bootstrap" => session # "closed"
    /\ pc \in {"pipes", "select", "reap"} /\ session = "closed" => sessionErr # "none"
    /\ pc = "reap" => session = "closed"
    /\ pc = "reapUnbooted" => err = "session"

\* The error runOnce is about to return says what happened to the child.
ErrorInv ==
    pc \in {"join", "decide"} =>
        /\ err = "none" => child = "clean" /\ ~term
        /\ err = "ctx" => canceled

ResultInv ==
    /\ pc # "returned" => result = "none"
    /\ NilOnlyAfterCleanExit

Inv ==
    /\ TypeOK /\ AttemptInv /\ RunInv
    /\ TermInv /\ ErrorInv /\ ResultInv

----------------------------------------------------------------------------
(***************************************************************************)
(* The proof.                                                              *)
(***************************************************************************)
\* backoff.next stays between the limits of the policy.
LEMMA NextDelayBounded ==
    ASSUME cur \in {minDelay, maxDelay} \cup minDelay .. maxDelay
    PROVE  NextDelay \in {minDelay, maxDelay} \cup minDelay .. maxDelay
<1>1. minDelay \in Nat \ {0} /\ maxDelay \in Nat \ {0}
    BY BackoffAssumption DEF minDelay, maxDelay
<1> QED
    BY <1>1 DEF NextDelay

\* The supervisor starts with nothing running.
LEMMA InitInv == Init => Inv
<1> SUFFICES ASSUME Init PROVE Inv
    OBVIOUS
<1> USE RetryAssumption, BackoffAssumption DEF Init
<1>1. (canceled \in BOOLEAN /\ stubborn \in BOOLEAN /\ term \in BOOLEAN /\ doneLine \in BOOLEAN
       /\ healthy \in BOOLEAN)
    OBVIOUS
<1>2. TypeOK /\ AttemptInv
    BY <1>1 DEF TypeOK, Exited, Results, AttemptInv
<1>3. RunInv /\ TermInv /\ ErrorInv /\ ResultInv
    BY DEF RunInv, Outside, Unread, TermInv, ErrorInv, ResultInv, NilOnlyAfterCleanExit
<1> QED
    BY <1>2, <1>3 DEF Inv

\* Every step of the supervisor, the watcher, the readers and the child
\* preserves the invariant.
LEMMA NextInv == Inv /\ [Next]_vars => Inv'
<1> SUFFICES ASSUME Inv, [Next]_vars PROVE Inv'
    OBVIOUS
<1> USE RetryAssumption, BackoffAssumption
    DEF Inv, process, ingress, stdout, loop
<1>1. CASE Setup
    <2>1. TypeOK' /\ AttemptInv'
        BY <1>1 DEF Setup, Return, TypeOK, Exited, Results, AttemptInv
    <2>2. RunInv'
        BY <1>1 DEF Setup, Return, TypeOK, RunInv, Outside, Unread, Exited
    <2>3. TermInv' /\ ErrorInv' /\ ResultInv'
        BY <1>1 DEF Setup, Return, TypeOK, RunInv, Outside, Unread, Exited, Results,
           TermInv, ErrorInv,
                   ResultInv, NilOnlyAfterCleanExit
    <2> QED
        BY <2>1, <2>2, <2>3
<1>2. CASE Check
    <2>1. TypeOK' /\ AttemptInv'
        BY <1>2 DEF Check, Return, RetriesExhausted, TypeOK, Exited, Results, AttemptInv
    <2>2. RunInv'
        BY <1>2 DEF Check, Return, RetriesExhausted, TypeOK, RunInv, Outside, Unread, Exited
    <2>3. TermInv' /\ ErrorInv' /\ ResultInv'
        BY <1>2 DEF Check, Return, RetriesExhausted, TypeOK, RunInv, Outside, Unread,
           Exited, Results, TermInv, ErrorInv,
                   ResultInv, NilOnlyAfterCleanExit
    <2> QED
        BY <2>1, <2>2, <2>3
<1>3. CASE Decide
    <2>1. TypeOK' /\ AttemptInv'
        BY <1>3 DEF Decide, Return, ContextError, TypeOK, Exited, Results, AttemptInv
    <2>2. RunInv'
        BY <1>3 DEF Decide, Return, ContextError, TypeOK, RunInv, Outside, Unread, Exited
    <2>3. TermInv' /\ ErrorInv' /\ ResultInv'
        BY <1>3 DEF Decide, Return, ContextError, TypeOK, RunInv, Outside, Unread, Exited,
           Results, TermInv, ErrorInv,
                   ResultInv, NilOnlyAfterCleanExit
    <2> QED
        BY <2>1, <2>2, <2>3
<1>4. CASE Backoff
    <2>1. TypeOK' /\ AttemptInv'
        BY <1>4, NextDelayBounded DEF Backoff, Return, TypeOK, Exited, Results, AttemptInv
    <2>2. RunInv'
        BY <1>4 DEF Backoff, Return, TypeOK, RunInv, Outside, Unread, Exited
    <2>3. TermInv' /\ ErrorInv' /\ ResultInv'
        BY <1>4 DEF Backoff, Return, TypeOK, RunInv, Outside, Unread, Exited, Results,
           TermInv, ErrorInv,
                   ResultInv, NilOnlyAfterCleanExit
    <2> QED
        BY <2>1, <2>2, <2>3
<1>5. CASE LaunchFails
    <2>1. TypeOK' /\ AttemptInv'
        BY <1>5 DEF LaunchFails, TypeOK, Exited, Results, AttemptInv
    <2>2. RunInv'
        BY <1>5 DEF LaunchFails, TypeOK, RunInv, Outside, Unread, Exited
    <2>3. TermInv' /\ ErrorInv' /\ ResultInv'
        BY <1>5 DEF LaunchFails, TypeOK, RunInv, Outside, Unread, Exited, Results, TermInv,
           ErrorInv,
                   ResultInv, NilOnlyAfterCleanExit
    <2> QED
        BY <2>1, <2>2, <2>3
<1>6. CASE Launch
    <2>1. TypeOK' /\ AttemptInv'
        BY <1>6 DEF Launch, TypeOK, Exited, Results, AttemptInv
    <2>2. RunInv'
        BY <1>6 DEF Launch, TypeOK, RunInv, Outside, Unread, Exited
    <2>3. TermInv' /\ ErrorInv' /\ ResultInv'
        BY <1>6 DEF Launch, TypeOK, RunInv, Outside, Unread, Exited, Results, TermInv,
           ErrorInv,
                   ResultInv, NilOnlyAfterCleanExit
    <2> QED
        BY <2>1, <2>2, <2>3
<1>7. CASE Bootstrap
    <2>0. (term \in BOOLEAN /\ doneLine \in BOOLEAN /\ healthy \in BOOLEAN)'
        BY <1>7 DEF Bootstrap, TypeOK
    <2>1. TypeOK' /\ AttemptInv'
        BY <1>7, <2>0 DEF Bootstrap, TypeOK, Exited, Results, AttemptInv
    <2>2. RunInv'
        BY <1>7 DEF Bootstrap, TypeOK, RunInv, Outside, Unread, Exited
    <2>3. TermInv' /\ ErrorInv' /\ ResultInv'
        BY <1>7 DEF Bootstrap, TypeOK, RunInv, Outside, Unread, Exited, Results, TermInv,
           ErrorInv,
                   ResultInv, NilOnlyAfterCleanExit
    <2> QED
        BY <2>1, <2>2, <2>3
<1>8. CASE Pipes
    <2>0. (term \in BOOLEAN /\ doneLine \in BOOLEAN /\ healthy \in BOOLEAN)'
        BY <1>8 DEF Pipes, TypeOK
    <2>1. TypeOK' /\ AttemptInv'
        BY <1>8, <2>0 DEF Pipes, TypeOK, Exited, Results, AttemptInv
    <2>2. RunInv'
        BY <1>8 DEF Pipes, TypeOK, RunInv, Outside, Unread, Exited
    <2>3. TermInv' /\ ErrorInv' /\ ResultInv'
        BY <1>8 DEF Pipes, TypeOK, RunInv, Outside, Unread, Exited, Results, TermInv,
           ErrorInv,
                   ResultInv, NilOnlyAfterCleanExit
    <2> QED
        BY <2>1, <2>2, <2>3
<1>9. CASE ReapUnbooted
    <2>1. TypeOK' /\ AttemptInv'
        BY <1>9 DEF ReapUnbooted, Waited, TypeOK, Exited, Results, AttemptInv
    <2>2. RunInv'
        BY <1>9 DEF ReapUnbooted, Waited, TypeOK, RunInv, Outside, Unread, Exited
    <2>3. TermInv' /\ ErrorInv' /\ ResultInv'
        BY <1>9 DEF ReapUnbooted, Waited, TypeOK, RunInv, Outside, Unread, Exited, Results,
           TermInv, ErrorInv,
                   ResultInv, NilOnlyAfterCleanExit
    <2> QED
        BY <2>1, <2>2, <2>3
<1>10. CASE SelectExited
    <2>1. TypeOK' /\ AttemptInv'
        BY <1>10 DEF SelectExited, Waited, WaitError, TypeOK, Exited, Results, AttemptInv
    <2>2. RunInv'
        BY <1>10 DEF SelectExited, Waited, WaitError, TypeOK, RunInv, Outside, Unread,
           Exited
    <2>3. TermInv' /\ ErrorInv' /\ ResultInv'
        BY <1>10 DEF SelectExited, Waited, WaitError, TypeOK, RunInv, Outside, Unread,
           Exited, Results, TermInv, ErrorInv,
                   ResultInv, NilOnlyAfterCleanExit
    <2> QED
        BY <2>1, <2>2, <2>3
<1>11. CASE SelectSession
    <2>1. TypeOK' /\ AttemptInv'
        BY <1>11 DEF SelectSession, TypeOK, Exited, Results, AttemptInv
    <2>2. RunInv'
        BY <1>11 DEF SelectSession, TypeOK, RunInv, Outside, Unread, Exited
    <2>3. TermInv' /\ ErrorInv' /\ ResultInv'
        BY <1>11 DEF SelectSession, TypeOK, RunInv, Outside, Unread, Exited, Results,
           TermInv, ErrorInv,
                   ResultInv, NilOnlyAfterCleanExit
    <2> QED
        BY <2>1, <2>2, <2>3
<1>12. CASE Reap
    <2>1. TypeOK' /\ AttemptInv'
        BY <1>12 DEF Reap, Waited, WaitError, TypeOK, Exited, Results, AttemptInv
    <2>2. RunInv'
        BY <1>12 DEF Reap, Waited, WaitError, TypeOK, RunInv, Outside, Unread, Exited
    <2>3. TermInv' /\ ErrorInv' /\ ResultInv'
        BY <1>12 DEF Reap, Waited, WaitError, TypeOK, RunInv, Outside, Unread, Exited,
           Results, TermInv, ErrorInv,
                   ResultInv, NilOnlyAfterCleanExit
    <2> QED
        BY <2>1, <2>2, <2>3
<1>13. CASE Join
    <2>0. (term \in BOOLEAN /\ doneLine \in BOOLEAN /\ healthy \in BOOLEAN)'
        BY <1>13 DEF Join, TypeOK
    <2>1. TypeOK' /\ AttemptInv'
        BY <1>13, <2>0 DEF Join, Joined, TypeOK, Exited, Results, AttemptInv
    <2>2. RunInv'
        BY <1>13 DEF Join, Joined, TypeOK, RunInv, Outside, Unread, Exited
    <2>3. TermInv' /\ ErrorInv' /\ ResultInv'
        BY <1>13 DEF Join, Joined, TypeOK, RunInv, Outside, Unread, Exited, Results,
           TermInv, ErrorInv,
                   ResultInv, NilOnlyAfterCleanExit
    <2> QED
        BY <2>1, <2>2, <2>3
<1>14. CASE Cancel
    <2>1. TypeOK' /\ AttemptInv'
        BY <1>14 DEF Cancel, TypeOK, Exited, Results, AttemptInv
    <2>2. RunInv'
        BY <1>14 DEF Cancel, TypeOK, RunInv, Outside, Unread, Exited
    <2>3. TermInv' /\ ErrorInv' /\ ResultInv'
        BY <1>14 DEF Cancel, TypeOK, RunInv, Outside, Unread, Exited, Results, TermInv,
           ErrorInv,
                   ResultInv, NilOnlyAfterCleanExit
    <2> QED
        BY <2>1, <2>2, <2>3
<1>15. CASE WatcherTerm
    <2>1. TypeOK' /\ AttemptInv'
        BY <1>15 DEF WatcherTerm, TypeOK, Exited, Results, AttemptInv
    <2>2. RunInv'
        BY <1>15 DEF WatcherTerm, TypeOK, RunInv, Outside, Unread, Exited
    <2>3. TermInv' /\ ErrorInv' /\ ResultInv'
        BY <1>15 DEF WatcherTerm, TypeOK, RunInv, Outside, Unread, Exited, Results, TermInv,
           ErrorInv,
                   ResultInv, NilOnlyAfterCleanExit
    <2> QED
        BY <2>1, <2>2, <2>3
<1>16. CASE WatcherKill
    <2>1. TypeOK' /\ AttemptInv'
        BY <1>16 DEF WatcherKill, TypeOK, Exited, Results, AttemptInv
    <2>2. RunInv'
        BY <1>16 DEF WatcherKill, TypeOK, RunInv, Outside, Unread, Exited
    <2>3. TermInv' /\ ErrorInv' /\ ResultInv'
        BY <1>16 DEF WatcherKill, TypeOK, RunInv, Outside, Unread, Exited, Results, TermInv,
           ErrorInv,
                   ResultInv, NilOnlyAfterCleanExit
    <2> QED
        BY <2>1, <2>2, <2>3
<1>17. CASE SessionFails
    <2>1. TypeOK' /\ AttemptInv'
        BY <1>17 DEF SessionFails, TypeOK, Exited, Results, AttemptInv
    <2>2. RunInv'
        BY <1>17 DEF SessionFails, TypeOK, RunInv, Outside, Unread, Exited
    <2>3. TermInv' /\ ErrorInv' /\ ResultInv'
        BY <1>17 DEF SessionFails, TypeOK, RunInv, Outside, Unread, Exited, Results,
           TermInv, ErrorInv,
                   ResultInv, NilOnlyAfterCleanExit
    <2> QED
        BY <2>1, <2>2, <2>3
<1>18. CASE ReadDone
    <2>0. (term \in BOOLEAN /\ doneLine \in BOOLEAN /\ healthy \in BOOLEAN)'
        BY <1>18 DEF ReadDone, TypeOK
    <2>1. TypeOK' /\ AttemptInv'
        BY <1>18, <2>0 DEF ReadDone, TypeOK, Exited, Results, AttemptInv
    <2>2. RunInv'
        BY <1>18 DEF ReadDone, TypeOK, RunInv, Outside, Unread, Exited
    <2>3. TermInv' /\ ErrorInv' /\ ResultInv'
        BY <1>18 DEF ReadDone, TypeOK, RunInv, Outside, Unread, Exited, Results, TermInv,
           ErrorInv,
                   ResultInv, NilOnlyAfterCleanExit
    <2> QED
        BY <2>1, <2>2, <2>3
<1>19. CASE ReadEnds
    <2>0. (term \in BOOLEAN /\ doneLine \in BOOLEAN /\ healthy \in BOOLEAN)'
        BY <1>19 DEF ReadEnds, TypeOK
    <2>1. TypeOK' /\ AttemptInv'
        BY <1>19, <2>0 DEF ReadEnds, TypeOK, Exited, Results, AttemptInv
    <2>2. RunInv'
        BY <1>19 DEF ReadEnds, TypeOK, RunInv, Outside, Unread, Exited
    <2>3. TermInv' /\ ErrorInv' /\ ResultInv'
        BY <1>19 DEF ReadEnds, TypeOK, RunInv, Outside, Unread, Exited, Results, TermInv,
           ErrorInv,
                   ResultInv, NilOnlyAfterCleanExit
    <2> QED
        BY <2>1, <2>2, <2>3
<1>20. CASE ChildReady
    <2>1. TypeOK' /\ AttemptInv'
        BY <1>20 DEF ChildReady, TypeOK, Exited, Results, AttemptInv
    <2>2. RunInv'
        BY <1>20 DEF ChildReady, TypeOK, RunInv, Outside, Unread, Exited
    <2>3. TermInv' /\ ErrorInv' /\ ResultInv'
        BY <1>20 DEF ChildReady, TypeOK, RunInv, Outside, Unread, Exited, Results, TermInv,
           ErrorInv,
                   ResultInv, NilOnlyAfterCleanExit
    <2> QED
        BY <2>1, <2>2, <2>3
<1>21. CASE ChildExits
    <2>1. TypeOK' /\ AttemptInv'
        BY <1>21 DEF ChildExits, TypeOK, Exited, Results, AttemptInv
    <2>2. RunInv'
        BY <1>21 DEF ChildExits, TypeOK, RunInv, Outside, Unread, Exited
    <2>3. TermInv' /\ ErrorInv' /\ ResultInv'
        BY <1>21 DEF ChildExits, TypeOK, RunInv, Outside, Unread, Exited, Results, TermInv,
           ErrorInv,
                   ResultInv, NilOnlyAfterCleanExit
    <2> QED
        BY <2>1, <2>2, <2>3
<1>22. CASE UNCHANGED vars
    BY <1>22 DEF vars, TypeOK, AttemptInv, RunInv, Outside, Unread, TermInv, ErrorInv,
              ResultInv, NilOnlyAfterCleanExit
<1> QED
    BY <1>1, <1>2, <1>3, <1>4, <1>5, <1>6, <1>7, <1>8, <1>9, <1>10, <1>11, <1>12, <1>13,
       <1>14, <1>15, <1>16, <1>17, <1>18, <1>19, <1>20, <1>21, <1>22
       DEF Next, Supervisor

\* The invariant holds throughout.
LEMMA Invariant == Spec => []Inv
BY InitInv, NextInv, PTL DEF Spec

\* Type correctness; in particular backoff.next never leaves the range of the
\* restart policy, whatever its limits.
THEOREM SupervisorTypeCorrect == Spec => []TypeOK
<1>1. Inv => TypeOK
    BY DEF Inv
<1> QED
    BY <1>1, Invariant, PTL

\* Between two children nothing of the last one is left, for every retry limit
\* and however the child, the session, the readers and a cancellation race:
\* session.wait and pipeWG.Wait are enough.
THEOREM CleanBetweenRuns == Spec => []NothingLeftBetweenRuns
<1>1. Inv => NothingLeftBetweenRuns
    BY DEF Inv, RunInv, Outside, Unread, NothingLeftBetweenRuns
<1> QED
    BY <1>1, Invariant, PTL

\* run returns nil only after a child that ended by itself with success: never
\* for one that was sent SIGTERM or killed, and never after a cancellation.
THEOREM NilMeansCleanExit == Spec => []NilOnlyAfterCleanExit
<1>1. Inv => NilOnlyAfterCleanExit
    BY DEF Inv, ResultInv
<1> QED
    BY <1>1, Invariant, PTL
=============================================================================
