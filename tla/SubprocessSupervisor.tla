----------------------- MODULE SubprocessSupervisor -----------------------
(***************************************************************************)
(* A Server in subprocess mode: the restart loop and runOnce of            *)
(* go/subprocess.go with its backoff (go/backoff.go), the ingress session  *)
(* reduced to open and closed, the goroutine that forwards the child's     *)
(* standard output and sets healthyFlag, and the child process.            *)
(*                                                                         *)
(* External: os/exec.  CommandContext starts a watcher that, once the      *)
(* context is done, calls cmd.Cancel (SIGTERM) and after WaitDelay kills   *)
(* the child; Wait returns the child's exit error, or the context's error  *)
(* when the child exited with 0 after the watcher had fired.               *)
(***************************************************************************)
EXTENDS Integers

CONSTANTS
    MaxRetries,         \* RestartPolicy.MaxRetries, no limit unless positive
    MaxRuns,            \* bound: child processes of one behaviour
    MinBackoff,         \* RestartPolicy.MinBackoff, in seconds
    MaxBackoff          \* RestartPolicy.MaxBackoff, in seconds

ASSUME RetryAssumption == MaxRetries \in Int /\ MaxRuns \in Nat \ {0}
ASSUME BackoffAssumption == MinBackoff \in Int /\ MaxBackoff \in Int

VARIABLES
    supported,  \* ingressSubprocessSupported(), a fact of the platform
    pc,         \* the goroutine in subprocessRunner.run
    attempt,    \* its loop variable
    cur,        \* backoff.cur
    canceled,   \* the run context is done
    child,      \* "none", "alive", "clean" (exit 0) or "crashed"
    stubborn,   \* the child ignores SIGTERM
    term,       \* the living child was sent SIGTERM
    watcher,    \* exec's context watcher: "off", "armed", "term", "kill"
    session,    \* "none", "open", "closed"
    sessionErr, \* session.err(): "none", io.EOF because the child is gone
                \* ("EOF") or closed its end ("dropped"), or "protocol"
    err,        \* runOnce's result: "none", "exit", "session", "ctx", "start"
    output,     \* the stdout reader: "none", "reading", "done"
    doneLine,   \* the "Done (" line waits in the stdout pipe
    healthy,    \* healthyFlag
    result      \* what run returned

process == <<child, stubborn, term, watcher>>
ingress == <<session, sessionErr>>
stdout == <<output, doneLine, healthy>>
loop == <<attempt, cur>>
vars == <<supported, pc, loop, canceled, process, ingress, err, stdout, result>>

----------------------------------------------------------------------------
Exited == {"clean", "crashed"}
Results == {"none", "nil", "ctx", "maxRetries", "setup"}

\* newBackoff: the limits where the policy gives none or contradicts itself.  A
\* minimum above a minute without a maximum stays above the default maximum.
minDelay == IF MinBackoff <= 0 THEN 1 ELSE MinBackoff
maxDelay == IF MaxBackoff <= 0 \/ MaxBackoff < minDelay THEN 60 ELSE MaxBackoff

Init ==
    /\ supported \in BOOLEAN
    /\ pc = "setup"
    /\ attempt = 0
    /\ cur = minDelay
    /\ canceled = FALSE
    /\ child = "none" /\ stubborn = FALSE /\ term = FALSE /\ watcher = "off"
    /\ session = "none" /\ sessionErr = "none"
    /\ err = "none"
    /\ output = "none" /\ doneLine = FALSE /\ healthy = FALSE
    /\ result = "none"

----------------------------------------------------------------------------
(***************************************************************************)
(* run: the restart loop.                                                  *)
(***************************************************************************)
\* ctx.Err()
ContextError == IF canceled THEN "ctx" ELSE "nil"

Return(r) == pc' = "returned" /\ result' = r

\* locateBinary and the staging of the working directory.
Setup ==
    /\ pc = "setup"
    /\ \/ Return("setup")
       \/ pc' = "check" /\ UNCHANGED result
    /\ UNCHANGED <<supported, loop, canceled, process, ingress, err, stdout>>

RetriesExhausted == MaxRetries > 0 /\ attempt >= MaxRetries

Check ==
    /\ pc = "check"
    /\ IF RetriesExhausted
       THEN Return("maxRetries")
       ELSE attempt < MaxRuns /\ pc' = "launch" /\ UNCHANGED result
    /\ UNCHANGED <<supported, loop, canceled, process, ingress, err, stdout>>

\* runOnce has returned: nil or context.Canceled ends the loop.
Decide ==
    /\ pc = "decide"
    /\ IF err \in {"none", "ctx"}
       THEN Return(ContextError)
       ELSE pc' = "backoff" /\ UNCHANGED result
    /\ UNCHANGED <<supported, loop, canceled, process, ingress, err, stdout>>

\* Fault: the delay is doubled without the cap.
NextDelayUncapped == cur * 2

\* backoff.next: the delay to come after this one.
NextDelay == IF cur * 2 > maxDelay THEN maxDelay ELSE cur * 2

\* The select between the context and the backoff timer; attempt++.
Backoff ==
    /\ pc = "backoff"
    /\ \/ /\ canceled
          /\ Return("ctx")
          /\ UNCHANGED loop
       \/ /\ pc' = "check"
          /\ attempt' = attempt + 1
          /\ cur' = NextDelay
          /\ UNCHANGED result
    /\ UNCHANGED <<supported, canceled, process, ingress, err, stdout>>

----------------------------------------------------------------------------
(***************************************************************************)
(* runOnce.                                                                *)
(***************************************************************************)
\* The socketpair, the key, the pipes or cmd.Start fails; Start reports the
\* context's error when the context is done already.
LaunchFails ==
    /\ pc = "launch"
    /\ err' = IF canceled THEN "ctx" ELSE "start"
    /\ pc' = "decide"
    /\ child' = "none"
    /\ UNCHANGED <<supported, loop, canceled, stubborn, term, watcher, ingress,
                   stdout, result>>

Launch ==
    /\ pc = "launch"
    /\ ~canceled
    /\ child' = "alive" /\ stubborn' \in BOOLEAN
    /\ term' = FALSE /\ watcher' = "armed"
    /\ session' = (IF supported THEN "open" ELSE "none")
    /\ sessionErr' = "none"
    /\ err' = "none"
    /\ pc' = IF supported THEN "bootstrap" ELSE "pipes"
    /\ UNCHANGED <<supported, loop, canceled, stdout, result>>

\* The bootstrap packet cannot be written: the session is closed, the child
\* gets SIGTERM and is awaited.  Otherwise the broker is activated.
Bootstrap ==
    /\ pc = "bootstrap"
    /\ \/ pc' = "pipes" /\ UNCHANGED <<session, sessionErr, term, err>>
       \/ /\ session' = "closed" /\ sessionErr' = "protocol"
          /\ term' = (child = "alive")
          /\ err' = "session"
          /\ pc' = "reapUnbooted"
    /\ UNCHANGED <<supported, loop, canceled, stubborn, child, watcher, stdout,
                   result>>

Pipes ==
    /\ pc = "pipes"
    /\ output' = "reading" /\ doneLine' = FALSE
    /\ pc' = "select"
    /\ UNCHANGED <<supported, loop, canceled, process, ingress, err, healthy,
                   result>>

\* cmd.Wait has returned; its error.
Waited == child \in Exited
WaitError ==
    IF child = "crashed" THEN "exit"
    ELSE IF watcher \in {"term", "kill"} THEN "ctx" ELSE "none"

\* The failed bootstrap's own cmd.Wait; the write error is what is returned.
ReapUnbooted ==
    /\ pc = "reapUnbooted"
    /\ Waited
    /\ pc' = "decide"
    /\ watcher' = "off"
    /\ UNCHANGED <<supported, loop, canceled, stubborn, child, term, ingress,
                   err, stdout, result>>

SelectExited ==
    /\ pc = "select"
    /\ Waited
    /\ err' = WaitError
    /\ session' = IF session = "none" THEN "none" ELSE "closed"
    /\ pc' = "join"
    /\ UNCHANGED <<supported, loop, canceled, process, sessionErr, stdout,
                   result>>

\* Fault: the child is awaited without being told to stop.
SelectSessionQuietly ==
    /\ pc = "select"
    /\ session = "closed"
    /\ pc' = "reap"
    /\ UNCHANGED <<supported, loop, canceled, process, ingress, err, stdout,
                   result>>

SelectSession ==
    /\ pc = "select"
    /\ session = "closed"
    /\ term' = (child = "alive")
    /\ pc' = "reap"
    /\ UNCHANGED <<supported, loop, canceled, stubborn, child, watcher,
                   ingress, err, stdout, result>>

\* Fault: the session error is forgotten.
ReapForgettingSession ==
    /\ pc = "reap"
    /\ Waited
    /\ err' = WaitError
    /\ pc' = "join"
    /\ UNCHANGED <<supported, loop, canceled, process, ingress, stdout,
                   result>>

\* The child is awaited without a deadline; a session error replaces its own.
Reap ==
    /\ pc = "reap"
    /\ Waited
    /\ err' = IF sessionErr # "none" THEN "session" ELSE WaitError
    /\ pc' = "join"
    /\ UNCHANGED <<supported, loop, canceled, process, ingress, stdout,
                   result>>

\* Fault: the readers are not awaited.
JoinedSessionOnly == session # "open"

\* session.wait() and pipeWG.Wait()
Joined == session # "open" /\ output = "done"

\* The deferred healthyFlag.Store(false) runs when runOnce returns.
Join ==
    /\ pc = "join"
    /\ Joined
    /\ healthy' = FALSE
    /\ watcher' = "off"
    /\ pc' = "decide"
    /\ UNCHANGED <<supported, loop, canceled, stubborn, child, term, ingress,
                   err, output, doneLine, result>>

Supervisor ==
    \/ Setup \/ Check \/ Decide \/ Backoff \/ LaunchFails \/ Launch \/ Bootstrap
    \/ Pipes \/ ReapUnbooted \/ SelectExited \/ SelectSession \/ Reap \/ Join

----------------------------------------------------------------------------
(***************************************************************************)
(* The context, exec's watcher, the session, the stdout reader, the child. *)
(***************************************************************************)
Cancel ==
    /\ pc # "returned"
    /\ ~canceled
    /\ canceled' = TRUE
    /\ UNCHANGED <<supported, pc, loop, process, ingress, err, stdout, result>>

WatcherTerm ==
    /\ watcher = "armed"
    /\ canceled
    /\ child = "alive"
    /\ watcher' = "term"
    /\ term' = TRUE
    /\ UNCHANGED <<supported, pc, loop, canceled, stubborn, child, ingress,
                   err, stdout, result>>

\* Fault: WaitDelay is not set.
WatcherNeverKills == FALSE /\ UNCHANGED vars

\* WaitDelay = ShutdownTimeout after cmd.Cancel: SIGKILL.
WatcherKill ==
    /\ watcher = "term"
    /\ child = "alive"
    /\ watcher' = "kill"
    /\ child' = "crashed"
    /\ UNCHANGED <<supported, pc, loop, canceled, stubborn, term, ingress, err,
                   stdout, result>>

\* readLoop meets EOF, or a packet or broker error it treats as fatal.
SessionFails ==
    /\ session = "open"
    /\ pc \notin {"launch", "bootstrap"}
    /\ session' = "closed"
    /\ \/ child \in Exited /\ sessionErr' = "EOF"
       \/ child = "alive" /\ sessionErr' \in {"dropped", "protocol"}
    /\ UNCHANGED <<supported, pc, loop, canceled, process, err, stdout,
                   result>>

\* pipeToLogger: the boot completion line sets healthyFlag.
ReadDone ==
    /\ output = "reading"
    /\ doneLine
    /\ doneLine' = FALSE
    /\ healthy' = TRUE
    /\ UNCHANGED <<supported, pc, loop, canceled, process, ingress, err,
                   output, result>>

\* The pipe ends after the child's exit; Wait may close it before the reader
\* has seen the last line.
ReadEnds ==
    /\ output = "reading"
    /\ child \in Exited
    /\ output' = "done"
    /\ doneLine' = FALSE
    /\ UNCHANGED <<supported, pc, loop, canceled, process, ingress, err,
                   healthy, result>>

ChildReady ==
    /\ child = "alive"
    /\ output = "reading"
    /\ ~healthy
    /\ doneLine' = TRUE
    /\ UNCHANGED <<supported, pc, loop, canceled, process, ingress, err,
                   output, healthy, result>>

\* The child exits by itself, or because of SIGTERM.
ChildExits ==
    /\ child = "alive"
    /\ child' \in Exited
    /\ UNCHANGED <<supported, pc, loop, canceled, stubborn, term, watcher,
                   ingress, err, stdout, result>>

Next ==
    \/ Supervisor \/ Cancel \/ WatcherTerm \/ WatcherKill \/ SessionFails
    \/ ReadDone \/ ReadEnds \/ ChildReady \/ ChildExits

\* Goroutines and the watcher run; the session's reader sees the socket close
\* when the child is gone; a child that is not stubborn obeys SIGTERM.
Fairness ==
    /\ WF_vars(Supervisor)
    /\ WF_vars(WatcherTerm) /\ WF_vars(WatcherKill)
    /\ WF_vars(child \in Exited /\ SessionFails)
    /\ WF_vars(ReadEnds)
    /\ WF_vars(~stubborn /\ term /\ ChildExits)

Spec == Init /\ [][Next]_vars /\ Fairness

----------------------------------------------------------------------------
(***************************************************************************)
(* Properties.                                                             *)
(***************************************************************************)
\* Every variable has its type, and the backoff stays between its limits (or is
\* one of them, should they be crossed).
TypeOK ==
    /\ supported \in BOOLEAN
    /\ pc \in {"setup", "check", "launch", "bootstrap", "pipes", "reapUnbooted",
               "select", "reap", "join", "decide", "backoff", "returned"}
    /\ attempt \in 0 .. MaxRuns
    /\ cur \in {minDelay, maxDelay} \cup minDelay .. maxDelay
    /\ canceled \in BOOLEAN
    /\ child \in {"none", "alive"} \cup Exited
    /\ stubborn \in BOOLEAN /\ term \in BOOLEAN
    /\ watcher \in {"off", "armed", "term", "kill"}
    /\ session \in {"none", "open", "closed"}
    /\ sessionErr \in {"none", "EOF", "dropped", "protocol"}
    /\ err \in {"none", "exit", "session", "ctx", "start"}
    /\ output \in {"none", "reading", "done"}
    /\ doneLine \in BOOLEAN
    /\ healthy \in BOOLEAN
    /\ result \in Results

\* Between two children nothing of the last one is left: it has exited, its
\* session is closed, its output reader has ended and the server is not
\* reported healthy (session.wait, pipeWG.Wait and the deferred store).
NothingLeftBetweenRuns ==
    pc \in {"decide", "backoff", "check", "launch", "returned"} =>
        child # "alive" /\ session # "open" /\ output # "reading" /\ ~healthy

\* A nil result means that the child ended by itself with success: a child
\* the supervisor had to terminate, or a canceled run, is never taken for one.
NilOnlyAfterCleanExit ==
    result = "nil" => child = "clean" /\ ~term /\ ~canceled

\* Once the context is canceled run returns, whatever the child does.
CanceledReturns == canceled ~> pc = "returned"

\* A child whose session or bootstrap failed is replaced or the loop ends,
\* provided it obeys SIGTERM.
FailureHandled ==
    pc \in {"reap", "reapUnbooted"} /\ ~stubborn ~> pc \in {"launch", "returned"}
============================================================================
