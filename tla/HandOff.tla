------------------------------ MODULE HandOff ------------------------------
(***************************************************************************)
(* What the verified ingress promises to Gate, whatever carries it: the    *)
(* broker's callbacks (go/ingress.go) or the socket of a child             *)
(* (go/subprocess_ingress.go).                                             *)
(*                                                                         *)
(* A connection is reported once; Gate binds it to a correlation and an    *)
(* expiry at most once; a frame of it is published at most once, showing   *)
(* the terms it is bound with at that moment; and a connection that was    *)
(* given up stays given up.  Which connections are given up, and when, is  *)
(* left open.  What was published is kept as a sequence, so that a second  *)
(* frame of a connection is a second entry and not the same state again.   *)
(***************************************************************************)
EXTENDS Sequences

CONSTANTS
    Connections,    \* the native connections of a generation
    Terms,          \* what Gate binds: a correlation and an expiry
    NoTerms,        \* a connection that is not bound
    Correlation(_), \* the correlation of the terms
    Frame(_, _)     \* the frame of a connection that is bound to the terms

VARIABLES
    phase,          \* "unknown", "open", "bound", "published" or "closed"
    terms,          \* the terms of a bound connection
    frames          \* every frame published in this generation, in order

vars == <<phase, terms, frames>>

Phases == {"unknown", "open", "bound", "published", "closed"}

In(p) == {c \in Connections : phase[c] = p}
Live == In("open") \cup In("bound")

Init ==
    /\ phase = [c \in Connections |-> "unknown"]
    /\ terms = [c \in Connections |-> NoTerms]
    /\ frames = <<>>

\* The connections S are given up.
Given(S) == [c \in Connections |-> IF c \in S THEN "closed" ELSE phase[c]]
Cleared(S) == [c \in Connections |-> IF c \in S THEN NoTerms ELSE terms[c]]

\* c is reported; connections that nobody bound may make room for it.
Report(c) ==
    /\ phase[c] = "unknown"
    /\ \E S \in SUBSET In("open") : phase' = [Given(S) EXCEPT ![c] = "open"]
    /\ UNCHANGED <<terms, frames>>

\* A correlation is bound to one connection at a time.
Bind(c) ==
    /\ phase[c] = "open"
    /\ phase' = [phase EXCEPT ![c] = "bound"]
    /\ \E t \in Terms :
          /\ \A o \in In("bound") : Correlation(terms[o]) # Correlation(t)
          /\ terms' = [terms EXCEPT ![c] = t]
    /\ UNCHANGED frames

Publish(c) ==
    /\ phase[c] = "bound"
    /\ phase' = [phase EXCEPT ![c] = "published"]
    /\ terms' = [terms EXCEPT ![c] = NoTerms]
    /\ frames' = Append(frames, Frame(c, terms[c]))

\* Refused, expired, closed or replaced.
Drop(S) ==
    /\ phase' = Given(S)
    /\ terms' = Cleared(S)
    /\ UNCHANGED frames

\* The generation ends: nothing of it is live, and what it never reported
\* (or had on its way) may be lost.
End ==
    \E S \in SUBSET In("unknown") :
        /\ phase' = Given(S \cup Live)
        /\ terms' = Cleared(Live)
        /\ UNCHANGED frames

Renew ==
    /\ phase' = [c \in Connections |-> "unknown"]
    /\ terms' = [c \in Connections |-> NoTerms]
    /\ frames' = <<>>

Next ==
    \/ \E S \in SUBSET Live : Drop(S)
    \/ \E c \in Connections : Report(c) \/ Bind(c) \/ Publish(c)
    \/ End
    \/ Renew

Spec == Init /\ [][Next]_vars
=============================================================================
