----------------------------- MODULE ConnState -----------------------------
(***************************************************************************)
(* Exercise 34: the table-driven connection state machine, fed with any    *)
(* sequence of up to MaxEvents events.  trace is the sequence of events    *)
(* sm_step accepted.                                                       *)
(***************************************************************************)
EXTENDS Naturals, Sequences

CONSTANT MaxEvents

States == {"IDLE", "CONNECTING", "CONNECTED", "CLOSING", "CLOSED"}
Events == {"CONNECT", "OPEN", "SEND", "CLOSE", "ERROR"}
NO_TRANS == "NO_TRANS"

VARIABLES state, trace, fed, accepted
vars == <<state, trace, fed, accepted>>

Init == state = "IDLE" /\ trace = <<>> /\ fed = 0 /\ accepted = TRUE

\* The listed entries; every other entry of the table is NO_TRANS.
Listed(s) ==
    CASE s = "IDLE"       -> [CONNECT |-> "CONNECTING", ERROR |-> "CLOSED"]
      [] s = "CONNECTING" -> [OPEN |-> "CONNECTED", ERROR |-> "CLOSED"]
      [] s = "CONNECTED"  -> [SEND |-> "CONNECTED", CLOSE |-> "CLOSING", ERROR |-> "CLOSED"]
      [] s = "CLOSING"    -> [CLOSE |-> "CLOSED", ERROR |-> "CLOSED"]
      [] s = "CLOSED"     -> [e \in {} |-> NO_TRANS]

\* Wrong: the last row is left to zero initialisation, and 0 is STATE_IDLE.
transitions_zeroed(s, e) ==
    IF s = "CLOSED" THEN "IDLE"
    ELSE IF e \in DOMAIN Listed(s) THEN Listed(s)[e] ELSE NO_TRANS

transitions(s, e) == IF e \in DOMAIN Listed(s) THEN Listed(s)[e] ELSE NO_TRANS

reject == UNCHANGED state

sm_step(e) ==
    /\ fed < MaxEvents /\ fed' = fed + 1
    /\ state \in States
    /\ \/ /\ transitions(state, e) = NO_TRANS
          /\ reject
          /\ accepted' = FALSE
          /\ UNCHANGED trace
       \/ /\ transitions(state, e) # NO_TRANS
          /\ state' = transitions(state, e)
          /\ accepted' = TRUE
          /\ trace' = Append(trace, e)

Next == (\E e \in Events : sm_step(e)) \/ (fed = MaxEvents /\ UNCHANGED vars)

Spec == Init /\ [][Next]_vars

-----------------------------------------------------------------------------
\* The accepted events without a final ERROR, and the CLOSEs among them.
body == IF trace # <<>> /\ trace[Len(trace)] = "ERROR"
        THEN SubSeq(trace, 1, Len(trace) - 1) ELSE trace
closes == {i \in DOMAIN body : body[i] = "CLOSE"}

(***************************************************************************)
(* The accepted events are the beginning of one connection's life:         *)
(* CONNECT, OPEN, any number of SENDs, CLOSE, CLOSE, cut short at any      *)
(* point by one final ERROR; so no data is sent on a connection that is    *)
(* not open, and the order of events holds at any distance.                *)
(***************************************************************************)
OneLife ==
    /\ \A i \in DOMAIN body :
         body[i] = CASE i = 1 -> "CONNECT" [] i = 2 -> "OPEN"
                     [] OTHER -> IF i \in closes THEN "CLOSE" ELSE "SEND"
    /\ \A i \in closes : (\A j \in i .. Len(body) : j \in closes) /\ i + 2 \notin closes
    /\ Len(body) < Len(trace) => \A i \in closes : i + 1 \notin closes

\* The state is always one of the enumeration, and agrees with the events.
StateMatchesTrace ==
    LET n == Len(trace)
    IN /\ state \in States
       /\ state = "IDLE" <=> n = 0
       /\ state = "CONNECTED" <=> n >= 2 /\ trace[n] \in {"OPEN", "SEND"}
       /\ state = "CLOSED" <=> n >= 1 /\ \/ trace[n] = "ERROR"
                                         \/ n >= 2 /\ trace[n] = "CLOSE" /\ trace[n - 1] = "CLOSE"

(***************************************************************************)
(* The events the state machine accepts form one connection's life, and    *)
(* its state is the one that life has reached.                             *)
(***************************************************************************)
Lifecycle == OneLife /\ StateMatchesTrace
=============================================================================
