--------------------------- MODULE AlgorithmsProofs ---------------------------
(***************************************************************************)
(* Proofs about the sequential exercises: the connection state machine     *)
(* (34) for any number of events, the error paths (20) for any strings,    *)
(* any widths of int and long, and any failing call, the five sorts (17)   *)
(* for arrays of any length, the applications of the stack and the queue   *)
(* (16) for any string and any tree, the variadic functions (22) for any   *)
(* strings, and the regular expressions (32) for texts of any length.      *)
(***************************************************************************)
EXTENDS MCAlgorithms, WellFoundedInduction, FiniteSetTheorems, SequenceTheorems, TLAPS

\* The table, entry by entry: which event each state accepts and where it leads.
LEMMA Table ==
    ASSUME NEW e \in Events
    PROVE  /\ transitions("IDLE", e) = IF e = "CONNECT" THEN "CONNECTING"
                                      ELSE IF e = "ERROR" THEN "CLOSED" ELSE NO_TRANS
           /\ transitions("CONNECTING", e) = IF e = "OPEN" THEN "CONNECTED"
                                      ELSE IF e = "ERROR" THEN "CLOSED" ELSE NO_TRANS
           /\ transitions("CONNECTED", e) = IF e = "SEND" THEN "CONNECTED"
                                      ELSE IF e = "CLOSE" THEN "CLOSING"
                                      ELSE IF e = "ERROR" THEN "CLOSED" ELSE NO_TRANS
           /\ transitions("CLOSING", e) = IF e \in {"CLOSE", "ERROR"} THEN "CLOSED" ELSE NO_TRANS
           /\ transitions("CLOSED", e) = NO_TRANS
<1>1. Listed("IDLE") = [CONNECT |-> "CONNECTING", ERROR |-> "CLOSED"]
  BY DEF Listed
<1>2. Listed("CONNECTING") = [OPEN |-> "CONNECTED", ERROR |-> "CLOSED"]
  BY DEF Listed
<1>3. Listed("CONNECTED") = [SEND |-> "CONNECTED", CLOSE |-> "CLOSING", ERROR |-> "CLOSED"]
  BY DEF Listed
<1>4. Listed("CLOSING") = [CLOSE |-> "CLOSED", ERROR |-> "CLOSED"]
  BY DEF Listed
<1>5. Listed("CLOSED") = [x \in {} |-> NO_TRANS]
  BY DEF Listed
<1>6. transitions("IDLE", e) = IF e = "CONNECT" THEN "CONNECTING"
                                      ELSE IF e = "ERROR" THEN "CLOSED" ELSE NO_TRANS
  BY <1>1 DEF transitions, Events
<1>7. transitions("CONNECTING", e) = IF e = "OPEN" THEN "CONNECTED"
                                      ELSE IF e = "ERROR" THEN "CLOSED" ELSE NO_TRANS
  BY <1>2 DEF transitions, Events
<1>8. transitions("CONNECTED", e) = IF e = "SEND" THEN "CONNECTED"
                                      ELSE IF e = "CLOSE" THEN "CLOSING"
                                      ELSE IF e = "ERROR" THEN "CLOSED" ELSE NO_TRANS
  BY <1>3 DEF transitions, Events
<1>9. transitions("CLOSING", e) = IF e \in {"CLOSE", "ERROR"} THEN "CLOSED" ELSE NO_TRANS
  BY <1>4 DEF transitions, Events
<1>10. transitions("CLOSED", e) = NO_TRANS
  BY <1>5 DEF transitions
<1> QED
  BY <1>6, <1>7, <1>8, <1>9, <1>10

\* b is a connection's life with its first k events before any CLOSE.
Life(b, k) ==
    /\ b \in Seq(Events)
    /\ k \in 0 .. Len(b) /\ Len(b) <= k + 2 /\ (k < Len(b) => k >= 2)
    /\ \A i \in 1 .. Len(b) :
         b[i] = IF i > k THEN "CLOSE" ELSE IF i = 1 THEN "CONNECT" ELSE IF i = 2 THEN "OPEN" ELSE "SEND"

\* The state such a life ends in.
EndsIn(b, k) ==
    IF Len(b) = k + 2 THEN "CLOSED" ELSE IF Len(b) = k + 1 THEN "CLOSING"
    ELSE IF k = 0 THEN "IDLE" ELSE IF k = 1 THEN "CONNECTING" ELSE "CONNECTED"

\* The inductive invariant: the accepted events are a life, or a life that was
\* not over and then ERROR, and state is where the table leads at the end of it.
ConnInv ==
    \E b, k :
      /\ Life(b, k)
      /\ \/ trace = b /\ state = EndsIn(b, k)
         \/ trace = Append(b, "ERROR") /\ state = "CLOSED" /\ Len(b) <= k + 1

\* A machine that has accepted nothing is at the start of an empty life.
LEMMA ConnInit == Init => ConnInv
<1> SUFFICES ASSUME Init PROVE ConnInv
  OBVIOUS
<1>1. Life(<< >>, 0) /\ EndsIn(<< >>, 0) = "IDLE"
  BY DEF Life, EndsIn
<1> QED
  BY <1>1 DEF Init, ConnInv

\* An event other than ERROR that the table accepts continues the life it is
\* added to, and the table leads to the state that the longer life ends in.
LEMMA Grows ==
    ASSUME NEW b, NEW k, Life(b, k), Len(b) <= k + 1, NEW e \in Events,
           transitions(EndsIn(b, k), e) # NO_TRANS, e # "ERROR"
    PROVE  \E j : Life(Append(b, e), j) /\ EndsIn(Append(b, e), j) = transitions(EndsIn(b, k), e)
<1> DEFINE c == Append(b, e)
<1>1. b \in Seq(Events) /\ Len(b) \in Nat /\ k \in Nat /\ k <= Len(b)
  BY DEF Life
<1>2. /\ c \in Seq(Events) /\ Len(c) = Len(b) + 1 /\ c[Len(c)] = e
      /\ \A i \in 1 .. Len(b) : c[i] = b[i]
  BY <1>1
<1> HIDE DEF c
<1>3. CASE e = "CLOSE"
  <2>1. k >= 2 /\ EndsIn(b, k) \in {"CONNECTED", "CLOSING"}
    BY <1>1, <1>3, Table DEF Life, EndsIn
  <2>2. \A i \in 1 .. Len(c) :
          c[i] = IF i > k THEN "CLOSE" ELSE IF i = 1 THEN "CONNECT" ELSE IF i = 2 THEN "OPEN" ELSE "SEND"
    BY <1>1, <1>2, <1>3 DEF Life
  <2>3. Life(c, k)
    BY <1>1, <1>2, <2>1, <2>2 DEF Life
  <2>4. EndsIn(c, k) = transitions(EndsIn(b, k), e)
    BY <1>1, <1>2, <1>3, <2>1, Table DEF Life, EndsIn
  <2> QED
    BY <2>3, <2>4 DEF c
<1>4. CASE e # "CLOSE"
  <2>1. Len(b) = k
    BY <1>1, <1>4, Table DEF Life, EndsIn
  <2>2. e = IF k = 0 THEN "CONNECT" ELSE IF k = 1 THEN "OPEN" ELSE "SEND"
    BY <1>1, <1>4, <2>1, Table DEF EndsIn, Events
  <2>3. \A i \in 1 .. Len(c) :
          c[i] = IF i > k + 1 THEN "CLOSE" ELSE IF i = 1 THEN "CONNECT" ELSE IF i = 2 THEN "OPEN" ELSE "SEND"
    BY <1>1, <1>2, <2>1, <2>2 DEF Life
  <2>4. Life(c, k + 1)
    BY <1>1, <1>2, <2>1, <2>3 DEF Life
  <2>5. EndsIn(c, k + 1) = transitions(EndsIn(b, k), e)
    BY <1>1, <1>2, <2>1, <2>2, Table DEF EndsIn
  <2> QED
    BY <2>4, <2>5 DEF c
<1> QED
  BY <1>3, <1>4

\* sm_step keeps the invariant: a rejected event changes nothing, ERROR ends
\* the life, and any other accepted event continues it.
LEMMA ConnStep == ConnInv /\ [Next]_vars => ConnInv'
<1> SUFFICES ASSUME ConnInv, [Next]_vars PROVE ConnInv'
  OBVIOUS
<1>1. CASE UNCHANGED <<state, trace>>
  BY <1>1 DEF ConnInv
<1>2. ASSUME NEW e \in Events, transitions(state, e) # NO_TRANS,
             state' = transitions(state, e), trace' = Append(trace, e)
      PROVE  ConnInv'
  <2>1. PICK b, k : Life(b, k) /\ \/ trace = b /\ state = EndsIn(b, k)
                                  \/ trace = Append(b, "ERROR") /\ state = "CLOSED"
    BY DEF ConnInv
  <2>2. state # "CLOSED"
    BY <1>2, Table
  <2>3. trace = b /\ state = EndsIn(b, k) /\ Len(b) <= k + 1
    BY <2>1, <2>2 DEF Life, EndsIn
  <2>4. CASE e = "ERROR"
    <3>1. transitions(state, e) = "CLOSED"
      BY <2>2, <2>3, <2>4, Table DEF EndsIn
    <3> QED
      BY <1>2, <2>1, <2>3, <2>4, <3>1 DEF ConnInv
  <2>5. CASE e # "ERROR"
    <3>1. PICK j : Life(Append(b, e), j) /\ EndsIn(Append(b, e), j) = transitions(EndsIn(b, k), e)
      BY <1>2, <2>1, <2>3, <2>5, Grows
    <3> QED
      BY <1>2, <2>3, <3>1 DEF ConnInv
  <2> QED
    BY <2>4, <2>5
<1> QED
  BY <1>1, <1>2 DEF Next, sm_step, reject, vars

\* Taking a final ERROR off the accepted events gives the life back, and its
\* CLOSEs are the events after the first k.
LEMMA ConnBody ==
    ASSUME NEW b, NEW k, Life(b, k), trace = b \/ trace = Append(b, "ERROR")
    PROVE  /\ body = b /\ closes = (k + 1) .. Len(b)
           /\ trace = Append(b, "ERROR") => Len(trace) = Len(b) + 1 /\ trace[Len(trace)] = "ERROR"
<1>1. b \in Seq(Events) /\ Len(b) \in Nat /\ k \in Nat /\ k <= Len(b)
  BY DEF Life
<1>2. \A i \in 1 .. Len(b) : (b[i] = "CLOSE" <=> i > k) /\ b[i] # "ERROR"
  BY <1>1 DEF Life
<1>3. CASE trace = b
  <2>1. trace # << >> => trace[Len(trace)] # "ERROR"
    BY <1>1, <1>2, <1>3
  <2>2. body = b
    BY <1>3, <2>1 DEF body
  <2>3. closes = (k + 1) .. Len(b)
    BY <1>1, <1>2, <2>2 DEF closes
  <2>4. b # Append(b, "ERROR")
    <3>1. Len(Append(b, "ERROR")) = Len(b) + 1
      BY <1>1 DEF Events
    <3> QED
      BY <1>1, <3>1
  <2> QED
    BY <1>3, <2>2, <2>3, <2>4
<1>4. CASE trace = Append(b, "ERROR")
  <2>1. /\ trace \in Seq(Events) /\ Len(trace) = Len(b) + 1
        /\ trace[Len(trace)] = "ERROR" /\ trace # << >>
    BY <1>1, <1>4 DEF Events
  <2>2. SubSeq(Append(b, "ERROR"), 1, Len(b)) = b
    <3>1. "ERROR" \in Events
      BY DEF Events
    <3> QED
      BY <1>1, <3>1, AppendProperties, SubSeqProperties
  <2>3. body = b
    BY <1>1, <1>4, <2>1, <2>2 DEF body
  <2>4. closes = (k + 1) .. Len(b)
    BY <1>1, <1>2, <2>3 DEF closes
  <2> QED
    BY <2>1, <2>3, <2>4
<1> QED
  BY <1>3, <1>4

(***************************************************************************)
(* The transition table accepts one connection's life and nothing else,    *)
(* for event sequences of any length: whatever is fed to sm_step, the      *)
(* accepted events are CONNECT, OPEN, SENDs, CLOSE, CLOSE or a beginning   *)
(* of it, possibly cut short by ERROR, and state agrees with them.         *)
(***************************************************************************)
THEOREM OneConnection == Spec => []Lifecycle
<1>1. ASSUME ConnInv PROVE Lifecycle
  <2>1. PICK b, k :
          /\ Life(b, k)
          /\ \/ trace = b /\ state = EndsIn(b, k)
             \/ trace = Append(b, "ERROR") /\ state = "CLOSED" /\ Len(b) <= k + 1
    BY <1>1 DEF ConnInv
  <2>2. /\ body = b /\ closes = (k + 1) .. Len(b)
        /\ trace = Append(b, "ERROR") => Len(trace) = Len(b) + 1 /\ trace[Len(trace)] = "ERROR"
    BY <2>1, ConnBody
  <2>3. /\ b \in Seq(Events) /\ Len(b) \in Nat /\ k \in Nat /\ k <= Len(b)
        /\ Len(b) <= k + 2
        /\ DOMAIN b = 1 .. Len(b) /\ (k < Len(b) => k >= 2)
    BY <2>1 DEF Life
  <2>4. \A i \in DOMAIN body :
          body[i] = CASE i = 1 -> "CONNECT" [] i = 2 -> "OPEN"
                      [] OTHER -> IF i \in closes THEN "CLOSE" ELSE "SEND"
    BY <2>1, <2>2, <2>3 DEF Life
  <2>5. \A i \in closes : (\A j \in i .. Len(body) : j \in closes) /\ i + 2 \notin closes
    BY <2>2, <2>3
  <2>6. Len(body) < Len(trace) => \A i \in closes : i + 1 \notin closes
    BY <2>1, <2>2, <2>3
  <2>7. OneLife
    BY <2>4, <2>5, <2>6 DEF OneLife
  <2>8. StateMatchesTrace
    <3> DEFINE n == Len(trace)
               last == trace[n]
    <3> HIDE DEF n, last
    <3>1. CASE trace = b /\ state = EndsIn(b, k)
      <4>1. n = Len(b) /\ n \in Nat
        BY <3>1, <2>3 DEF n
      <4>2. /\ n >= 1 => last = IF n > k THEN "CLOSE" ELSE IF n = 1 THEN "CONNECT"
                                ELSE IF n = 2 THEN "OPEN" ELSE "SEND"
            /\ n >= 2 => (trace[n - 1] = "CLOSE" <=> n - 1 > k)
        BY <3>1, <4>1, <2>1, <2>3 DEF Life, last
      <4>3. state \in States /\ (state = "IDLE" <=> n = 0)
        BY <3>1, <4>1, <2>3 DEF EndsIn, States
      <4>4. state = "CONNECTED" <=> n >= 2 /\ last \in {"OPEN", "SEND"}
        BY <3>1, <4>1, <4>2, <2>3 DEF EndsIn
      <4>5. state = "CLOSED" <=> n >= 1 /\ \/ last = "ERROR"
                                           \/ n >= 2 /\ last = "CLOSE" /\ trace[n - 1] = "CLOSE"
        BY <3>1, <4>1, <4>2, <2>3 DEF EndsIn
      <4> QED
        BY <4>3, <4>4, <4>5 DEF StateMatchesTrace, n, last
    <3>2. CASE trace = Append(b, "ERROR") /\ state = "CLOSED"
      <4>1. n = Len(b) + 1 /\ last = "ERROR"
        BY <3>2, <2>2 DEF n, last
      <4>2. state \in States /\ (state = "IDLE" <=> n = 0)
        BY <3>2, <4>1, <2>3 DEF States
      <4>3. state = "CONNECTED" <=> n >= 2 /\ last \in {"OPEN", "SEND"}
        BY <3>2, <4>1
      <4>4. state = "CLOSED" <=> n >= 1 /\ \/ last = "ERROR"
                                           \/ n >= 2 /\ last = "CLOSE" /\ trace[n - 1] = "CLOSE"
        BY <3>2, <4>1, <2>3
      <4> QED
        BY <4>2, <4>3, <4>4 DEF StateMatchesTrace, n, last
    <3> QED
      BY <2>1, <3>1, <3>2
  <2> QED
    BY <2>7, <2>8 DEF Lifecycle
<1> QED
  BY <1>1, ConnInit, ConnStep, PTL DEF Spec

-----------------------------------------------------------------------------
(***************************************************************************)
(* The inductive invariant: what process_file holds at each of its points  *)
(* and whether it has failed, and which frame a longjmp would return to.   *)
(***************************************************************************)
HeldAt ==
    /\ err_pc \in {"parse_int", "process_file", "malloc", "fgets", "cleanup", "returned",
                   "setjmp", "setjmp_neg", "risky", "parse_percent", "done"}
    /\ err_path \in {"tmp", "missing"}
    /\ err_pc = "parse_int" => err_path = "tmp"
    /\ err_pc \in {"parse_int", "process_file"} => ~err_file /\ ~err_buf /\ err_why = "0"
    /\ err_pc = "malloc" => err_file /\ ~err_buf /\ err_why = "0" /\ err_rc = -1
    /\ err_pc = "fgets" => err_file /\ err_buf /\ err_why = "0" /\ err_rc = -1
    /\ err_pc = "cleanup" => err_rc \in {-1, 0} /\ (err_rc = 0 <=> err_why = "0")

FrameAlive ==
    /\ ~err_wild
    /\ err_pc = "risky" => \/ err_frame = "setjmp" /\ err_call \in 1 .. 3
                           \/ err_frame = "setjmp_neg" /\ err_call \in 1 .. 2
    /\ err_pc = "risky" => err_g_err_ctx = err_frame

ErrInv == HeldAt /\ FrameAlive /\ Err!ErrorPathsClean

\* Reducing a number that an int can hold leaves it as it is.
LEMMA IntHolds ==
    ASSUME NEW v \in Err!INT_MIN .. INT_MAX
    PROVE  Err!int(v) = v
  <1> DEFINE M == INT_MAX + 1
  <1>1. M \in Nat /\ v \in Int /\ -M <= v /\ v < M
    BY ErrorWidths DEF Err!ErrorAssumption, Err!INT_MIN
  <1>2. Err!INT_MIN = -M /\ INT_MAX - Err!INT_MIN + 1 = 2 * M BY <1>1, ErrorWidths
                                                                 DEF Err!INT_MIN,
                                                                     Err!ErrorAssumption
  <1> HIDE DEF M
  <1>3. Err!int(v) = ((v + M) % (2 * M)) - M BY <1>1, <1>2 DEF Err!int
  <1>4. (v + M) % (2 * M) = v + M BY <1>1
  <1> QED BY <1>1, <1>3, <1>4

\* strtol reports ERANGE exactly outside the range of long, and the number inside.
LEMMA StrtolExact ==
    ASSUME NEW s \in Err!Strings \ {NULL}, s.num # None
    PROVE  /\ s.num \in Int
           /\ ~Err!strtol_failed(s) <=> s.num \in Err!LONG_MIN .. LONG_MAX
           /\ ~Err!strtol_failed(s) => Err!strtol(s).val = s.num
  <1>1. s.num \in Int BY ErrorWidths DEF Err!Strings, Err!ErrorAssumption
  <1>2. Err!LONG_MIN \in Int /\ LONG_MAX \in Int BY ErrorWidths
                                                    DEF Err!ErrorAssumption,
                                                        Err!LONG_MIN
  <1> QED BY <1>1, <1>2 DEF Err!strtol_failed, Err!strtol

\* It holds when main starts.
LEMMA ErrInit == Err!Init => ErrInv
  BY DEF Err!Init, ErrInv, HeldAt, FrameAlive, Err!ErrorPathsClean,
     Err!CleanupComplete, Err!ContextAlive,
         Err!CaughtMatches, Err!ParseIntSound, Err!ParsePercentExact

\* parse_int, on every string.
LEMMA ParseIntStep == ASSUME ErrInv, Err!parse_int PROVE ErrInv'
  <1>1. /\ err_pc = "parse_int" /\ err_pc' = "process_file" /\ err_path = "tmp"
        /\ UNCHANGED <<err_file, err_buf, err_path, err_why, err_g_err_ctx,
                       err_frame, err_call, err_caught, err_wild>>
    BY DEF Err!parse_int, ErrInv, HeldAt, Err!cleanup, Err!jumping
  <1>2. HeldAt' /\ FrameAlive' BY <1>1 DEF ErrInv, HeldAt, FrameAlive
  <1>3. Err!ParseIntSound'
    <2>1. PICK s \in Err!Strings :
             /\ err_str' = s
             /\ \/ /\ s = NULL \/ Err!Empty(s)
                   /\ err_rc' = -1 /\ err_errno' = "EINVAL" /\ err_out' = Err!Untouched
                \/ /\ s # NULL /\ ~Err!Empty(s)
                   /\ \/ /\ Err!strtol_failed(s)
                         /\ err_rc' = -1 /\ err_errno' = "ERANGE" /\ err_out' = Err!Untouched
                      \/ /\ ~Err!strtol_failed(s) /\ (s.num = None \/ s.rest # "")
                         /\ err_rc' = -1 /\ err_errno' = "EINVAL" /\ err_out' = Err!Untouched
                      \/ /\ ~Err!strtol_failed(s) /\ s.num # None /\ s.rest = ""
                         /\ err_rc' = 0 /\ err_errno' = "0" /\ err_out' = Err!int(Err!strtol(s).val)
      BY DEF Err!parse_int
    <2>2. s # NULL /\ s.num # None =>
             /\ s.num \in Int /\ (~Err!strtol_failed(s) <=> s.num \in Err!LONG_MIN .. LONG_MAX)
             /\ ~Err!strtol_failed(s) => Err!strtol(s).val = s.num
      BY StrtolExact
    <2> DEFINE isNumber == s # NULL /\ s.num # None /\ s.rest = ""
                           /\ s.num \in Err!LONG_MIN .. LONG_MAX
    <2>3. CASE isNumber
      <3>1. /\ s # NULL /\ ~Err!Empty(s) /\ ~Err!strtol_failed(s) /\ s.num # None
            /\ s.rest = ""
        BY <2>2, <2>3 DEF Err!Empty
      <3>2. err_str' = s /\ err_rc' = 0 /\ err_rc' # -1 /\ err_out' = Err!int(s.num)
        <4>1. err_str' = s /\ err_rc' = 0 /\ err_out' = Err!int(Err!strtol(s).val)
          BY <2>1, <3>1
        <4>2. Err!strtol(s).val = s.num
          BY <2>2, <3>1
        <4> QED BY <4>1, <4>2
      <3>3. s.num \in Err!INT_MIN .. INT_MAX => err_out' = s.num
        BY <3>2, IntHolds
      <3> QED BY <2>3, <3>2, <3>3 DEF Err!ParseIntSound, Err!INT_MIN, Err!LONG_MIN
    <2>4. CASE ~isNumber
      <3>1. ~(~Err!strtol_failed(s) /\ s # NULL /\ s.num # None /\ s.rest = "")
        BY <2>2, <2>4
      <3>2. /\ err_rc' = -1 /\ err_errno' \in {"EINVAL", "ERANGE"}
            /\ err_out' = Err!Untouched /\ err_str' = s
        BY <2>1, <3>1
      <3>3. ~(s # NULL /\ s.num # None /\ s.rest = "" /\ s.num \in 0 .. INT_MAX)
        <4>1. \A v \in 0 .. INT_MAX : v \in Err!LONG_MIN .. LONG_MAX
          BY ErrorWidths DEF Err!ErrorAssumption, Err!LONG_MIN
        <4> QED BY <2>4, <4>1
      <3>4. /\ err_rc' # 0 /\ err_errno' # "0" /\ err_out' = Err!Untouched
            /\ err_str' = s
        BY <3>2
      <3> QED BY <3>3, <3>4 DEF Err!ParseIntSound, Err!Untouched
    <2> QED BY <2>3, <2>4
  <1> QED
    BY <1>1, <1>2, <1>3 DEF ErrInv, FrameAlive, Err!ErrorPathsClean,
                            Err!CleanupComplete, Err!ContextAlive,
       Err!CaughtMatches, Err!ParsePercentExact

\* parse_percent, on every string.
LEMMA ParsePercentStep == ASSUME ErrInv, Err!parse_percent PROVE ErrInv'
  <1>1. /\ err_pc = "parse_percent" /\ err_pc' = "done"
        /\ UNCHANGED <<err_file, err_buf, err_path, err_why, err_g_err_ctx,
                       err_frame, err_call, err_caught, err_wild>>
    BY DEF Err!parse_percent, Err!cleanup, Err!jumping
  <1>2. HeldAt' /\ FrameAlive' BY <1>1 DEF ErrInv, HeldAt, FrameAlive
  <1>3. Err!ParsePercentExact'
    <2>1. PICK s \in Err!Strings :
             /\ err_str' = s
             /\ IF s = NULL
                THEN err_rc' = "ERR_NULL_ARG"
                ELSE \/ /\ Err!strtol_failed(s) \/ s.num = None \/ s.rest # "%"
                        /\ err_rc' = "ERR_PARSE"
                     \/ /\ ~(Err!strtol_failed(s) \/ s.num = None \/ s.rest # "%")
                        /\ IF Err!out_of_range(Err!strtol(s).val)
                           THEN err_rc' = "ERR_RANGE"
                           ELSE err_rc' = "OK" /\ err_out' = Err!int(Err!strtol(s).val)
      BY DEF Err!parse_percent
    <2> DEFINE wellformed == s # NULL /\ s.num # None /\ s.rest = "%"
                             /\ s.num \in Err!LONG_MIN .. LONG_MAX
    <2>2. s # NULL /\ s.num # None =>
             /\ s.num \in Int /\ (~Err!strtol_failed(s) <=> s.num \in Err!LONG_MIN .. LONG_MAX)
             /\ ~Err!strtol_failed(s) => Err!strtol(s).val = s.num
      BY StrtolExact
    <2>3. CASE ~wellformed
      <3>1. err_rc' \in {"ERR_NULL_ARG", "ERR_PARSE"} BY <2>1, <2>2, <2>3
      <3> QED BY <2>1, <2>3, <3>1 DEF Err!ParsePercentExact
    <2>4. CASE wellformed /\ s.num \in 0 .. 100
      <3>1. /\ ~Err!out_of_range(Err!strtol(s).val)
            /\ Err!int(Err!strtol(s).val) = s.num
        <4>1. s.num \in Err!INT_MIN .. INT_MAX
          BY <2>2, <2>4, ErrorWidths DEF Err!INT_MIN, Err!ErrorAssumption
        <4> QED BY <2>2, <2>4, <4>1, IntHolds DEF Err!out_of_range
      <3>2. err_rc' = "OK" /\ err_out' = s.num BY <2>1, <2>2, <2>4, <3>1
      <3> QED BY <2>1, <2>4, <3>2 DEF Err!ParsePercentExact
    <2>5. CASE wellformed /\ s.num \notin 0 .. 100
      <3>1. Err!out_of_range(Err!strtol(s).val) BY <2>2, <2>5 DEF Err!out_of_range
      <3>2. err_rc' = "ERR_RANGE" BY <2>1, <2>2, <2>5, <3>1
      <3> QED BY <2>1, <2>5, <3>2 DEF Err!ParsePercentExact
    <2> QED BY <2>3, <2>4, <2>5
  <1> QED
    BY <1>1, <1>2, <1>3 DEF ErrInv, FrameAlive, Err!ErrorPathsClean,
                            Err!CleanupComplete, Err!ContextAlive,
       Err!CaughtMatches, Err!ParseIntSound

\* fopen, malloc and fgets, and the cleanup they all reach.
LEMMA ProcessFileStep ==
    ASSUME ErrInv, Err!process_file \/ Err!cleanup_block \/ Err!section_goto_cleanup PROVE ErrInv'
  <1>1. UNCHANGED <<err_g_err_ctx, err_frame, err_call, err_caught, err_wild,
                    err_str, err_out>>
    BY DEF Err!process_file, Err!cleanup_block, Err!section_goto_cleanup,
       Err!jumping, Err!parsing
  <1>2. /\ HeldAt' /\ Err!CleanupComplete'
        /\ err_pc' \notin {"setjmp_neg", "parse_percent", "risky", "done"}
        /\ ~(err_pc' = "process_file" /\ err_path' = "tmp")
    <2>1. CASE Err!process_file
      BY <2>1 DEF Err!process_file, Err!fail, ErrInv, HeldAt, Err!CleanupComplete
    <2>2. CASE Err!cleanup_block
      BY <2>2 DEF Err!cleanup_block, Err!release_file, ErrInv, HeldAt,
                  Err!CleanupComplete
    <2>3. CASE Err!section_goto_cleanup
      BY <2>3 DEF Err!section_goto_cleanup, Err!parsing, ErrInv, HeldAt,
                  Err!ErrorPathsClean, Err!CleanupComplete
    <2> QED BY <2>1, <2>2, <2>3
  <1> QED
    BY <1>1, <1>2 DEF ErrInv, FrameAlive, Err!ErrorPathsClean, Err!ContextAlive,
                      Err!CaughtMatches,
       Err!ParseIntSound, Err!ParsePercentExact

\* setjmp and the risky calls: the last one of each section jumps, to its own frame.
LEMMA JumpStep ==
    ASSUME ErrInv, Err!setjmp("setjmp") \/ Err!setjmp("setjmp_neg") \/ Err!risky_call PROVE ErrInv'
  <1>1. UNCHANGED <<err_file, err_buf, err_path, err_why>>
    BY DEF Err!setjmp, Err!risky_call, Err!cleanup
  <1>2. /\ err_pc' \in {"risky", "setjmp_neg", "parse_percent"}
        /\ FrameAlive' /\ Err!ContextAlive' /\ Err!CaughtMatches'
    <2>1. CASE Err!setjmp("setjmp") \/ Err!setjmp("setjmp_neg")
      BY <2>1 DEF Err!setjmp, Err!save_context, ErrInv, FrameAlive,
                  Err!ErrorPathsClean, Err!ContextAlive, Err!CaughtMatches
    <2>2. CASE Err!risky_call
      <3>1. /\ err_pc = "risky" /\ err_g_err_ctx = err_frame /\ ~err_wild
            /\ err_g_err_ctx' = err_g_err_ctx
        BY <2>2 DEF Err!risky_call, ErrInv, FrameAlive
      <3>2. CASE err_frame = "setjmp" /\ err_call \in 1 .. 2
        <4>1. /\ Err!risky(Err!RiskyCalls[err_frame][err_call]) = 0
              /\ Len(Err!RiskyCalls[err_frame]) = 3
          BY <3>2 DEF Err!risky, Err!RiskyCalls
        <4>2. /\ err_call' = err_call + 1
              /\ UNCHANGED <<err_pc, err_frame, err_caught, err_wild>>
          BY <2>2, <3>2, <4>1 DEF Err!risky_call
        <4> QED BY <3>1, <3>2, <4>2 DEF FrameAlive, Err!ContextAlive,
                                        Err!CaughtMatches
      <3>3. CASE err_frame = "setjmp" /\ err_call = 3
        <4>1. /\ Err!risky(Err!RiskyCalls[err_frame][err_call]) = Err!ERR_DIV_ZERO
              /\ Err!ERR_DIV_ZERO # 0
          BY <3>3 DEF Err!risky, Err!RiskyCalls, Err!ERR_DIV_ZERO
        <4>2. ~err_wild' /\ err_caught' = Err!ERR_DIV_ZERO /\ err_pc' = "setjmp_neg"
          BY <2>2, <3>1, <3>3, <4>1 DEF Err!risky_call, Err!AfterFrame
        <4> QED BY <4>2 DEF FrameAlive, Err!ContextAlive, Err!CaughtMatches
      <3>4. CASE err_frame = "setjmp_neg" /\ err_call = 1
        <4>1. /\ Err!risky(Err!RiskyCalls[err_frame][err_call]) = 0
              /\ Len(Err!RiskyCalls[err_frame]) = 2
          BY <3>4 DEF Err!risky, Err!RiskyCalls
        <4>2. /\ err_call' = err_call + 1
              /\ UNCHANGED <<err_pc, err_frame, err_caught, err_wild>>
          BY <2>2, <3>4, <4>1 DEF Err!risky_call
        <4> QED BY <3>1, <3>4, <4>2 DEF FrameAlive, Err!ContextAlive,
                                        Err!CaughtMatches
      <3>5. CASE err_frame = "setjmp_neg" /\ err_call = 2
        <4>1. /\ Err!risky(Err!RiskyCalls[err_frame][err_call]) = Err!ERR_NEG_SQRT
              /\ Err!ERR_NEG_SQRT # 0
          BY <3>5 DEF Err!risky, Err!RiskyCalls, Err!ERR_NEG_SQRT
        <4>2. /\ ~err_wild' /\ err_caught' = Err!ERR_NEG_SQRT
              /\ err_pc' = "parse_percent"
          BY <2>2, <3>1, <3>5, <4>1 DEF Err!risky_call, Err!AfterFrame
        <4> QED BY <4>2 DEF FrameAlive, Err!ContextAlive, Err!CaughtMatches
      <3> QED BY <3>1, <3>2, <3>3, <3>4, <3>5 DEF ErrInv, FrameAlive
    <2> QED BY <2>1, <2>2
  <1> QED
    BY <1>1, <1>2 DEF ErrInv, HeldAt, Err!ErrorPathsClean, Err!CleanupComplete,
                      Err!ParseIntSound,
       Err!ParsePercentExact

(***************************************************************************)
(* For every string, every width and every failing call of exercise 20:    *)
(* process_file gives back what it holds and reports exactly its failures, *)
(* longjmp finds the frame that called setjmp alive and tells it which     *)
(* call failed, parse_percent accepts exactly the percentages from 0 to    *)
(* 100, and parse_int accepts only numerals inside the range of long, and  *)
(* delivers as written those that an int holds.                            *)
(***************************************************************************)
THEOREM ErrorsHandled == Err!Spec => []ErrorPathsClean
  <1>1. ErrInv /\ [Err!Next]_Err!vars => ErrInv'
    <2> SUFFICES ASSUME ErrInv, [Err!Next]_Err!vars PROVE ErrInv'
      OBVIOUS
    <2>1. CASE UNCHANGED Err!vars
      <3>1. /\ HeldAt' /\ FrameAlive' /\ Err!CleanupComplete' /\ Err!ContextAlive'
            /\ Err!CaughtMatches'
        BY <2>1 DEF Err!vars, Err!parsing, Err!cleanup, Err!jumping, ErrInv,
                    HeldAt, FrameAlive, Err!ErrorPathsClean,
           Err!CleanupComplete, Err!ContextAlive, Err!CaughtMatches
      <3>2. Err!ParseIntSound'
        BY <2>1 DEF Err!vars, Err!parsing, Err!cleanup, ErrInv,
                    Err!ErrorPathsClean, Err!ParseIntSound
      <3>3. Err!ParsePercentExact'
        BY <2>1 DEF Err!vars, Err!parsing, ErrInv, Err!ErrorPathsClean,
                    Err!ParsePercentExact
      <3> QED BY <3>1, <3>2, <3>3 DEF ErrInv, Err!ErrorPathsClean
    <2>2. CASE Err!Next
      BY <2>1, <2>2, ParseIntStep, ParsePercentStep, ProcessFileStep, JumpStep
         DEF Err!Next
    <2> QED BY <2>1, <2>2
  <1>2. ErrInv => ErrorPathsClean
    BY DEF ErrInv, ErrorPathsClean
  <1> QED BY <1>1, <1>2, ErrInit, PTL DEF Err!Spec

-----------------------------------------------------------------------------
(***************************************************************************)
(* Exercise 17, the sorts.  The invariant of each sort is what its loops   *)
(* have achieved; merge sort's and quicksort's also say what the calls     *)
(* still on the stack will do.                                             *)
(***************************************************************************)
\* The five sorts.
Five == {"bubble", "insertion", "selection", "merge", "quick"}

\* The indices, and the elements.
Dom == 0 .. sort_n - 1
Elements == [key : Int, pos : Int]

\* a before b in a stable order.
Before(a, b) == a.key < b.key \/ (a.key = b.key /\ a.pos < b.pos)

\* Ordered by key between lo and hi, equal keys as in the input.
Ordered(a, lo, hi) == \A x, y \in lo .. hi : x < y => Before(a[x], a[y])

\* Equal keys stand in the order of the input.
KeepsTies(a) == \A x, y \in Dom : x < y /\ a[x].key = a[y].key => a[x].pos < a[y].pos

\* The same elements as the input.
Permuted(a) == {a[x] : x \in Dom} = {sort_arr0[x] : x \in Dom}

\* A call of the stack.
Calls == {"sort", "merge"} \X Int \X Int \X Int

SortTypes ==
    /\ sort_n \in Nat
    /\ sort_arr0 \in [Dom -> Elements] /\ \A x \in Dom : sort_arr0[x].pos = x
    /\ sort_arr \in [Dom -> Elements] /\ sort_tmp \in [Dom -> Elements]
    /\ sort_i \in Int /\ sort_j \in Int /\ sort_k \in Int
    /\ sort_flag \in BOOLEAN /\ sort_held \in Elements
    /\ sort_alg \in Five /\ sort_calls \in Seq(Calls)

-----------------------------------------------------------------------------
\* Bubble sort: the last i are in place; in a pass arr[j] is the largest so far.
BubbleInv ==
    /\ sort_pc \in {"outer", "inner", "done"} /\ sort_i >= 0
    /\ Permuted(sort_arr) /\ KeepsTies(sort_arr)
    /\ \A x, y \in Dom : x < y /\ y >= sort_n - sort_i =>
         sort_arr[x].key <= sort_arr[y].key
    /\ sort_pc = "inner" =>
         /\ sort_i < sort_n - 1 /\ sort_j \in 0 .. sort_n - 1 - sort_i
         /\ \A x \in 0 .. sort_j : sort_arr[x].key <= sort_arr[sort_j].key
         /\ ~sort_flag =>
              \A x \in 0 .. sort_j - 1 : sort_arr[x].key <= sort_arr[x + 1].key
    /\ sort_pc = "done" =>
         \A x \in 0 .. sort_n - 2 : sort_arr[x].key <= sort_arr[x + 1].key

\* Insertion sort: the first i are ordered; in a pass, with held in the hole at j + 1.
Filled(x) == IF x = sort_j + 1 THEN sort_held ELSE sort_arr[x]
InsertionInv ==
    /\ sort_pc \in {"outer", "inner", "done"} /\ sort_i >= 1
    /\ sort_pc # "inner" =>
         /\ Permuted(sort_arr)
         /\ \A x, y \in Dom : x < y /\ y < sort_i => Before(sort_arr[x], sort_arr[y])
         /\ \A x \in Dom : IF x < sort_i THEN sort_arr[x].pos < sort_i
              ELSE sort_arr[x] = sort_arr0[x]
    /\ sort_pc = "inner" =>
         /\ sort_i < sort_n /\ sort_j \in -1 .. sort_i - 1 /\ sort_held.pos = sort_i
         /\ {Filled(x) : x \in Dom} = {sort_arr0[x] : x \in Dom}
         /\ \A x, y \in Dom \ {sort_j + 1} : x < y /\ y <= sort_i =>
              Before(sort_arr[x], sort_arr[y])
         /\ \A x \in Dom : x > sort_j + 1 /\ x <= sort_i => Before(sort_held, sort_arr[x])
         /\ \A x \in Dom : IF x <= sort_i THEN x = sort_j + 1 \/ sort_arr[x].pos < sort_i
              ELSE sort_arr[x] = sort_arr0[x]
    /\ sort_pc = "done" => sort_i >= sort_n

\* Selection sort: the first i are in place; in a pass k is the smallest so far.
SelectionInv ==
    /\ sort_pc \in {"outer", "inner", "done"} /\ sort_i >= 0
    /\ Permuted(sort_arr)
    /\ \A x, y \in Dom : x < y /\ x < sort_i => sort_arr[x].key <= sort_arr[y].key
    /\ sort_pc = "inner" =>
         /\ sort_i < sort_n - 1 /\ sort_j \in sort_i + 1 .. sort_n
         /\ sort_k \in sort_i .. sort_n - 1
         /\ \A x \in sort_i .. sort_j - 1 : sort_arr[sort_k].key <= sort_arr[x].key
    /\ sort_pc = "done" => sort_i >= sort_n - 1

-----------------------------------------------------------------------------
\* What call number q of the stack puts in order.
Lo(c) == IF c[1] = "merge" THEN c[2] ELSE c[3]
Hi(c) == c[4]
Span(c) == Lo(c) .. Hi(c)

IsCall(c) ==
    /\ c \in Calls
    /\ Lo(c) >= 0 /\ Hi(c) < sort_n
    /\ c[1] = "merge" => c[2] <= c[3] /\ c[3] < c[4]


\* lo .. hi is in order when the first p - 1 calls of s have returned: the last of them
\* that touches it orders just this, or none does and it is in order.
WillBe(s, p, lo, hi, a) ==
    \E q \in 0 .. p - 1 :
      /\ q = 0 => Ordered(a, lo, hi)
      /\ q > 0 => Lo(s[q]) = lo /\ Hi(s[q]) = hi
      /\ \A r \in q + 1 .. p - 1 : Span(s[r]) \cap lo .. hi = {}

\* Both halves are in order when a merge starts, and the array is in the end.
Planned(s, a, m) ==
    /\ \A p \in 1 .. Len(s) : s[p][1] = "merge" =>
         WillBe(s, p, s[p][2], s[p][3], a) /\ WillBe(s, p, s[p][3] + 1, s[p][4], a)
    /\ WillBe(s, Len(s) + 1, 0, m - 1, a)

\* The indices of tmp that a merge has copied back, and the others.
Taken(lo, mid) == lo .. sort_i - 1 \cup mid + 1 .. sort_j - 1
Rest(mid, hi) == sort_i .. mid \cup sort_j .. hi

\* What merge has written so far: what it took, in order, and before all the rest.
Merged(lo, mid, hi) ==
    /\ sort_i \in lo .. mid + 1 /\ sort_j \in mid + 1 .. hi + 1
    /\ sort_k = sort_i + (sort_j - mid - 1)
    /\ Ordered(sort_arr, lo, sort_k - 1)
    /\ \A x \in lo .. sort_k - 1 : \E y \in Taken(lo, mid) : sort_arr[x] = sort_tmp[y]
    /\ \A y \in Taken(lo, mid) : \E x \in lo .. sort_k - 1 : sort_arr[x] = sort_tmp[y]
    /\ \A x \in lo .. sort_k - 1, y \in Rest(mid, hi) : Before(sort_arr[x], sort_tmp[y])

\* The array as it was when the merge began.
Whole == [x \in Dom |-> IF x \in Span(Sort!Call) THEN sort_tmp[x] ELSE sort_arr[x]]

MergeInv ==
    /\ sort_pc \in {"call", "merge", "done"}
    /\ \A p \in 1 .. Len(sort_calls) : IsCall(sort_calls[p])
    /\ sort_pc # "merge" =>
         Permuted(sort_arr) /\ KeepsTies(sort_arr) /\ Planned(sort_calls, sort_arr, sort_n)
    /\ sort_pc = "merge" =>
         /\ sort_calls # <<>> /\ Sort!Call[1] = "merge"
         /\ Permuted(Whole) /\ KeepsTies(Whole) /\ Planned(sort_calls, Whole, sort_n)
         /\ Merged(Sort!Call[2], Sort!Call[3], Sort!Call[4])
    /\ sort_pc = "done" => sort_calls = <<>>

-----------------------------------------------------------------------------
\* Whatever is out of order is inside one of the parts still to be sorted.
Parted(s, a) ==
    \A x, y \in Dom : x < y =>
      \/ a[x].key <= a[y].key
      \/ \E q \in 1 .. Len(s) : x \in Span(s[q]) /\ y \in Span(s[q])

Apart(s) == \A q, r \in 1 .. Len(s) : q # r => Span(s[q]) \cap Span(s[r]) = {}

QuickInv ==
    /\ sort_pc \in {"call", "up", "down", "meet", "done"}
    /\ \A p \in 1 .. Len(sort_calls) : IsCall(sort_calls[p]) /\ sort_calls[p][1] = "sort"
    /\ Permuted(sort_arr) /\ Parted(sort_calls, sort_arr) /\ Apart(sort_calls)
    /\ sort_pc \in {"up", "down", "meet"} =>
         /\ sort_calls # <<>> /\ sort_i \in Sort!Call[3] + 1 .. Sort!Call[4] - 1
         /\ sort_arr[Sort!Call[4] - 1].key = sort_held.key
         /\ \A x \in Sort!Call[3] .. sort_i - 1 : sort_arr[x].key <= sort_held.key
         /\ sort_arr[Sort!Call[4]].key >= sort_held.key
    /\ sort_pc = "up" =>
         /\ sort_j \in sort_i .. Sort!Call[4] - 1
         /\ \A x \in sort_j .. Sort!Call[4] : sort_arr[x].key >= sort_held.key
    /\ sort_pc \in {"down", "meet"} =>
         /\ sort_j \in Sort!Call[3] .. Sort!Call[4] - 2 /\ sort_i <= sort_j + 1
         /\ sort_arr[sort_i].key >= sort_held.key
         /\ \A x \in sort_j + 1 .. Sort!Call[4] : sort_arr[x].key >= sort_held.key
    /\ sort_pc = "meet" => sort_arr[sort_j].key <= sort_held.key
    /\ sort_pc = "done" => sort_calls = <<>>

SortInv ==
    /\ SortTypes
    /\ sort_alg = "bubble" => BubbleInv
    /\ sort_alg = "insertion" => InsertionInv
    /\ sort_alg = "selection" => SelectionInv
    /\ sort_alg = "merge" => MergeInv
    /\ sort_alg = "quick" => QuickInv

-----------------------------------------------------------------------------
\* Exchanging two elements loses none.
LEMMA SwapPermutes ==
    ASSUME SortTypes, NEW a \in [Dom -> Elements], Permuted(a), NEW x \in Dom,
           NEW y \in Dom
    PROVE  /\ Sort!swap(a, x, y) \in [Dom -> Elements] /\ Permuted(Sort!swap(a, x, y))
           /\ Sort!swap(a, x, y)[x] = a[y] /\ Sort!swap(a, x, y)[y] = a[x]
           /\ \A z \in Dom : z # x /\ z # y => Sort!swap(a, x, y)[z] = a[z]
<1> DEFINE b == Sort!swap(a, x, y)
<1>1. /\ b \in [Dom -> Elements] /\ b[x] = a[y] /\ b[y] = a[x]
      /\ \A z \in Dom : z # x /\ z # y => b[z] = a[z]
  BY DEF Sort!swap
<1>2. \A z \in Dom : \E u \in Dom : b[z] = a[u]
  BY <1>1
<1>3. \A z \in Dom : \E u \in Dom : a[z] = b[u]
  BY <1>1
<1>4. {b[z] : z \in Dom} = {a[z] : z \in Dom}
  BY <1>2, <1>3
<1> QED
  BY <1>1, <1>4 DEF Permuted

\* Keys and positions are numbers.
LEMMA Ints ==
    ASSUME SortTypes
    PROVE  /\ sort_n \in Nat /\ sort_n \in Int /\ sort_i \in Int /\ sort_j \in Int
           /\ sort_k \in Int
           /\ sort_held.key \in Int /\ sort_held.pos \in Int
           /\ \A x \in Dom : x \in Int /\ 0 <= x /\ x < sort_n
           /\ \A x \in Dom : sort_arr[x].key \in Int /\ sort_arr[x].pos \in Int
           /\ \A x \in Dom : sort_tmp[x].key \in Int /\ sort_tmp[x].pos \in Int
  BY SMTT(30) DEF SortTypes, Elements, Dom

\* The types of the state are kept by a sort that stays inside the array.
LEMMA TypesKept ==
    ASSUME SortTypes, UNCHANGED <<sort_alg, sort_n, sort_arr0>>,
           sort_arr' \in [Dom -> Elements], sort_tmp' \in [Dom -> Elements],
           sort_i' \in Int, sort_j' \in Int, sort_k' \in Int, sort_flag' \in BOOLEAN,
           sort_held' \in Elements, sort_calls' \in Seq(Calls)
    PROVE  SortTypes'
  BY DEF SortTypes, Dom

\* A step that leaves the array alone keeps its order and its elements.
LEMMA ArrayKept ==
    ASSUME Permuted(sort_arr), KeepsTies(sort_arr),
           sort_arr' = sort_arr, sort_arr0' = sort_arr0, Dom' = Dom
    PROVE  Permuted(sort_arr)' /\ KeepsTies(sort_arr)'
<1>1. Permuted(sort_arr)'
  BY DEF Permuted
<1> QED
  BY <1>1 DEF KeepsTies

-----------------------------------------------------------------------------
\* Bubble sort keeps its invariant.
LEMMA BubbleStep ==
    ASSUME SortTypes, sort_alg = "bubble", BubbleInv, Sort!bubble_sort,
           UNCHANGED <<sort_alg, sort_n, sort_arr0>>
    PROVE  SortTypes' /\ BubbleInv'
<1> USE Ints
<1>1. CASE sort_pc = "outer"
  <2>1. /\ UNCHANGED <<sort_arr, sort_i, sort_k, sort_held, sort_tmp, sort_calls>>
        /\ IF sort_i < sort_n - 1
             THEN sort_pc' = "inner" /\ sort_j' = 0 /\ sort_flag' = FALSE
                       ELSE sort_pc' = "done" /\ UNCHANGED <<sort_j, sort_flag>>
    BY <1>1 DEF Sort!bubble_sort
  <2>6. sort_j' \in Int /\ sort_flag' \in BOOLEAN
    <3>1. CASE sort_i < sort_n - 1
      <4>1. sort_flag' \in BOOLEAN
        BY <2>1, <3>1, Zenon
      <4> QED
        BY <2>1, <3>1, <4>1
    <3>2. CASE ~(sort_i < sort_n - 1)
      BY <2>1, <3>2 DEF SortTypes
    <3> QED
      BY <3>1, <3>2
  <2>2. SortTypes'
    BY <2>1, <2>6, TypesKept DEF SortTypes
  <2>3. Permuted(sort_arr)' /\ KeepsTies(sort_arr)' /\ Dom' = Dom
    BY <2>1 DEF BubbleInv, Permuted, KeepsTies, Dom
  <2>4. CASE sort_i < sort_n - 1
    BY <1>1, <2>1, <2>2, <2>3, <2>4 DEF BubbleInv, Dom
  <2>5. CASE ~(sort_i < sort_n - 1)
    <3>1. \A x \in 0 .. sort_n - 2 : sort_arr[x].key <= sort_arr[x + 1].key
      BY <2>5 DEF BubbleInv, Dom
    <3> QED
      BY <1>1, <2>1, <2>2, <2>3, <2>5, <3>1 DEF BubbleInv
  <2> QED
    BY <2>4, <2>5
<1>2. CASE sort_pc = "inner" /\ sort_j < sort_n - 1 - sort_i
  <2>1. /\ sort_j \in Dom /\ sort_j + 1 \in Dom /\ sort_j >= 0 /\ sort_i >= 0
        /\ sort_j + 1 < sort_n - sort_i
    BY <1>2 DEF BubbleInv, Dom
  <2>2. /\ sort_j' = sort_j + 1 /\ UNCHANGED <<sort_pc, sort_i, sort_k, sort_held,
                                               sort_tmp, sort_calls>>
        /\ IF Sort!bubble_out_of_order(sort_j)
             THEN sort_arr' = Sort!swap(sort_arr, sort_j, sort_j + 1) /\ sort_flag' = TRUE
                                     ELSE UNCHANGED <<sort_arr, sort_flag>>
    BY <1>2 DEF Sort!bubble_sort
  <2>3. Dom' = Dom
    BY DEF Dom
  <2>4. CASE Sort!bubble_out_of_order(sort_j)
    <3>1. sort_arr \in [Dom -> Elements] /\ Permuted(sort_arr)
      BY DEF SortTypes, BubbleInv
    <3>2. /\ sort_arr' \in [Dom -> Elements] /\ Permuted(sort_arr')
          /\ sort_arr'[sort_j] = sort_arr[sort_j + 1]
          /\ sort_arr'[sort_j + 1] = sort_arr[sort_j]
          /\ \A z \in Dom : z # sort_j /\ z # sort_j + 1 => sort_arr'[z] = sort_arr[z]
      BY <2>1, <2>2, <2>4, <3>1, SwapPermutes
    <3>3. SortTypes'
      BY <2>1, <2>2, <2>4, <3>2, TypesKept DEF SortTypes
    <3>4. sort_arr[sort_j].key > sort_arr[sort_j + 1].key
      BY <2>4 DEF Sort!bubble_out_of_order, Sort!gt
    <3>5. KeepsTies(sort_arr)'
      <4> SUFFICES ASSUME NEW x \in Dom, NEW y \in Dom, x < y,
                          sort_arr'[x].key = sort_arr'[y].key
                   PROVE  sort_arr'[x].pos < sort_arr'[y].pos
        BY <2>3 DEF KeepsTies
      <4>1. \A u, v \in Dom : u < v /\ sort_arr[u].key = sort_arr[v].key =>
              sort_arr[u].pos < sort_arr[v].pos
        BY DEF BubbleInv, KeepsTies
      <4>2. CASE x = sort_j
        BY <2>1, <3>2, <3>4, <4>1, <4>2
      <4>3. CASE x = sort_j + 1
        BY <2>1, <3>2, <4>1, <4>3
      <4>4. CASE x # sort_j /\ x # sort_j + 1
        BY <2>1, <3>2, <4>1, <4>4
      <4> QED
        BY <4>2, <4>3, <4>4
    <3>6. Permuted(sort_arr)'
      BY <2>3, <3>2 DEF Permuted
    <3>7. \A x, y \in Dom : x < y /\ y >= sort_n - sort_i =>
            sort_arr'[x].key <= sort_arr'[y].key
      <4> SUFFICES ASSUME NEW x \in Dom, NEW y \in Dom, x < y, y >= sort_n - sort_i
                   PROVE  sort_arr'[x].key <= sort_arr'[y].key
        OBVIOUS
      <4>1. \A u \in Dom : u < y => sort_arr[u].key <= sort_arr[y].key
        BY DEF BubbleInv
      <4>2. sort_arr'[y] = sort_arr[y] /\ sort_j < y /\ sort_j + 1 < y
        BY <2>1, <3>2
      <4> QED
        BY <2>1, <3>2, <4>1, <4>2
    <3>8. \A x \in 0 .. sort_j + 1 : sort_arr'[x].key <= sort_arr'[sort_j + 1].key
      <4>1. \A x \in 0 .. sort_j : sort_arr[x].key <= sort_arr[sort_j].key
        BY <1>2 DEF BubbleInv
      <4>2. \A x \in 0 .. sort_j + 1 : x \in Dom
        BY <2>1 DEF Dom
      <4> QED
        BY <2>1, <3>2, <3>4, <4>1, <4>2
    <3> QED
      BY <1>2, <2>1, <2>2, <2>3, <2>4, <3>3, <3>5, <3>6, <3>7, <3>8 DEF BubbleInv
  <2>5. CASE ~Sort!bubble_out_of_order(sort_j)
    <3>2. SortTypes'
      BY <2>1, <2>2, <2>5, TypesKept DEF SortTypes
    <3>3. sort_arr[sort_j].key <= sort_arr[sort_j + 1].key
      BY <2>1, <2>5 DEF Sort!bubble_out_of_order, Sort!gt
    <3>4. Permuted(sort_arr)' /\ KeepsTies(sort_arr)'
      BY <2>2, <2>3, <2>5, SMTT(30) DEF BubbleInv, Permuted, KeepsTies
    <3>5. \A x \in 0 .. sort_j + 1 : sort_arr[x].key <= sort_arr[sort_j + 1].key
      <4>1. \A x \in 0 .. sort_j : sort_arr[x].key <= sort_arr[sort_j].key
        BY <1>2 DEF BubbleInv
      <4>2. \A x \in 0 .. sort_j + 1 : x \in Dom
        BY <2>1 DEF Dom
      <4> QED
        BY <2>1, <3>3, <4>1, <4>2
    <3>6. ~sort_flag => \A x \in 0 .. sort_j : sort_arr[x].key <= sort_arr[x + 1].key
      <4>1. ~sort_flag =>
              \A x \in 0 .. sort_j - 1 : sort_arr[x].key <= sort_arr[x + 1].key
        BY <1>2 DEF BubbleInv
      <4> QED
        BY <2>1, <3>3, <4>1
    <3> QED
      BY <1>2, <2>1, <2>2, <2>3, <2>5, <3>2, <3>4, <3>5, <3>6 DEF BubbleInv
  <2> QED
    BY <2>4, <2>5
<1>3. CASE sort_pc = "inner" /\ sort_j >= sort_n - 1 - sort_i
  <2>1. /\ sort_i' = sort_i + 1 /\ sort_pc' = (IF sort_flag THEN "outer" ELSE "done")
        /\ UNCHANGED <<sort_arr, sort_j, sort_k, sort_flag, sort_held, sort_tmp,
                       sort_calls>>
    BY <1>3 DEF Sort!bubble_sort
  <2>2. SortTypes'
    BY <2>1, TypesKept DEF SortTypes
  <2>3. Permuted(sort_arr)' /\ KeepsTies(sort_arr)' /\ Dom' = Dom
    BY <2>1 DEF BubbleInv, Permuted, KeepsTies, Dom
  <2>4. sort_j = sort_n - 1 - sort_i /\ sort_j \in Dom /\ sort_i >= 0
    BY <1>3 DEF BubbleInv, Dom
  <2>5. \A x, y \in Dom : x < y /\ y >= sort_n - (sort_i + 1) =>
          sort_arr[x].key <= sort_arr[y].key
    <3>1. \A x \in 0 .. sort_j : sort_arr[x].key <= sort_arr[sort_j].key
      BY <1>3 DEF BubbleInv
    <3>2. \A x, y \in Dom : x < y /\ y >= sort_n - sort_i =>
            sort_arr[x].key <= sort_arr[y].key
      BY DEF BubbleInv
    <3> QED
      BY <2>4, <3>1, <3>2
  <2>6. ~sort_flag => \A x \in 0 .. sort_n - 2 : sort_arr[x].key <= sort_arr[x + 1].key
    <3>1. ~sort_flag => \A x \in 0 .. sort_j - 1 : sort_arr[x].key <= sort_arr[x + 1].key
      BY <1>3 DEF BubbleInv
    <3>2. \A x \in 0 .. sort_n - 2 : x \in Dom /\ x + 1 \in Dom
      BY DEF Dom
    <3> QED
      BY <2>4, <2>5, <3>1, <3>2
  <2> QED
    BY <2>1, <2>2, <2>3, <2>4, <2>5, <2>6 DEF BubbleInv
<1> QED
  BY <1>1, <1>2, <1>3 DEF Sort!bubble_sort

-----------------------------------------------------------------------------
\* Insertion sort keeps its invariant.
LEMMA InsertionStep ==
    ASSUME SortTypes, sort_alg = "insertion", InsertionInv, Sort!insertion_sort,
           UNCHANGED <<sort_alg, sort_n, sort_arr0>>
    PROVE  SortTypes' /\ InsertionInv'
<1> USE Ints
<1>0. Dom' = Dom /\ sort_i >= 1
  BY DEF Dom, InsertionInv
<1>1. CASE sort_pc = "outer" /\ sort_i < sort_n
  <2>1. /\ sort_pc' = "inner" /\ sort_held' = sort_arr[sort_i]
        /\ sort_j' = sort_i - 1
        /\ UNCHANGED <<sort_arr, sort_i, sort_k, sort_flag, sort_tmp, sort_calls>>
    BY <1>1 DEF Sort!insertion_sort
  <2>2. sort_i \in Dom
    BY <1>0, <1>1 DEF Dom
  <2>3. SortTypes'
    BY <2>1, <2>2, TypesKept DEF SortTypes
  <2>4. sort_held' = sort_arr0[sort_i] /\ sort_held'.pos = sort_i
    BY <1>1, <2>1, <2>2 DEF InsertionInv, SortTypes
  <2>5. sort_j' + 1 = sort_i
    BY <2>1
  <2>6. \A x \in Dom : Filled(x)' = sort_arr[x]
    BY <2>1, <2>5 DEF Filled
  <2>7. {Filled(x)' : x \in Dom} = {sort_arr0[x] : x \in Dom}
    <3>1. {sort_arr[x] : x \in Dom} = {sort_arr0[x] : x \in Dom}
      BY <1>1 DEF InsertionInv, Permuted
    <3>2. {Filled(x)' : x \in Dom} = {sort_arr[x] : x \in Dom}
      BY <2>6
    <3> QED
      BY <3>1, <3>2, Zenon
  <2>8. /\ \A x, y \in Dom \ {sort_i} : x < y /\ y <= sort_i =>
             Before(sort_arr[x], sort_arr[y])
        /\ \A x \in Dom : IF x <= sort_i THEN x = sort_i \/ sort_arr[x].pos < sort_i
             ELSE sort_arr[x] = sort_arr0[x]
    BY <1>1, <2>2 DEF InsertionInv
  <2>9. (\A x, y \in Dom \ {sort_j + 1} : x < y /\ y <= sort_i => Before(sort_arr[x], sort_arr[y]))'
    BY <1>0, <2>1, <2>5, <2>8 DEF Before
  <2>10. (\A x \in Dom : x > sort_j + 1 /\ x <= sort_i => Before(sort_held, sort_arr[x]))'
    BY <1>0, <2>1, <2>5
  <2>11. (\A x \in Dom : IF x <= sort_i THEN x = sort_j + 1 \/ sort_arr[x].pos < sort_i ELSE sort_arr[x] = sort_arr0[x])'
    BY <1>0, <2>1, <2>5, <2>8
  <2>12. (sort_i < sort_n /\ sort_j \in -1 .. sort_i - 1 /\ sort_held.pos = sort_i)'
    BY <1>0, <1>1, <2>1, <2>4
  <2>13. ({Filled(x) : x \in Dom} = {sort_arr0[x] : x \in Dom})'
    BY <1>0, <2>7
  <2> QED
    BY <1>0, <2>1, <2>3, <2>9, <2>10, <2>11, <2>12, <2>13 DEF InsertionInv
<1>2. CASE sort_pc = "outer" /\ ~(sort_i < sort_n)
  <2>1. /\ sort_pc' = "done"
        /\ UNCHANGED <<sort_held, sort_j, sort_arr, sort_i, sort_k, sort_flag,
                       sort_tmp, sort_calls>>
    BY <1>2 DEF Sort!insertion_sort
  <2>2. SortTypes'
    BY <2>1, TypesKept DEF SortTypes
  <2>3. Permuted(sort_arr)'
    <3>1. Permuted(sort_arr)
      BY <1>2 DEF InsertionInv
    <3> QED
      BY <1>0, <2>1, <3>1 DEF Permuted
  <2> QED
    BY <1>0, <1>2, <2>1, <2>2, <2>3 DEF InsertionInv, Before
<1>3. CASE sort_pc = "inner"
  <2>1. /\ sort_i \in Dom /\ sort_j \in -1 .. sort_i - 1 /\ sort_j + 1 \in Dom
        /\ sort_i < sort_n
        /\ (sort_j >= 0 => sort_j \in Dom) /\ sort_held.pos = sort_i
    BY <1>3 DEF InsertionInv, Dom
  <2>4. /\ \A x, y \in Dom : x # sort_j + 1 /\ y # sort_j + 1 /\ x < y /\ y <= sort_i =>
             Before(sort_arr[x], sort_arr[y])
        /\ \A x \in Dom : x > sort_j + 1 /\ x <= sort_i => Before(sort_held, sort_arr[x])
        /\ \A x \in Dom : x <= sort_i => x = sort_j + 1 \/ sort_arr[x].pos < sort_i
        /\ \A x \in Dom : x > sort_i => sort_arr[x] = sort_arr0[x]
    BY <1>3 DEF InsertionInv
  <2>5. {Filled(x) : x \in Dom} = {sort_arr0[x] : x \in Dom}
    BY <1>3 DEF InsertionInv
  <2>2. CASE sort_j >= 0 /\ Sort!gt(sort_arr[sort_j], sort_held)
    <3>1. /\ sort_arr' = [sort_arr EXCEPT ![sort_j + 1] = sort_arr[sort_j]]
          /\ sort_j' = sort_j - 1
          /\ UNCHANGED <<sort_pc, sort_i, sort_k, sort_flag, sort_held, sort_tmp,
                         sort_calls>>
      BY <1>3, <2>2 DEF Sort!insertion_sort
    <3>2. /\ sort_arr' \in [Dom -> Elements] /\ sort_arr'[sort_j + 1] = sort_arr[sort_j]
          /\ sort_arr'[sort_j] = sort_arr[sort_j]
          /\ \A x \in Dom : x # sort_j + 1 => sort_arr'[x] = sort_arr[x]
      BY <2>1, <2>2, <3>1 DEF SortTypes
    <3>3. SortTypes'
      BY <2>1, <3>1, <3>2, TypesKept DEF SortTypes
    <3>4. sort_held.key < sort_arr[sort_j].key
      BY <2>1, <2>2 DEF Sort!gt
    <3>5. sort_j' + 1 = sort_j
      BY <2>1, <3>1
    <3>6. \A x \in Dom : Filled(x)' = IF x = sort_j THEN sort_held ELSE sort_arr'[x]
      BY <3>1, <3>5 DEF Filled
    <3>7. {Filled(x)' : x \in Dom} = {Filled(x) : x \in Dom}
      <4> DEFINE G(x) == IF x = sort_j THEN sort_held ELSE sort_arr'[x]
      <4>1. G(sort_j) = Filled(sort_j + 1) /\ G(sort_j + 1) = Filled(sort_j)
        BY <2>1, <2>2, <3>2 DEF Filled
      <4>2. \A x \in Dom : x # sort_j /\ x # sort_j + 1 => G(x) = Filled(x)
        BY <2>1, <3>2 DEF Filled
      <4>3. \A x \in Dom : Filled(x)' = G(x)
        BY <3>6
      <4> HIDE DEF G
      <4>4. \A x \in Dom : \E u \in Dom : G(x) = Filled(u)
        BY <2>1, <2>2, <4>1, <4>2
      <4>5. \A u \in Dom : \E x \in Dom : G(x) = Filled(u)
        BY <2>1, <2>2, <4>1, <4>2
      <4>6. {Filled(x)' : x \in Dom} = {G(x) : x \in Dom}
        BY <4>3
      <4>7. {G(x) : x \in Dom} = {Filled(x) : x \in Dom}
        BY <4>4, <4>5
      <4> QED
        BY <4>6, <4>7
    <3>9. \A x, y \in Dom \ {sort_j} : x < y /\ y <= sort_i =>
            Before(sort_arr'[x], sort_arr'[y])
      <4> SUFFICES ASSUME NEW x \in Dom, NEW y \in Dom, x # sort_j, y # sort_j, x < y,
                          y <= sort_i
                   PROVE  Before(sort_arr'[x], sort_arr'[y])
        OBVIOUS
      <4>1. CASE x = sort_j + 1
        BY <2>1, <2>2, <2>4, <3>2, <4>1
      <4>2. CASE y = sort_j + 1
        BY <2>1, <2>2, <2>4, <3>2, <4>2
      <4>3. CASE x # sort_j + 1 /\ y # sort_j + 1
        BY <2>1, <2>2, <2>4, <3>2, <4>3
      <4> QED
        BY <4>1, <4>2, <4>3
    <3>10. \A x \in Dom : x > sort_j /\ x <= sort_i => Before(sort_held, sort_arr'[x])
      BY <2>1, <2>2, <2>4, <3>2, <3>4 DEF Before
    <3>11. \A x \in Dom : IF x <= sort_i THEN x = sort_j \/ sort_arr'[x].pos < sort_i
             ELSE sort_arr'[x] = sort_arr0[x]
      BY <2>1, <2>2, <2>4, <3>2
    <3>12. /\ (sort_i < sort_n /\ sort_j \in -1 .. sort_i - 1 /\ sort_held.pos = sort_i)'
      BY <2>1, <2>2, <3>1
    <3>13. (\A x, y \in Dom \ {sort_j + 1} : x < y /\ y <= sort_i => Before(sort_arr[x], sort_arr[y]))'
      BY <1>0, <3>1, <3>5, <3>9 DEF Before
    <3>14. (\A x \in Dom : x > sort_j + 1 /\ x <= sort_i => Before(sort_held, sort_arr[x]))'
      BY <1>0, <3>1, <3>5, <3>10 DEF Before
    <3>15. (\A x \in Dom : IF x <= sort_i THEN x = sort_j + 1 \/ sort_arr[x].pos < sort_i ELSE sort_arr[x] = sort_arr0[x])'
      BY <1>0, <3>1, <3>5, <3>11
    <3>16. ({Filled(x) : x \in Dom} = {sort_arr0[x] : x \in Dom})'
      BY <1>0, <2>5, <3>7
    <3> QED
      BY <1>0, <1>3, <3>1, <3>3, <3>12, <3>13, <3>14, <3>15, <3>16 DEF InsertionInv
  <2>3. CASE ~(sort_j >= 0 /\ Sort!gt(sort_arr[sort_j], sort_held))
    <3>1. /\ sort_arr' = [sort_arr EXCEPT ![sort_j + 1] = sort_held]
          /\ sort_i' = sort_i + 1 /\ sort_pc' = "outer"
          /\ UNCHANGED <<sort_j, sort_k, sort_flag, sort_held, sort_tmp,
                         sort_calls>>
      BY <1>3, <2>3 DEF Sort!insertion_sort
    <3>2. sort_arr' \in [Dom -> Elements] /\ \A x \in Dom : sort_arr'[x] = Filled(x)
      BY <2>1, <3>1 DEF SortTypes, Filled
    <3>3. SortTypes'
      BY <2>1, <3>1, <3>2, TypesKept DEF SortTypes
    <3>4. Permuted(sort_arr)'
      <4>1. {sort_arr'[x] : x \in Dom} = {Filled(x) : x \in Dom}
        BY <3>2
      <4> QED
        BY <1>0, <2>5, <4>1 DEF Permuted
    <3>5. sort_j >= 0 => sort_arr[sort_j].key <= sort_held.key
      BY <2>1, <2>3 DEF Sort!gt
    <3>6. \A x \in Dom : x < sort_j + 1 => Before(sort_arr[x], sort_held)
      <4> SUFFICES ASSUME NEW x \in Dom, x < sort_j + 1
                   PROVE  Before(sort_arr[x], sort_held)
        OBVIOUS
      <4>1. sort_arr[x].pos < sort_i /\ sort_j \in Dom
        BY <2>1, <2>4
      <4>2. x = sort_j \/ Before(sort_arr[x], sort_arr[sort_j])
        BY <2>1, <2>4
      <4>3. sort_arr[x].key <= sort_held.key
        BY <2>1, <3>5, <4>1, <4>2 DEF Before
      <4> QED
        BY <2>1, <4>1, <4>3 DEF Before
    <3>7. \A x, y \in Dom : x < y /\ y < sort_i + 1 => Before(sort_arr'[x], sort_arr'[y])
      <4> SUFFICES ASSUME NEW x \in Dom, NEW y \in Dom, x < y, y < sort_i + 1
                   PROVE  Before(sort_arr'[x], sort_arr'[y])
        OBVIOUS
      <4>1. CASE x = sort_j + 1
        BY <2>1, <2>4, <3>2, <4>1 DEF Filled
      <4>2. CASE y = sort_j + 1
        BY <2>1, <3>2, <3>6, <4>2 DEF Filled
      <4>3. CASE x # sort_j + 1 /\ y # sort_j + 1
        BY <2>1, <2>4, <3>2, <4>3 DEF Filled
      <4> QED
        BY <4>1, <4>2, <4>3
    <3>8. \A x \in Dom : IF x < sort_i + 1 THEN sort_arr'[x].pos < sort_i + 1
            ELSE sort_arr'[x] = sort_arr0[x]
      BY <2>1, <2>4, <3>2 DEF Filled
    <3> QED
      BY <1>0, <3>1, <3>3, <3>4, <3>7, <3>8 DEF InsertionInv, Before
  <2> QED
    BY <2>2, <2>3
<1> QED
  BY <1>1, <1>2, <1>3 DEF Sort!insertion_sort

-----------------------------------------------------------------------------
\* Selection sort keeps its invariant.
LEMMA SelectionStep ==
    ASSUME SortTypes, sort_alg = "selection", SelectionInv, Sort!selection_sort,
           UNCHANGED <<sort_alg, sort_n, sort_arr0>>
    PROVE  SortTypes' /\ SelectionInv'
<1> USE Ints
<1>0. Dom' = Dom /\ sort_i >= 0
  BY DEF Dom, SelectionInv
<1>1. CASE sort_pc = "outer"
  <2>1. /\ UNCHANGED <<sort_arr, sort_i, sort_flag, sort_held, sort_tmp,
                       sort_calls>>
        /\ IF sort_i < sort_n - 1
             THEN sort_pc' = "inner" /\ sort_k' = sort_i /\ sort_j' = sort_i + 1
                        ELSE sort_pc' = "done" /\ UNCHANGED <<sort_k, sort_j>>
    BY <1>1 DEF Sort!selection_sort
  <2>2. SortTypes'
    <3>1. sort_k' \in Int /\ sort_j' \in Int
      BY <2>1
    <3> QED
      BY <2>1, <3>1, TypesKept DEF SortTypes
  <2>3. Permuted(sort_arr)'
    BY <1>0, <2>1 DEF SelectionInv, Permuted
  <2>4. CASE sort_i < sort_n - 1
    <3>1. \A x \in sort_i .. sort_i + 1 - 1 : x = sort_i
      OBVIOUS
    <3>2. sort_i \in Dom
      BY <1>0, <2>4 DEF Dom
    <3> QED
      BY <1>0, <2>1, <2>2, <2>3, <2>4, <3>1, <3>2 DEF SelectionInv
  <2>5. CASE ~(sort_i < sort_n - 1)
    BY <1>0, <2>1, <2>2, <2>3, <2>5 DEF SelectionInv
  <2> QED
    BY <2>4, <2>5
<1>2. CASE sort_pc = "inner" /\ sort_j < sort_n
  <2>1. /\ sort_k' = (IF Sort!lt(sort_arr[sort_j], sort_arr[sort_k]) THEN sort_j ELSE sort_k)
        /\ sort_j' = sort_j + 1
        /\ UNCHANGED <<sort_arr, sort_pc, sort_i, sort_flag, sort_held, sort_tmp,
                       sort_calls>>
    BY <1>2 DEF Sort!selection_sort
  <2>2. /\ sort_j \in Dom /\ sort_k \in Dom /\ sort_j > sort_i /\ sort_k >= sort_i
        /\ sort_i < sort_n - 1
    BY <1>0, <1>2 DEF SelectionInv, Dom
  <2>3. SortTypes' /\ sort_k' \in Dom /\ sort_k' >= sort_i
    <3>1. sort_k' \in Dom /\ sort_k' >= sort_i
      BY <2>1, <2>2
    <3> QED
      BY <2>1, <2>2, <3>1, TypesKept DEF SortTypes
  <2>4. Permuted(sort_arr)'
    BY <1>0, <2>1 DEF SelectionInv, Permuted
  <2>5. \A x \in sort_i .. sort_j : sort_arr[sort_k'].key <= sort_arr[x].key
    <3>1. \A x \in sort_i .. sort_j - 1 :
            x \in Dom /\ sort_arr[sort_k].key <= sort_arr[x].key
      BY <1>0, <1>2 DEF SelectionInv, Dom
    <3>2. CASE sort_arr[sort_j].key < sort_arr[sort_k].key
      BY <2>1, <2>2, <3>1, <3>2 DEF Sort!lt
    <3>3. CASE ~(sort_arr[sort_j].key < sort_arr[sort_k].key)
      BY <2>1, <2>2, <3>1, <3>3 DEF Sort!lt
    <3> QED
      BY <3>2, <3>3
  <2> QED
    BY <1>0, <1>2, <2>1, <2>2, <2>3, <2>4, <2>5 DEF SelectionInv
<1>3. CASE sort_pc = "inner" /\ sort_j >= sort_n
  <2>1. /\ sort_arr' = (IF sort_k # sort_i THEN Sort!swap(sort_arr, sort_i, sort_k) ELSE sort_arr)
        /\ sort_i' = sort_i + 1 /\ sort_pc' = "outer"
        /\ UNCHANGED <<sort_j, sort_k, sort_flag, sort_held, sort_tmp, sort_calls>>
    BY <1>3 DEF Sort!selection_sort
  <2>2. sort_i \in Dom /\ sort_k \in Dom /\ sort_k >= sort_i /\ sort_i < sort_n - 1
    BY <1>0, <1>3 DEF SelectionInv, Dom
  <2>9. sort_arr \in [Dom -> Elements] /\ Permuted(sort_arr)
    BY DEF SelectionInv, SortTypes
  <2>3. /\ sort_arr' \in [Dom -> Elements] /\ Permuted(sort_arr')
        /\ sort_arr'[sort_i] = sort_arr[sort_k] /\ sort_arr'[sort_k] = sort_arr[sort_i]
        /\ \A z \in Dom : z # sort_i /\ z # sort_k => sort_arr'[z] = sort_arr[z]
    BY <2>1, <2>2, <2>9, SwapPermutes
  <2>4. SortTypes'
    BY <2>1, <2>2, <2>3, TypesKept DEF SortTypes
  <2>5. Permuted(sort_arr)'
    BY <1>0, <2>3 DEF Permuted
  <2>6. \A x \in Dom : x >= sort_i => sort_arr[sort_k].key <= sort_arr[x].key
    BY <1>3, <2>2 DEF SelectionInv
  <2>7. \A x, y \in Dom : x < y /\ x < sort_i => sort_arr'[x].key <= sort_arr'[y].key
    BY <2>2, <2>3 DEF SelectionInv
  <2>8. \A y \in Dom : sort_i < y => sort_arr'[sort_i].key <= sort_arr'[y].key
    BY <2>2, <2>3, <2>6
  <2> QED
    BY <1>0, <2>1, <2>2, <2>4, <2>5, <2>7, <2>8 DEF SelectionInv
<1> QED
  BY <1>1, <1>2, <1>3 DEF Sort!selection_sort

-----------------------------------------------------------------------------
\* A call is its kind and three numbers.
LEMMA CallTuple ==
    ASSUME NEW k \in {"sort", "merge"}, NEW x \in Int, NEW y \in Int, NEW z \in Int
    PROVE  <<k, x, y, z>> \in Calls
  BY DEF Calls

\* What the first call is, and what the stack is without it.
LEMMA Popped ==
    ASSUME NEW s \in Seq(Calls), s # <<>>
    PROVE  /\ Len(s) \in Nat /\ Len(s) >= 1 /\ Head(s) = s[1] /\ s[1] \in Calls
           /\ Tail(s) \in Seq(Calls) /\ Len(Tail(s)) = Len(s) - 1
           /\ \A q \in 1 .. Len(s) - 1 : Tail(s)[q] = s[q + 1]
  OBVIOUS

\* What the stack is when three calls, or two, replace the first.
LEMMA Pushed3 ==
    ASSUME NEW s \in Seq(Calls), s # <<>>, NEW a \in Calls, NEW b \in Calls,
           NEW c \in Calls,
           NEW t, t = <<a, b, c>> \o Tail(s)
    PROVE  /\ t \in Seq(Calls) /\ Len(t) = Len(s) + 2
           /\ t[1] = a /\ t[2] = b /\ t[3] = c
           /\ \A q \in 2 .. Len(s) : t[q + 2] = s[q]
<1>1. <<a, b, c>> \in Seq(Calls) /\ Tail(s) \in Seq(Calls)
  BY Popped
<1>2. t \in Seq(Calls) /\ Len(t) = 3 + (Len(s) - 1)
  BY <1>1, Popped
<1>3. \A q \in 1 .. Len(t) : t[q] = IF q <= 3 THEN <<a, b, c>>[q] ELSE Tail(s)[q - 3]
  BY <1>1, <1>2
<1>4. Len(s) \in Nat /\ Len(s) >= 1 /\ \A q \in 1 .. Len(s) - 1 : Tail(s)[q] = s[q + 1]
  BY Popped
<1>5. \A q \in 2 .. Len(s) : t[q + 2] = s[q]
  <2> SUFFICES ASSUME NEW q \in 2 .. Len(s) PROVE t[q + 2] = s[q]
    OBVIOUS
  <2>1. t[q + 2] = Tail(s)[q - 1]
    BY <1>2, <1>3, <1>4
  <2>2. Tail(s)[q - 1] = s[q]
    BY <1>4
  <2> QED
    BY <2>1, <2>2
<1> QED
  BY <1>2, <1>3, <1>4, <1>5

\* The same when two calls replace it.
LEMMA Pushed2 ==
    ASSUME NEW s \in Seq(Calls), s # <<>>, NEW a \in Calls, NEW b \in Calls,
           NEW t, t = <<a, b>> \o Tail(s)
    PROVE  /\ t \in Seq(Calls) /\ Len(t) = Len(s) + 1
           /\ t[1] = a /\ t[2] = b
           /\ \A q \in 2 .. Len(s) : t[q + 1] = s[q]
<1>1. <<a, b>> \in Seq(Calls) /\ Tail(s) \in Seq(Calls)
  BY Popped
<1>2. t \in Seq(Calls) /\ Len(t) = 2 + (Len(s) - 1)
  BY <1>1, Popped
<1>3. \A q \in 1 .. Len(t) : t[q] = IF q <= 2 THEN <<a, b>>[q] ELSE Tail(s)[q - 2]
  BY <1>1, <1>2
<1>4. Len(s) \in Nat /\ Len(s) >= 1 /\ \A q \in 1 .. Len(s) - 1 : Tail(s)[q] = s[q + 1]
  BY Popped
<1>5. \A q \in 2 .. Len(s) : t[q + 1] = s[q]
  <2> SUFFICES ASSUME NEW q \in 2 .. Len(s) PROVE t[q + 1] = s[q]
    OBVIOUS
  <2>1. t[q + 1] = Tail(s)[q - 1]
    BY <1>2, <1>3, <1>4
  <2>2. Tail(s)[q - 1] = s[q]
    BY <1>4
  <2> QED
    BY <2>1, <2>2
<1> QED
  BY <1>2, <1>3, <1>4, <1>5

-----------------------------------------------------------------------------
\* A plan survives the return of the first call, which changed its own part only.
LEMMA WillPop ==
    ASSUME NEW s \in Seq(Calls), s # <<>>, NEW p \in 2 .. Len(s) + 1, NEW lo \in Int,
           NEW hi \in Int,
           NEW a, NEW b, WillBe(s, p, lo, hi, a),
           Lo(s[1]) = lo /\ Hi(s[1]) = hi => Ordered(b, lo, hi),
           \A x \in lo .. hi : x \notin Span(s[1]) => b[x] = a[x]
    PROVE  WillBe(Tail(s), p - 1, lo, hi, b)
<1>1. PICK q \in 0 .. p - 1 : /\ q = 0 => Ordered(a, lo, hi)
                              /\ q > 0 => Lo(s[q]) = lo /\ Hi(s[q]) = hi
                              /\ \A r \in q + 1 .. p - 1 : Span(s[r]) \cap lo .. hi = {}
  BY DEF WillBe
<1>2. Len(s) \in Nat /\ \A r \in 1 .. Len(s) - 1 : Tail(s)[r] = s[r + 1]
  BY Popped
<1>3. CASE q = 0
  <2>0. 1 \in q + 1 .. p - 1
    BY <1>2, <1>3
  <2>4. Span(s[1]) \cap lo .. hi = {}
    BY <1>1, <2>0
  <2>1. \A x \in lo .. hi : b[x] = a[x]
    BY <2>4
  <2>2. Ordered(b, lo, hi)
    BY <1>1, <1>3, <2>1 DEF Ordered
  <2>3. \A r \in 1 .. p - 2 : Span(Tail(s)[r]) \cap lo .. hi = {}
    BY <1>1, <1>2, <1>3
  <2>5. 0 \in 0 .. (p - 1) - 1 /\ ~(0 > 0) /\ 0 + 1 = 1 /\ (p - 1) - 1 = p - 2
    BY <1>2
  <2> QED
    BY <2>2, <2>3, <2>5 DEF WillBe
<1>4. CASE q > 0
  <2>1. \A r \in q .. p - 2 : Span(Tail(s)[r]) \cap lo .. hi = {}
    BY <1>1, <1>2, <1>4
  <2>2. q - 1 = 0 => Ordered(b, lo, hi)
    BY <1>1, <1>4
  <2>3. q - 1 > 0 => Lo(Tail(s)[q - 1]) = lo /\ Hi(Tail(s)[q - 1]) = hi
    BY <1>1, <1>2, <1>4
  <2>4. q - 1 \in 0 .. (p - 1) - 1 /\ (q - 1) + 1 = q /\ (p - 1) - 1 = p - 2
    BY <1>2, <1>4
  <2> QED
    BY <2>1, <2>2, <2>3, <2>4 DEF WillBe
<1> QED
  BY <1>3, <1>4

\* A plan survives the replacement of a sort by two sorts and a merge of the same part.
LEMMA WillSplit ==
    ASSUME NEW s \in Seq(Calls), s # <<>>, NEW p \in 2 .. Len(s) + 1, NEW lo \in Int,
           NEW hi \in Int,
           NEW a, WillBe(s, p, lo, hi, a),
           NEW t, \A q \in 2 .. Len(s) : t[q + 2] = s[q],
           Lo(t[3]) = Lo(s[1]), Hi(t[3]) = Hi(s[1]),
           Span(t[1]) \subseteq Span(s[1]), Span(t[2]) \subseteq Span(s[1])
    PROVE  WillBe(t, p + 2, lo, hi, a)
<1>1. PICK q \in 0 .. p - 1 : /\ q = 0 => Ordered(a, lo, hi)
                              /\ q > 0 => Lo(s[q]) = lo /\ Hi(s[q]) = hi
                              /\ \A r \in q + 1 .. p - 1 : Span(s[r]) \cap lo .. hi = {}
  BY DEF WillBe
<1>2. Len(s) \in Nat /\ Len(s) >= 1
  BY Popped
<1>3. Span(t[3]) = Span(s[1])
  BY DEF Span
<1>4. \A r \in 4 .. p + 1 : r - 2 \in 2 .. Len(s) /\ (r - 2) + 2 = r
  BY <1>2
<1>5. \A r \in 4 .. p + 1 : t[r] = s[r - 2]
  BY <1>4
<1>6. \A r \in q + 3 .. p + 1 : r >= 4 => Span(t[r]) \cap lo .. hi = {}
  <2> SUFFICES ASSUME NEW r \in q + 3 .. p + 1, r >= 4 PROVE Span(t[r]) \cap lo .. hi = {}
    OBVIOUS
  <2>1. t[r] = s[r - 2] /\ r - 2 \in q + 1 .. p - 1
    BY <1>2, <1>5
  <2> QED
    BY <1>1, <2>1
<1>7. CASE q = 0
  <2>1. Span(s[1]) \cap lo .. hi = {}
    BY <1>1, <1>2, <1>7
  <2>2. \A r \in 1 .. p + 1 : Span(t[r]) \cap lo .. hi = {}
    <3> SUFFICES ASSUME NEW r \in 1 .. p + 1 PROVE Span(t[r]) \cap lo .. hi = {}
      OBVIOUS
    <3>1. CASE r = 1
      BY <2>1, <3>1
    <3>2. CASE r = 2
      BY <2>1, <3>2
    <3>3. CASE r = 3
      BY <1>3, <2>1, <3>3
    <3>4. CASE r >= 4
      BY <1>6, <1>7, <3>4
    <3> QED
      BY <3>1, <3>2, <3>3, <3>4
  <2>3. 0 \in 0 .. (p + 2) - 1 /\ ~(0 > 0) /\ 0 + 1 = 1 /\ (p + 2) - 1 = p + 1
    BY <1>2
  <2> QED
    BY <1>1, <1>7, <2>2, <2>3 DEF WillBe
<1>8. CASE q > 0
  <2>1. Lo(t[q + 2]) = lo /\ Hi(t[q + 2]) = hi
    <3>1. CASE q = 1
      BY <1>1, <3>1
    <3>2. CASE q > 1
      BY <1>1, <1>2, <3>2
    <3> QED
      BY <1>8, <3>1, <3>2
  <2>2. \A r \in (q + 2) + 1 .. (p + 2) - 1 : Span(t[r]) \cap lo .. hi = {}
    BY <1>6, <1>8
  <2>3. q + 2 \in 0 .. (p + 2) - 1 /\ q + 2 > 0 /\ q + 2 # 0
    BY <1>8
  <2> QED
    BY <2>1, <2>2, <2>3 DEF WillBe
<1> QED
  BY <1>7, <1>8

\* What comes first when nothing is to be done before it.
LEMMA WillNow ==
    ASSUME NEW s, NEW lo, NEW hi, NEW a, WillBe(s, 1, lo, hi, a)
    PROVE  Ordered(a, lo, hi)
  BY DEF WillBe

-----------------------------------------------------------------------------
\* What holds of the halves and of the parts of a call.
LEMMA CallFields ==
    ASSUME SortTypes, NEW c, IsCall(c)
    PROVE  /\ c \in Calls /\ c[2] \in Int /\ c[3] \in Int /\ c[4] \in Int
           /\ c[1] \in {"sort", "merge"}
           /\ c[4] < sort_n /\ Lo(c) >= 0 /\ Lo(c) \in Int /\ Hi(c) = c[4]
           /\ c[1] = "merge" => c[2] <= c[3] /\ c[3] < c[4] /\ c[2] >= 0 /\ Lo(c) = c[2]
           /\ c[1] = "sort" => Lo(c) = c[3] /\ c[3] >= 0
           /\ Span(c) \subseteq Dom /\ Span(c) = Lo(c) .. c[4]
<1>1. c \in Calls
  BY DEF IsCall
<1>2. c[2] \in Int /\ c[3] \in Int /\ c[4] \in Int /\ c[1] \in {"sort", "merge"}
  BY <1>1 DEF Calls
<1>3. c[1] = "sort" => c[1] # "merge"
  OBVIOUS
<1>4. Lo(c) \in Int
  BY <1>2 DEF Lo
<1> QED
  BY <1>1, <1>2, <1>3, <1>4, Ints DEF IsCall, Lo, Hi, Span, Dom

\* The last index of an interval, and the others.
LEMMA OneMore ==
    ASSUME NEW lo \in Int, NEW hi \in Int
    PROVE  \A x \in lo .. hi : x = hi \/ x \in lo .. hi - 1
  OBVIOUS

\* Taking the least of the rest: the copied part grows by it.
LEMMA MergeTake ==
    ASSUME SortTypes, NEW lo \in Int, NEW mid \in Int, NEW hi \in Int, 0 <= lo, lo <= mid,
           mid < hi, hi < sort_n,
           Merged(lo, mid, hi), sort_k <= hi, UNCHANGED <<sort_n, sort_tmp>>,
           NEW z \in Rest(mid, hi), Taken(lo, mid)' = Taken(lo, mid) \cup {z},
           Rest(mid, hi)' = Rest(mid, hi) \ {z},
           sort_i' \in lo .. mid + 1, sort_j' \in mid + 1 .. hi + 1, sort_k' = sort_k + 1,
           sort_k' = sort_i' + (sort_j' - mid - 1),
           sort_arr' = [sort_arr EXCEPT ![sort_k] = sort_tmp[z]],
           \A y \in Rest(mid, hi) \ {z} : Before(sort_tmp[z], sort_tmp[y])
    PROVE  Merged(lo, mid, hi)'
<1> USE Ints
<1>1. /\ sort_k \in Dom /\ sort_k >= lo
      /\ \A x \in lo .. sort_k - 1 : x \in Dom /\ x # sort_k
  BY DEF Merged, Dom
<1>2. /\ sort_arr'[sort_k] = sort_tmp[z]
      /\ \A x \in lo .. sort_k - 1 : sort_arr'[x] = sort_arr[x]
  BY <1>1 DEF SortTypes
<1>3. \A x \in lo .. sort_k : x = sort_k \/ x \in lo .. sort_k - 1
  BY OneMore
<1>4. sort_k' - 1 = sort_k /\ sort_k \in lo .. sort_k
  BY <1>1
<1>5. \A x \in lo .. sort_k : \E y \in Taken(lo, mid) \cup {z} :
        sort_arr'[x] = sort_tmp[y]
  <2> SUFFICES ASSUME NEW x \in lo .. sort_k
               PROVE  \E y \in Taken(lo, mid) \cup {z} : sort_arr'[x] = sort_tmp[y]
    OBVIOUS
  <2>1. CASE x = sort_k
    BY <1>2, <2>1
  <2>2. CASE x \in lo .. sort_k - 1
    BY <1>2, <2>2 DEF Merged
  <2> QED
    BY <1>3, <2>1, <2>2
<1>6. \A y \in Taken(lo, mid) \cup {z} : \E x \in lo .. sort_k :
        sort_arr'[x] = sort_tmp[y]
  <2> SUFFICES ASSUME NEW y \in Taken(lo, mid) \cup {z}
               PROVE  \E x \in lo .. sort_k : sort_arr'[x] = sort_tmp[y]
    OBVIOUS
  <2>1. CASE y = z
    BY <1>2, <1>4, <2>1
  <2>2. CASE y \in Taken(lo, mid)
    <3>1. PICK x \in lo .. sort_k - 1 : sort_arr[x] = sort_tmp[y]
      BY <2>2 DEF Merged
    <3>2. x \in lo .. sort_k /\ sort_arr'[x] = sort_tmp[y]
      BY <1>1, <1>2, <3>1
    <3> QED
      BY <3>2
  <2> QED
    BY <2>1, <2>2
<1>7. \A x \in lo .. sort_k, y \in Rest(mid, hi) \ {z} : Before(sort_arr'[x], sort_tmp[y])
  <2> SUFFICES ASSUME NEW x \in lo .. sort_k, NEW y \in Rest(mid, hi), y # z
               PROVE  Before(sort_arr'[x], sort_tmp[y])
    OBVIOUS
  <2>1. CASE x = sort_k
    BY <1>2, <2>1
  <2>2. CASE x \in lo .. sort_k - 1
    BY <1>2, <2>2 DEF Merged
  <2> QED
    BY <1>3, <2>1, <2>2
<1>8. Ordered(sort_arr', lo, sort_k)
  <2> SUFFICES ASSUME NEW x \in lo .. sort_k, NEW y \in lo .. sort_k, x < y
               PROVE  Before(sort_arr'[x], sort_arr'[y])
    BY DEF Ordered
  <2>1. x \in lo .. sort_k - 1
    BY <1>1
  <2>2. CASE y = sort_k
    BY <1>2, <2>1, <2>2 DEF Merged
  <2>3. CASE y \in lo .. sort_k - 1
    BY <1>2, <2>1, <2>3 DEF Merged, Ordered
  <2> QED
    BY <1>3, <2>2, <2>3
<1>9. Ordered(sort_arr, lo, sort_k - 1)'
  BY <1>4, <1>8 DEF Ordered
<1>10. (\A x \in lo .. sort_k - 1, y \in Rest(mid, hi) : Before(sort_arr[x], sort_tmp[y]))'
  BY <1>4, <1>7 DEF Before
<1>11. (\A x \in lo .. sort_k - 1 : \E y \in Taken(lo, mid) : sort_arr[x] = sort_tmp[y])'
  BY <1>4, <1>5
<1>12. (\A y \in Taken(lo, mid) : \E x \in lo .. sort_k - 1 : sort_arr[x] = sort_tmp[y])'
  BY <1>4, <1>6
<1> QED
  BY <1>9, <1>10, <1>11, <1>12 DEF Merged

\* The stable order is transitive.
LEMMA BeforeTransitive ==
    ASSUME NEW a \in Elements, NEW b \in Elements, NEW c \in Elements, Before(a, b),
           Before(b, c)
    PROVE  Before(a, c)
<1>1. /\ a.key \in Int /\ b.key \in Int /\ c.key \in Int /\ a.pos \in Int
      /\ b.pos \in Int /\ c.pos \in Int
  BY DEF Elements
<1> QED
  BY <1>1 DEF Before

\* One iteration of merge: the left one of two equal elements is taken first.
LEMMA MergeOne ==
    ASSUME SortTypes, NEW lo \in Int, NEW mid \in Int, NEW hi \in Int, 0 <= lo, lo <= mid,
           mid < hi, hi < sort_n,
           Merged(lo, mid, hi), sort_k <= hi, UNCHANGED <<sort_n, sort_tmp>>,
           Ordered(sort_tmp, lo, mid), Ordered(sort_tmp, mid + 1, hi),
           \A x \in lo .. mid, y \in mid + 1 .. hi : sort_tmp[x].key = sort_tmp[y].key =>
             sort_tmp[x].pos < sort_tmp[y].pos,
           sort_k' = sort_k + 1,
           IF sort_i <= mid /\ (sort_j > hi \/ ~Sort!gt(sort_tmp[sort_i], sort_tmp[sort_j]))
           THEN sort_arr' = [sort_arr EXCEPT ![sort_k] = sort_tmp[sort_i]] /\ sort_i' = sort_i + 1 /\ UNCHANGED sort_j
           ELSE sort_arr' = [sort_arr EXCEPT ![sort_k] = sort_tmp[sort_j]] /\ sort_j' = sort_j + 1 /\ UNCHANGED sort_i
    PROVE  Merged(lo, mid, hi)'
<1> USE Ints
<1>1. /\ sort_i \in lo .. mid + 1 /\ sort_j \in mid + 1 .. hi + 1
      /\ sort_k = sort_i + (sort_j - mid - 1)
      /\ (sort_i <= mid => sort_i \in Dom /\ sort_i \in lo .. mid)
      /\ (sort_j <= hi => sort_j \in Dom /\ sort_j \in mid + 1 .. hi)
  BY DEF Merged, Dom
<1>2. \A x \in lo .. hi : x \in Dom /\ sort_tmp[x] \in Elements
  BY DEF Dom, SortTypes
<1>3. CASE sort_i <= mid /\ (sort_j > hi \/ ~Sort!gt(sort_tmp[sort_i], sort_tmp[sort_j]))
  <2>1. /\ sort_arr' = [sort_arr EXCEPT ![sort_k] = sort_tmp[sort_i]]
        /\ sort_i' = sort_i + 1 /\ sort_j' = sort_j
    BY <1>3
  <2>2. \A y \in sort_i + 1 .. mid : Before(sort_tmp[sort_i], sort_tmp[y])
    BY <1>1, <1>3 DEF Ordered
  <2>3. \A y \in sort_j .. hi : Before(sort_tmp[sort_i], sort_tmp[y])
    <3> SUFFICES ASSUME NEW y \in sort_j .. hi PROVE Before(sort_tmp[sort_i], sort_tmp[y])
      OBVIOUS
    <3>1. /\ sort_j \in mid + 1 .. hi /\ sort_i \in lo .. mid
          /\ ~Sort!gt(sort_tmp[sort_i], sort_tmp[sort_j]) /\ y \in mid + 1 .. hi
      BY <1>1, <1>3
    <3>2. Before(sort_tmp[sort_i], sort_tmp[sort_j])
      BY <1>1, <3>1 DEF Sort!gt, Before
    <3>3. y = sort_j \/ Before(sort_tmp[sort_j], sort_tmp[y])
      BY <1>1, <3>1 DEF Ordered
    <3>4. /\ sort_tmp[sort_i] \in Elements /\ sort_tmp[sort_j] \in Elements
          /\ sort_tmp[y] \in Elements
      BY <1>2, <3>1
    <3> QED
      BY <3>2, <3>3, <3>4, BeforeTransitive
  <2>4. /\ sort_i \in Rest(mid, hi)
        /\ \A y \in Rest(mid, hi) \ {sort_i} : Before(sort_tmp[sort_i], sort_tmp[y])
    BY <1>1, <1>3, <2>2, <2>3 DEF Rest
  <2>5. /\ Taken(lo, mid)' = Taken(lo, mid) \cup {sort_i}
        /\ Rest(mid, hi)' = Rest(mid, hi) \ {sort_i}
    BY <1>1, <1>3, <2>1 DEF Taken, Rest
  <2>6. /\ sort_i' \in lo .. mid + 1 /\ sort_j' \in mid + 1 .. hi + 1
        /\ sort_k' = sort_i' + (sort_j' - mid - 1)
    BY <1>1, <1>3, <2>1
  <2> QED
    BY <2>1, <2>4, <2>5, <2>6, MergeTake
<1>4. CASE ~(sort_i <= mid /\ (sort_j > hi \/ ~Sort!gt(sort_tmp[sort_i], sort_tmp[sort_j])))
  <2>1. /\ sort_arr' = [sort_arr EXCEPT ![sort_k] = sort_tmp[sort_j]]
        /\ sort_j' = sort_j + 1 /\ sort_i' = sort_i
    BY <1>4
  <2>0. sort_j <= hi /\ sort_j \in mid + 1 .. hi
    BY <1>1, <1>4
  <2>2. \A y \in sort_j + 1 .. hi : Before(sort_tmp[sort_j], sort_tmp[y])
    BY <1>1, <2>0 DEF Ordered
  <2>3. \A y \in sort_i .. mid : Before(sort_tmp[sort_j], sort_tmp[y])
    <3> SUFFICES ASSUME NEW y \in sort_i .. mid
                 PROVE  Before(sort_tmp[sort_j], sort_tmp[y])
      OBVIOUS
    <3>1. /\ sort_i \in lo .. mid /\ Sort!gt(sort_tmp[sort_i], sort_tmp[sort_j])
          /\ y \in lo .. mid
      BY <1>1, <1>4, <2>0
    <3>2. Before(sort_tmp[sort_j], sort_tmp[sort_i])
      BY <1>1, <2>0, <3>1 DEF Sort!gt, Before
    <3>3. y = sort_i \/ Before(sort_tmp[sort_i], sort_tmp[y])
      BY <1>1, <3>1 DEF Ordered
    <3>4. /\ sort_tmp[sort_i] \in Elements /\ sort_tmp[sort_j] \in Elements
          /\ sort_tmp[y] \in Elements
      BY <1>2, <2>0, <3>1
    <3> QED
      BY <3>2, <3>3, <3>4, BeforeTransitive
  <2>4. /\ sort_j \in Rest(mid, hi)
        /\ \A y \in Rest(mid, hi) \ {sort_j} : Before(sort_tmp[sort_j], sort_tmp[y])
    BY <1>1, <2>0, <2>2, <2>3 DEF Rest
  <2>5. /\ Taken(lo, mid)' = Taken(lo, mid) \cup {sort_j}
        /\ Rest(mid, hi)' = Rest(mid, hi) \ {sort_j}
    BY <1>1, <2>0, <2>1 DEF Taken, Rest
  <2>6. /\ sort_i' \in lo .. mid + 1 /\ sort_j' \in mid + 1 .. hi + 1
        /\ sort_k' = sort_i' + (sort_j' - mid - 1)
    BY <1>1, <2>0, <2>1
  <2> QED
    BY <2>1, <2>4, <2>5, <2>6, MergeTake
<1> QED
  BY <1>3, <1>4

\* A part of the array.
LEMMA IndicesOf ==
    ASSUME SortTypes, NEW lo \in Int, NEW mid \in Int, NEW hi \in Int, 0 <= lo, lo <= mid,
           mid < hi, hi < sort_n
    PROVE  lo .. mid \subseteq Dom /\ mid + 1 .. hi \subseteq Dom
  BY DEF Dom, SortTypes

\* Where the indices of a merge are while something is left.
LEMMA MergeIndices ==
    ASSUME SortTypes, NEW lo \in Int, NEW mid \in Int, NEW hi \in Int, lo <= mid,
           mid < hi,
           Merged(lo, mid, hi), sort_k <= hi
    PROVE  /\ sort_k \in lo .. hi /\ (sort_i <= mid => sort_i \in lo .. hi)
           /\ (sort_j <= hi => sort_j \in lo .. hi)
           /\ sort_i <= mid \/ sort_j <= hi
<1>1. /\ sort_i \in lo .. mid + 1 /\ sort_j \in mid + 1 .. hi + 1
      /\ sort_k = sort_i + (sort_j - mid - 1)
  BY DEF Merged
<1> QED
  BY <1>1

\* A merge that begins has taken nothing.
LEMMA MergeStart ==
    ASSUME NEW lo \in Int, NEW mid \in Int, NEW hi \in Int, lo <= mid, mid < hi
    PROVE  /\ lo \in lo .. mid + 1 /\ mid + 1 \in mid + 1 .. hi + 1
           /\ lo = lo + ((mid + 1) - mid - 1)
  OBVIOUS

\* A call of merge sort that has two or more elements is split, and the plan with it.
LEMMA MergeSplit ==
    ASSUME SortTypes, NEW s \in Seq(Calls), s # <<>>, \A p \in 1 .. Len(s) : IsCall(s[p]),
           s[1][1] = "sort", s[1][3] < s[1][4], NEW a, Planned(s, a, sort_n),
           NEW mid \in Int,
           s[1][3] <= mid, mid < s[1][4], NEW t,
           t = << <<"sort", 0, s[1][3], mid>>, <<"sort", 0, mid + 1, s[1][4]>>,
                  <<"merge", s[1][3], mid, s[1][4]>> >> \o Tail(s)
    PROVE  /\ t \in Seq(Calls) /\ (\A p \in 1 .. Len(t) : IsCall(t[p]))
           /\ Planned(t, a, sort_n)
<1> DEFINE lo == s[1][3]
           hi == s[1][4]
           c1 == <<"sort", 0, lo, mid>>
           c2 == <<"sort", 0, mid + 1, hi>>
           c3 == <<"merge", lo, mid, hi>>
<1>1. Len(s) \in Nat /\ Len(s) >= 1 /\ IsCall(s[1])
  BY Popped
<1>2. /\ lo \in Int /\ hi \in Int /\ lo >= 0 /\ hi < sort_n /\ lo <= mid /\ mid < hi
      /\ Lo(s[1]) = lo /\ Hi(s[1]) = hi /\ Span(s[1]) = lo .. hi
  BY <1>1, CallFields
<1> HIDE DEF lo, hi
<1>3. c1 \in Calls /\ c2 \in Calls /\ c3 \in Calls
  <2>1. mid + 1 \in Int /\ 0 \in Int
    OBVIOUS
  <2> QED
    BY <1>2, <2>1, CallTuple
<1>4. /\ c1[1] = "sort" /\ c1[3] = lo /\ c1[4] = mid
      /\ c2[1] = "sort" /\ c2[3] = mid + 1 /\ c2[4] = hi
      /\ c3[1] = "merge" /\ c3[2] = lo /\ c3[3] = mid /\ c3[4] = hi
  OBVIOUS
<1>5. IsCall(c1) /\ IsCall(c2) /\ IsCall(c3)
  BY <1>2, <1>3, <1>4, Ints DEF IsCall, Lo, Hi
<1>6. /\ t \in Seq(Calls) /\ Len(t) = Len(s) + 2 /\ t[1] = c1 /\ t[2] = c2 /\ t[3] = c3
      /\ \A q \in 2 .. Len(s) : t[q + 2] = s[q]
  BY <1>3, Pushed3 DEF lo, hi
<1>7. /\ Lo(t[1]) = lo /\ Hi(t[1]) = mid /\ Lo(t[2]) = mid + 1 /\ Hi(t[2]) = hi
      /\ Lo(t[3]) = Lo(s[1]) /\ Hi(t[3]) = Hi(s[1])
  BY <1>2, <1>4, <1>6 DEF Lo, Hi
<1>8. Span(t[1]) = lo .. mid /\ Span(t[2]) = mid + 1 .. hi
  BY <1>7 DEF Span
<1>9. Span(t[1]) \subseteq Span(s[1]) /\ Span(t[2]) \subseteq Span(s[1])
  BY <1>2, <1>8
<1> HIDE DEF c1, c2, c3
<1>10. \A p \in 1 .. Len(t) :
         p = 1 \/ p = 2 \/ p = 3 \/ (p - 2 \in 2 .. Len(s) /\ t[p] = s[p - 2])
  <2> SUFFICES ASSUME NEW p \in 1 .. Len(t), p > 3
               PROVE  p - 2 \in 2 .. Len(s) /\ t[p] = s[p - 2]
    BY <1>1, <1>6
  <2>1. p - 2 \in 2 .. Len(s) /\ (p - 2) + 2 = p
    BY <1>1, <1>6
  <2> QED
    BY <1>6, <2>1
<1>11. \A p \in 1 .. Len(t) : IsCall(t[p])
  <2> SUFFICES ASSUME NEW p \in 1 .. Len(t) PROVE IsCall(t[p])
    OBVIOUS
  <2>1. CASE p - 2 \in 2 .. Len(s) /\ t[p] = s[p - 2]
    <3>1. p - 2 \in 1 .. Len(s)
      BY <1>1, <2>1
    <3> QED
      BY <2>1, <3>1
  <2> QED
    BY <1>5, <1>6, <1>10, <2>1
<1>12. WillBe(t, 3, lo, mid, a)
  <2>1. Span(t[2]) \cap lo .. mid = {}
    BY <1>2, <1>8
  <2>2. \A r \in 1 + 1 .. 3 - 1 : Span(t[r]) \cap lo .. mid = {}
    <3>1. \A r \in 1 + 1 .. 3 - 1 : r = 2
      OBVIOUS
    <3> QED
      BY <2>1, <3>1, Zenon
  <2>3. 1 \in 0 .. 3 - 1 /\ 1 # 0
    OBVIOUS
  <2> QED
    BY <1>7, <2>2, <2>3 DEF WillBe
<1>13. WillBe(t, 3, mid + 1, hi, a)
  <2>1. \A r \in 2 + 1 .. 3 - 1 : Span(t[r]) \cap mid + 1 .. hi = {}
    OBVIOUS
  <2> QED
    BY <1>7, <2>1 DEF WillBe
<1>14. \A p \in 1 .. Len(t) : t[p][1] = "merge" =>
         WillBe(t, p, t[p][2], t[p][3], a) /\ WillBe(t, p, t[p][3] + 1, t[p][4], a)
  <2> SUFFICES ASSUME NEW p \in 1 .. Len(t), t[p][1] = "merge"
               PROVE  /\ WillBe(t, p, t[p][2], t[p][3], a)
                      /\ WillBe(t, p, t[p][3] + 1, t[p][4], a)
    OBVIOUS
  <2>1. CASE p = 3
    BY <1>4, <1>6, <1>12, <1>13, <2>1 DEF c3
  <2>2. CASE p - 2 \in 2 .. Len(s) /\ t[p] = s[p - 2]
    <3> DEFINE q == p - 2
    <3>1. /\ q \in 2 .. Len(s) + 1 /\ q \in 1 .. Len(s) /\ q + 2 = p /\ t[p] = s[q]
      BY <1>1, <2>2
    <3> HIDE DEF q
    <3>2. /\ s[q][1] = "merge" /\ s[q][2] \in Int /\ s[q][3] \in Int
          /\ s[q][3] + 1 \in Int /\ s[q][4] \in Int
      <4>1. s[q][1] = "merge" /\ IsCall(s[q])
        BY <3>1
      <4>2. s[q][2] \in Int /\ s[q][3] \in Int /\ s[q][4] \in Int
        BY <4>1, CallFields
      <4> QED
        BY <4>1, <4>2
    <3>3. WillBe(s, q, s[q][2], s[q][3], a) /\ WillBe(s, q, s[q][3] + 1, s[q][4], a)
      BY ZenonT(60), <3>1, <3>2 DEF Planned
    <3>4. WillBe(t, q + 2, s[q][2], s[q][3], a)
      BY <1>6, <1>7, <1>9, <3>1, <3>2, <3>3, WillSplit
    <3>5. WillBe(t, q + 2, s[q][3] + 1, s[q][4], a)
      BY <1>6, <1>7, <1>9, <3>1, <3>2, <3>3, WillSplit
    <3> QED
      BY <3>1, <3>4, <3>5
  <2>3. p # 1 /\ p # 2
    BY <1>4, <1>6 DEF c1, c2
  <2> QED
    BY <1>10, <2>1, <2>2, <2>3
<1>15. WillBe(t, Len(t) + 1, 0, sort_n - 1, a)
  <2>1. WillBe(s, Len(s) + 1, 0, sort_n - 1, a)
    BY DEF Planned
  <2>2. /\ Len(s) + 1 \in 2 .. Len(s) + 1 /\ (Len(s) + 1) + 2 = Len(t) + 1
        /\ 0 \in Int /\ sort_n - 1 \in Int
    BY <1>1, <1>6, Ints
  <2>3. WillBe(t, (Len(s) + 1) + 2, 0, sort_n - 1, a)
    BY <1>6, <1>7, <1>9, <2>1, <2>2, WillSplit
  <2> QED
    BY <2>2, <2>3
<1> QED
  BY <1>6, <1>11, <1>14, <1>15 DEF Planned

\* When the first call returns with its own part in order, the rest of the plan is left.
LEMMA PlanPop ==
    ASSUME SortTypes, NEW s \in Seq(Calls), s # <<>>, \A p \in 1 .. Len(s) : IsCall(s[p]),
           NEW a, NEW b, Planned(s, a, sort_n), Ordered(b, Lo(s[1]), Hi(s[1])),
           \A x \in Dom : x \notin Span(s[1]) => b[x] = a[x]
    PROVE  /\ Tail(s) \in Seq(Calls) /\ (\A p \in 1 .. Len(Tail(s)) : IsCall(Tail(s)[p]))
           /\ Planned(Tail(s), b, sort_n)
<1>1. /\ Len(s) \in Nat /\ Len(s) >= 1 /\ Tail(s) \in Seq(Calls)
      /\ Len(Tail(s)) = Len(s) - 1
      /\ \A q \in 1 .. Len(s) - 1 : Tail(s)[q] = s[q + 1]
  BY Popped
<1>2. \A p \in 1 .. Len(Tail(s)) : IsCall(Tail(s)[p])
  BY <1>1
<1>3. ASSUME NEW p \in 2 .. Len(s) + 1, NEW lo \in Int, NEW hi \in Int,
             lo .. hi \subseteq Dom,
             WillBe(s, p, lo, hi, a)
      PROVE  WillBe(Tail(s), p - 1, lo, hi, b)
  BY <1>3, WillPop
<1>4. \A p \in 1 .. Len(Tail(s)) : Tail(s)[p][1] = "merge" =>
         WillBe(Tail(s), p, Tail(s)[p][2], Tail(s)[p][3], b)
         /\ WillBe(Tail(s), p, Tail(s)[p][3] + 1, Tail(s)[p][4], b)
  <2> SUFFICES ASSUME NEW p \in 1 .. Len(Tail(s)), Tail(s)[p][1] = "merge"
               PROVE  WillBe(Tail(s), p, Tail(s)[p][2], Tail(s)[p][3], b)
                      /\ WillBe(Tail(s), p, Tail(s)[p][3] + 1, Tail(s)[p][4], b)
    OBVIOUS
  <2> DEFINE q == p + 1
  <2>1. q \in 2 .. Len(s) + 1 /\ q \in 1 .. Len(s) /\ q - 1 = p /\ Tail(s)[p] = s[q]
    BY <1>1
  <2> HIDE DEF q
  <2>2. /\ s[q][1] = "merge" /\ s[q][2] \in Int /\ s[q][3] \in Int /\ s[q][3] + 1 \in Int
        /\ s[q][4] \in Int
        /\ s[q][2] >= 0 /\ s[q][2] <= s[q][3] /\ s[q][3] < s[q][4] /\ s[q][4] < sort_n
    BY <2>1, CallFields
  <2>3. WillBe(s, q, s[q][2], s[q][3], a) /\ WillBe(s, q, s[q][3] + 1, s[q][4], a)
    BY <2>1, <2>2 DEF Planned
  <2>4. s[q][2] .. s[q][3] \subseteq Dom /\ s[q][3] + 1 .. s[q][4] \subseteq Dom
    BY <2>2, IndicesOf
  <2> QED
    BY <1>3, <2>1, <2>2, <2>3, <2>4
<1>5. WillBe(Tail(s), Len(Tail(s)) + 1, 0, sort_n - 1, b)
  <2>1. WillBe(s, Len(s) + 1, 0, sort_n - 1, a)
    BY DEF Planned
  <2>2. /\ Len(s) + 1 \in 2 .. Len(s) + 1 /\ (Len(s) + 1) - 1 = Len(Tail(s)) + 1
        /\ 0 \in Int /\ sort_n - 1 \in Int /\ 0 .. sort_n - 1 \subseteq Dom
    BY <1>1, Ints DEF Dom
  <2>3. WillBe(Tail(s), (Len(s) + 1) - 1, 0, sort_n - 1, b)
    BY <1>3, <2>1, <2>2
  <2> QED
    BY <2>2, <2>3
<1> QED
  BY <1>1, <1>2, <1>4, <1>5 DEF Planned

\* A merge that is complete has put its own elements in stable order and lost none.
LEMMA MergeDone ==
    ASSUME SortTypes, Permuted(Whole), KeepsTies(Whole), IsCall(Sort!Call),
           Sort!Call[1] = "merge",
           Merged(Sort!Call[2], Sort!Call[3], Sort!Call[4]), sort_k > Sort!Call[4]
    PROVE  /\ Permuted(sort_arr) /\ KeepsTies(sort_arr)
           /\ Ordered(sort_arr, Lo(Sort!Call), Hi(Sort!Call))
<1> USE Ints
<1> DEFINE lo == Sort!Call[2]
           mid == Sort!Call[3]
           hi == Sort!Call[4]
<1>1. /\ lo \in Int /\ mid \in Int /\ hi \in Int /\ 0 <= lo /\ lo <= mid /\ mid < hi
      /\ hi < sort_n
      /\ Lo(Sort!Call) = lo /\ Hi(Sort!Call) = hi /\ Span(Sort!Call) = lo .. hi
      /\ lo .. hi \subseteq Dom
  BY CallFields
<1> HIDE DEF lo, mid, hi
<1>2. Merged(lo, mid, hi) /\ sort_k > hi
  BY DEF lo, mid, hi
<1>3. sort_i = mid + 1 /\ sort_j = hi + 1 /\ sort_k - 1 = hi
  <2>1. /\ sort_i \in lo .. mid + 1 /\ sort_j \in mid + 1 .. hi + 1
        /\ sort_k = sort_i + (sort_j - mid - 1)
    BY <1>2 DEF Merged
  <2> QED
    BY <1>1, <1>2, <2>1
<1>4. Taken(lo, mid) = lo .. hi
  BY <1>1, <1>3 DEF Taken
<1>5. \A x \in Dom : Whole[x] = IF x \in lo .. hi THEN sort_tmp[x] ELSE sort_arr[x]
  BY <1>1 DEF Whole
<1>6. /\ \A x \in lo .. hi : \E y \in lo .. hi : sort_arr[x] = sort_tmp[y]
      /\ \A y \in lo .. hi : \E x \in lo .. hi : sort_arr[x] = sort_tmp[y]
      /\ Ordered(sort_arr, lo, hi)
  BY <1>2, <1>3, <1>4 DEF Merged
<1>7. \A x \in Dom : \E y \in Dom : sort_arr[x] = Whole[y]
  <2> SUFFICES ASSUME NEW x \in Dom PROVE \E y \in Dom : sort_arr[x] = Whole[y]
    OBVIOUS
  <2>1. CASE x \in lo .. hi
    <3>1. PICK y \in lo .. hi : sort_arr[x] = sort_tmp[y]
      BY <1>6, <2>1
    <3>2. y \in Dom /\ sort_arr[x] = Whole[y]
      BY <1>1, <1>5, <3>1
    <3> QED
      BY <3>2
  <2>2. CASE x \notin lo .. hi
    BY <1>5, <2>2
  <2> QED
    BY <2>1, <2>2
<1>8. \A y \in Dom : \E x \in Dom : sort_arr[x] = Whole[y]
  <2> SUFFICES ASSUME NEW y \in Dom PROVE \E x \in Dom : sort_arr[x] = Whole[y]
    OBVIOUS
  <2>1. CASE y \in lo .. hi
    <3>1. PICK x \in lo .. hi : sort_arr[x] = sort_tmp[y]
      BY <1>6, <2>1
    <3>2. x \in Dom /\ sort_arr[x] = Whole[y]
      BY <1>1, <1>5, <2>1, <3>1
    <3> QED
      BY <3>2
  <2>2. CASE y \notin lo .. hi
    BY <1>5, <2>2
  <2> QED
    BY <2>1, <2>2
<1>9. {sort_arr[x] : x \in Dom} = {Whole[x] : x \in Dom}
  <2>1. {sort_arr[x] : x \in Dom} \subseteq {Whole[x] : x \in Dom}
    BY <1>7
  <2>2. {Whole[x] : x \in Dom} \subseteq {sort_arr[x] : x \in Dom}
    BY <1>8
  <2> QED
    BY <2>1, <2>2
<1>10. Permuted(sort_arr)
  BY <1>9 DEF Permuted
<1>11. KeepsTies(sort_arr)
  <2> SUFFICES ASSUME NEW x \in Dom, NEW y \in Dom, x < y,
                      sort_arr[x].key = sort_arr[y].key
               PROVE  sort_arr[x].pos < sort_arr[y].pos
    BY DEF KeepsTies
  <2>1. \A u, v \in Dom : u < v /\ Whole[u].key = Whole[v].key =>
          Whole[u].pos < Whole[v].pos
    BY DEF KeepsTies
  <2>2. CASE x \in lo .. hi /\ y \in lo .. hi
    <3>1. Before(sort_arr[x], sort_arr[y])
      BY <1>6, <2>2 DEF Ordered
    <3> QED
      BY <3>1 DEF Before
  <2>3. CASE x \in lo .. hi /\ y \notin lo .. hi
    <3>1. PICK u \in lo .. hi : sort_arr[x] = sort_tmp[u]
      BY <1>6, <2>3
    <3>2. u \in Dom /\ u < y /\ Whole[u] = sort_arr[x] /\ Whole[y] = sort_arr[y]
      BY <1>1, <1>5, <2>3, <3>1
    <3> QED
      BY <2>1, <3>2
  <2>4. CASE x \notin lo .. hi /\ y \in lo .. hi
    <3>1. PICK u \in lo .. hi : sort_arr[y] = sort_tmp[u]
      BY <1>6, <2>4
    <3>2. u \in Dom /\ x < u /\ Whole[u] = sort_arr[y] /\ Whole[x] = sort_arr[x]
      BY <1>1, <1>5, <2>4, <3>1
    <3> QED
      BY <2>1, <3>2
  <2>5. CASE x \notin lo .. hi /\ y \notin lo .. hi
    BY <1>5, <2>1, <2>5
  <2> QED
    BY <2>2, <2>3, <2>4, <2>5
<1> QED
  BY <1>1, <1>6, <1>10, <1>11

\* Merge sort keeps its invariant.
LEMMA MergeStep ==
    ASSUME SortTypes, sort_alg = "merge", MergeInv, Sort!merge_sort,
           UNCHANGED <<sort_alg, sort_n, sort_arr0>>
    PROVE  SortTypes' /\ MergeInv'
<1> USE Ints
<1>0. /\ Dom' = Dom /\ sort_calls \in Seq(Calls)
      /\ \A p \in 1 .. Len(sort_calls) : IsCall(sort_calls[p])
  BY DEF Dom, SortTypes, MergeInv
<1>1. ASSUME sort_calls # <<>>
      PROVE  /\ Sort!Call = sort_calls[1] /\ IsCall(sort_calls[1])
             /\ Len(sort_calls) \in Nat /\ Len(sort_calls) >= 1
  BY <1>0, <1>1, Popped DEF Sort!Call
<1>2. ASSUME \A p \in 1 .. Len(sort_calls') : IsCall(sort_calls'[p])
      PROVE  (\A p \in 1 .. Len(sort_calls) : IsCall(sort_calls[p]))'
  BY <1>2 DEF IsCall
<1>3. CASE sort_pc = "call" /\ sort_calls = <<>>
  <2>1. /\ sort_pc' = "done"
        /\ UNCHANGED <<sort_calls, sort_i, sort_j, sort_k, sort_tmp, sort_arr,
                       sort_flag, sort_held>>
    BY <1>3 DEF Sort!merge_sort
  <2>2. SortTypes'
    BY <2>1, TypesKept DEF SortTypes
  <2>3. /\ Permuted(sort_arr) /\ KeepsTies(sort_arr)
        /\ Planned(sort_calls, sort_arr, sort_n)
    BY <1>3 DEF MergeInv
  <2>4. Permuted(sort_arr)' /\ KeepsTies(sort_arr)'
    BY <1>0, <2>1, <2>3 DEF Permuted, KeepsTies
  <2>5. Planned(sort_calls, sort_arr, sort_n)'
    BY <2>1, <2>3
  <2> QED
    BY <1>0, <1>2, <1>3, <2>1, <2>2, <2>4, <2>5 DEF MergeInv
<1>4. CASE sort_pc = "call" /\ sort_calls # <<>> /\ Sort!Call[1] = "sort"
  <2>1. /\ sort_calls' = (IF Sort!Call[3] >= Sort!Call[4] THEN Tail(sort_calls)
                     ELSE << <<"sort", 0, Sort!Call[3], Sort!Call[3] + ((Sort!Call[4] - Sort!Call[3]) \div 2)>>,
                             <<"sort", 0, Sort!Call[3] + ((Sort!Call[4] - Sort!Call[3]) \div 2) + 1, Sort!Call[4]>>,
                             <<"merge", Sort!Call[3], Sort!Call[3] + ((Sort!Call[4] - Sort!Call[3]) \div 2), Sort!Call[4]>> >> \o Tail(sort_calls))
        /\ UNCHANGED <<sort_pc, sort_i, sort_j, sort_k, sort_tmp, sort_arr,
                       sort_flag, sort_held>>
    BY <1>4 DEF Sort!merge_sort
  <2>2. /\ Sort!Call = sort_calls[1] /\ IsCall(sort_calls[1]) /\ sort_calls[1][1] = "sort"
        /\ Sort!Call[3] \in Int /\ Sort!Call[4] \in Int
        /\ Lo(sort_calls[1]) = Sort!Call[3] /\ Hi(sort_calls[1]) = Sort!Call[4]
    BY <1>1, <1>4, CallFields
  <2>3. /\ Permuted(sort_arr) /\ KeepsTies(sort_arr)
        /\ Planned(sort_calls, sort_arr, sort_n)
    BY <1>4 DEF MergeInv
  <2>4. /\ sort_calls' \in Seq(Calls)
        /\ (\A p \in 1 .. Len(sort_calls') : IsCall(sort_calls'[p]))
        /\ Planned(sort_calls', sort_arr, sort_n)
    <3>1. CASE Sort!Call[3] >= Sort!Call[4]
      <4>1. Ordered(sort_arr, Lo(sort_calls[1]), Hi(sort_calls[1]))
        BY <2>2, <3>1 DEF Ordered
      <4> QED
        BY <1>0, <1>4, <2>1, <2>3, <3>1, <4>1, PlanPop
    <3>2. CASE Sort!Call[3] < Sort!Call[4]
      <4> DEFINE mid == Sort!Call[3] + ((Sort!Call[4] - Sort!Call[3]) \div 2)
      <4>1. mid \in Int /\ Sort!Call[3] <= mid /\ mid < Sort!Call[4]
        BY <2>2, <3>2
      <4>3. ~(Sort!Call[3] >= Sort!Call[4])
        BY <2>2, <3>2
      <4>4. sort_calls' = << <<"sort", 0, Sort!Call[3], mid>>, <<"sort", 0, mid + 1, Sort!Call[4]>>,
                        <<"merge", Sort!Call[3], mid, Sort!Call[4]>> >> \o Tail(sort_calls)
        BY <2>1, <4>3, Zenon
      <4>2. sort_calls' = << <<"sort", 0, sort_calls[1][3], mid>>, <<"sort", 0, mid + 1, sort_calls[1][4]>>,
                        <<"merge", sort_calls[1][3], mid, sort_calls[1][4]>> >> \o Tail(sort_calls)
        BY <2>2, <4>4, Zenon
      <4> HIDE DEF mid
      <4> QED
        BY <1>0, <1>4, <2>2, <2>3, <3>2, <4>1, <4>2, MergeSplit
    <3> QED
      BY <2>2, <3>1, <3>2
  <2>5. SortTypes'
    BY <2>1, <2>4, TypesKept DEF SortTypes
  <2>6. Permuted(sort_arr)' /\ KeepsTies(sort_arr)'
    BY <1>0, <2>1, <2>3 DEF Permuted, KeepsTies
  <2>7. Planned(sort_calls, sort_arr, sort_n)'
    BY <2>1, <2>4
  <2> QED
    BY <1>2, <1>4, <2>1, <2>4, <2>5, <2>6, <2>7 DEF MergeInv
<1>5. CASE sort_pc = "call" /\ sort_calls # <<>> /\ Sort!Call[1] # "sort"
  <2>1. /\ sort_i' = Sort!Call[2] /\ sort_j' = Sort!Call[3] + 1 /\ sort_k' = Sort!Call[2]
        /\ sort_pc' = "merge"
        /\ sort_tmp' = [x \in DOMAIN sort_tmp |-> IF x \in Sort!Call[2] .. Sort!Call[4] THEN sort_arr[x] ELSE sort_tmp[x]]
        /\ UNCHANGED <<sort_calls, sort_arr, sort_flag, sort_held>>
    BY <1>5 DEF Sort!merge_sort
  <2>2. /\ Sort!Call = sort_calls[1] /\ IsCall(Sort!Call) /\ Sort!Call[1] = "merge"
        /\ Sort!Call[2] \in Int /\ Sort!Call[3] \in Int /\ Sort!Call[4] \in Int
        /\ Sort!Call[2] <= Sort!Call[3] /\ Sort!Call[3] < Sort!Call[4]
        /\ Span(Sort!Call) = Sort!Call[2] .. Sort!Call[4] /\ Sort!Call' = Sort!Call
    BY <1>1, <1>5, <2>1, CallFields DEF Sort!Call
  <2>3. /\ sort_tmp' \in [Dom -> Elements]
        /\ \A x \in Dom : x \in Span(Sort!Call) => sort_tmp'[x] = sort_arr[x]
    BY <2>1, <2>2 DEF SortTypes
  <2>4. SortTypes'
    BY <2>1, <2>2, <2>3, TypesKept, SMTT(30) DEF SortTypes
  <2>5. Whole' = sort_arr
    <3>1. Span(Sort!Call)' = Span(Sort!Call)
      BY <2>2 DEF Span, Lo, Hi
    <3>2. Whole' = [x \in Dom |-> IF x \in Span(Sort!Call) THEN sort_tmp'[x] ELSE sort_arr[x]]
      BY <1>0, <2>1, <3>1 DEF Whole
    <3>3. \A x \in Dom :
            (IF x \in Span(Sort!Call) THEN sort_tmp'[x] ELSE sort_arr[x]) = sort_arr[x]
      BY <2>3
    <3>4. sort_arr = [x \in Dom |-> sort_arr[x]]
      BY DEF SortTypes
    <3> QED
      BY <3>2, <3>3, <3>4
  <2>6. /\ Permuted(sort_arr) /\ KeepsTies(sort_arr)
        /\ Planned(sort_calls, sort_arr, sort_n)
    BY <1>5 DEF MergeInv
  <2>7. Permuted(Whole)' /\ KeepsTies(Whole)'
    BY <1>0, <2>1, <2>5, <2>6 DEF Permuted, KeepsTies
  <2>8. Planned(sort_calls, Whole, sort_n)'
    BY <2>1, <2>5, <2>6
  <2>9. Merged(Sort!Call[2], Sort!Call[3], Sort!Call[4])'
    <3>1. /\ Taken(Sort!Call[2], Sort!Call[3])' = {}
          /\ (Sort!Call[2] .. sort_k - 1)' = {}
      BY <2>1, <2>2, SMTT(30) DEF Taken
    <3>2. Ordered(sort_arr, Sort!Call[2], sort_k - 1)'
      BY <3>1 DEF Ordered
    <3>3. /\ (sort_i \in Sort!Call[2] .. Sort!Call[3] + 1 /\ sort_j \in Sort!Call[3] + 1 .. Sort!Call[4] + 1 /\ sort_k = sort_i + (sort_j - Sort!Call[3] - 1))'
      <4>1. /\ Sort!Call[2] \in Sort!Call[2] .. Sort!Call[3] + 1
            /\ Sort!Call[3] + 1 \in Sort!Call[3] + 1 .. Sort!Call[4] + 1
            /\ Sort!Call[2] = Sort!Call[2] + ((Sort!Call[3] + 1) - Sort!Call[3] - 1)
        BY <2>2, MergeStart, Zenon
      <4> QED
        BY <2>1, <2>2, <4>1, Zenon
    <3> QED
      BY <3>1, <3>2, <3>3 DEF Merged
  <2> QED
    BY <1>0, <1>2, <1>5, <2>1, <2>2, <2>4, <2>7, <2>8, <2>9 DEF MergeInv
<1>6. ASSUME sort_pc = "merge"
      PROVE  /\ sort_calls # <<>> /\ Sort!Call = sort_calls[1] /\ IsCall(Sort!Call)
             /\ Sort!Call[1] = "merge"
             /\ Permuted(Whole) /\ KeepsTies(Whole) /\ Planned(sort_calls, Whole, sort_n)
             /\ Merged(Sort!Call[2], Sort!Call[3], Sort!Call[4])
             /\ Sort!Call[2] \in Int /\ Sort!Call[3] \in Int /\ Sort!Call[4] \in Int
             /\ 0 <= Sort!Call[2]
             /\ Sort!Call[2] <= Sort!Call[3] /\ Sort!Call[3] < Sort!Call[4]
             /\ Sort!Call[4] < sort_n /\ Span(Sort!Call) = Sort!Call[2] .. Sort!Call[4]
             /\ Span(Sort!Call) \subseteq Dom
  <2>1. /\ sort_calls # <<>> /\ Sort!Call[1] = "merge" /\ Permuted(Whole)
        /\ KeepsTies(Whole) /\ Planned(sort_calls, Whole, sort_n)
        /\ Merged(Sort!Call[2], Sort!Call[3], Sort!Call[4])
    BY <1>6 DEF MergeInv
  <2>2. Sort!Call = sort_calls[1] /\ IsCall(Sort!Call)
    BY <1>1, <2>1
  <2> QED
    BY <2>1, <2>2, CallFields
<1>7. CASE sort_pc = "merge" /\ sort_k <= Sort!Call[4]
  <2>0. /\ sort_calls # <<>> /\ Sort!Call = sort_calls[1] /\ IsCall(Sort!Call)
        /\ Sort!Call[1] = "merge"
        /\ Permuted(Whole) /\ KeepsTies(Whole) /\ Planned(sort_calls, Whole, sort_n)
        /\ Merged(Sort!Call[2], Sort!Call[3], Sort!Call[4])
        /\ Sort!Call[2] \in Int /\ Sort!Call[3] \in Int /\ Sort!Call[4] \in Int
        /\ 0 <= Sort!Call[2]
        /\ Sort!Call[2] <= Sort!Call[3] /\ Sort!Call[3] < Sort!Call[4]
        /\ Sort!Call[4] < sort_n /\ Span(Sort!Call) = Sort!Call[2] .. Sort!Call[4]
        /\ Span(Sort!Call) \subseteq Dom
    BY <1>6, <1>7
  <2> USE <2>0, <1>7
  <2>1. /\ sort_k' = sort_k + 1
        /\ UNCHANGED <<sort_pc, sort_flag, sort_held, sort_tmp, sort_calls>>
        /\ Sort!Call' = Sort!Call
        /\ IF Sort!take_left
             THEN sort_arr' = [sort_arr EXCEPT ![sort_k] = sort_tmp[sort_i]] /\ sort_i' = sort_i + 1 /\ UNCHANGED sort_j
                        ELSE sort_arr' = [sort_arr EXCEPT ![sort_k] = sort_tmp[sort_j]] /\ sort_j' = sort_j + 1 /\ UNCHANGED sort_i
    BY DEF Sort!merge_sort, Sort!Call
  <2>2. /\ sort_i \in Sort!Call[2] .. Sort!Call[3] + 1
        /\ sort_j \in Sort!Call[3] + 1 .. Sort!Call[4] + 1
        /\ sort_k = sort_i + (sort_j - Sort!Call[3] - 1)
    BY DEF Merged
  <2>14. /\ sort_k \in Sort!Call[2] .. Sort!Call[4]
         /\ (sort_i <= Sort!Call[3] => sort_i \in Sort!Call[2] .. Sort!Call[4])
         /\ (sort_j <= Sort!Call[4] => sort_j \in Sort!Call[2] .. Sort!Call[4])
         /\ (sort_i <= Sort!Call[3] \/ sort_j <= Sort!Call[4])
    BY MergeIndices
  <2>3. /\ sort_k \in Span(Sort!Call) /\ sort_k \in Dom
        /\ (sort_i <= Sort!Call[3] => sort_i \in Dom)
        /\ (sort_j <= Sort!Call[4] => sort_j \in Dom)
    BY <2>14
  <2>4. /\ Ordered(Whole, Sort!Call[2], Sort!Call[3])
        /\ Ordered(Whole, Sort!Call[3] + 1, Sort!Call[4])
    <3>1. 1 \in 1 .. Len(sort_calls)
      BY <1>1
    <3>2. /\ WillBe(sort_calls, 1, Sort!Call[2], Sort!Call[3], Whole)
          /\ WillBe(sort_calls, 1, Sort!Call[3] + 1, Sort!Call[4], Whole)
      BY <3>1 DEF Planned
    <3> QED
      BY <3>2, WillNow
  <2>5. \A x \in Sort!Call[2] .. Sort!Call[4] : x \in Dom /\ Whole[x] = sort_tmp[x]
    BY DEF Whole
  <2>6. /\ Ordered(sort_tmp, Sort!Call[2], Sort!Call[3])
        /\ Ordered(sort_tmp, Sort!Call[3] + 1, Sort!Call[4])
    <3>1. \A x \in Sort!Call[2] .. Sort!Call[3] : x \in Sort!Call[2] .. Sort!Call[4]
      OBVIOUS
    <3>2. \A x \in Sort!Call[3] + 1 .. Sort!Call[4] : x \in Sort!Call[2] .. Sort!Call[4]
      OBVIOUS
    <3> QED
      BY <2>4, <2>5, <3>1, <3>2 DEF Ordered
  <2>7. \A x \in Sort!Call[2] .. Sort!Call[3], y \in Sort!Call[3] + 1 .. Sort!Call[4] :
          sort_tmp[x].key = sort_tmp[y].key => sort_tmp[x].pos < sort_tmp[y].pos
    <3> SUFFICES ASSUME NEW x \in Sort!Call[2] .. Sort!Call[3],
                        NEW y \in Sort!Call[3] + 1 .. Sort!Call[4],
                        sort_tmp[x].key = sort_tmp[y].key
                 PROVE  sort_tmp[x].pos < sort_tmp[y].pos
      OBVIOUS
    <3>1. /\ x < y /\ x \in Dom /\ y \in Dom /\ Whole[x] = sort_tmp[x]
          /\ Whole[y] = sort_tmp[y]
      <4>1. /\ x \in Sort!Call[2] .. Sort!Call[4]
            /\ y \in Sort!Call[2] .. Sort!Call[4] /\ x < y
        BY SMTT(30)
      <4> QED
        BY <2>5, <4>1
    <3> QED
      BY <3>1 DEF KeepsTies
  <2>8. Merged(Sort!Call[2], Sort!Call[3], Sort!Call[4])'
    <3> DEFINE lo == Sort!Call[2]
               mid == Sort!Call[3]
               hi == Sort!Call[4]
    <3>1. IF sort_i <= mid /\ (sort_j > hi \/ ~Sort!gt(sort_tmp[sort_i], sort_tmp[sort_j]))
          THEN sort_arr' = [sort_arr EXCEPT ![sort_k] = sort_tmp[sort_i]] /\ sort_i' = sort_i + 1 /\ UNCHANGED sort_j
          ELSE sort_arr' = [sort_arr EXCEPT ![sort_k] = sort_tmp[sort_j]] /\ sort_j' = sort_j + 1 /\ UNCHANGED sort_i
      BY <2>1 DEF Sort!take_left
    <3>2. lo' = lo /\ mid' = mid /\ hi' = hi
      BY <2>1
    <3>3. /\ lo \in Int /\ mid \in Int /\ hi \in Int /\ 0 <= lo /\ lo <= mid /\ mid < hi
          /\ hi < sort_n
          /\ Merged(lo, mid, hi) /\ sort_k <= hi /\ Ordered(sort_tmp, lo, mid)
          /\ Ordered(sort_tmp, mid + 1, hi)
          /\ \A x \in lo .. mid, y \in mid + 1 .. hi :
               sort_tmp[x].key = sort_tmp[y].key =>
               sort_tmp[x].pos < sort_tmp[y].pos
      BY <2>6, <2>7
    <3>4. ASSUME NEW a \in Int, NEW b \in Int, NEW c \in Int, a = lo, b = mid, c = hi
          PROVE  Merged(a, b, c)'
      BY <2>1, <3>1, <3>3, <3>4, MergeOne
    <3> QED
      BY <3>2, <3>3, <3>4
  <2>9. /\ sort_arr' \in [Dom -> Elements] /\ sort_i' \in Int /\ sort_j' \in Int
        /\ \A x \in Dom : x # sort_k => sort_arr'[x] = sort_arr[x]
    <3>1. CASE Sort!take_left
      <4>1. sort_tmp[sort_i] \in Elements
        BY <2>3, <3>1 DEF Sort!take_left, SortTypes
      <4> QED
        BY <2>1, <2>3, <3>1, <4>1, SMTT(30) DEF SortTypes
    <3>2. CASE ~Sort!take_left
      <4>1. sort_j <= Sort!Call[4]
        BY <2>14, <3>2 DEF Sort!take_left
      <4>2. sort_tmp[sort_j] \in Elements
        BY <2>3, <4>1 DEF SortTypes
      <4>3. /\ sort_arr' = [sort_arr EXCEPT ![sort_k] = sort_tmp[sort_j]]
            /\ sort_j' = sort_j + 1 /\ sort_i' = sort_i
        BY <2>1, <3>2
      <4> QED
        BY <2>3, <4>2, <4>3 DEF SortTypes
    <3> QED
      BY <3>1, <3>2
  <2>10. SortTypes'
    BY <2>1, <2>9, TypesKept, SMTT(30) DEF SortTypes
  <2>11. Whole' = Whole
    <3>1. Span(Sort!Call)' = Span(Sort!Call)
      BY <2>1 DEF Span, Lo, Hi
    <3>2. Whole' = [x \in Dom |-> IF x \in Span(Sort!Call) THEN sort_tmp[x] ELSE sort_arr'[x]]
      BY <1>0, <2>1, <3>1 DEF Whole
    <3>3. \A x \in Dom :
            (IF x \in Span(Sort!Call) THEN sort_tmp[x] ELSE sort_arr'[x]) = IF x \in Span(Sort!Call) THEN sort_tmp[x] ELSE sort_arr[x]
      BY <2>3, <2>9
    <3> QED
      BY <3>2, <3>3 DEF Whole
  <2>12. Permuted(Whole)' /\ KeepsTies(Whole)'
    BY <1>0, <2>11 DEF Permuted, KeepsTies
  <2>13. Planned(sort_calls, Whole, sort_n)'
    BY <2>1, <2>11
  <2> QED
    BY <1>0, <1>2, <2>1, <2>8, <2>10, <2>12, <2>13 DEF MergeInv
<1>8. CASE sort_pc = "merge" /\ sort_k > Sort!Call[4]
  <2>0. /\ sort_calls # <<>> /\ Sort!Call = sort_calls[1] /\ IsCall(Sort!Call)
        /\ Sort!Call[1] = "merge"
        /\ Permuted(Whole) /\ KeepsTies(Whole) /\ Planned(sort_calls, Whole, sort_n)
        /\ Merged(Sort!Call[2], Sort!Call[3], Sort!Call[4])
        /\ Sort!Call[2] \in Int /\ Sort!Call[3] \in Int /\ Sort!Call[4] \in Int
        /\ 0 <= Sort!Call[2]
        /\ Sort!Call[2] <= Sort!Call[3] /\ Sort!Call[3] < Sort!Call[4]
        /\ Sort!Call[4] < sort_n /\ Span(Sort!Call) = Sort!Call[2] .. Sort!Call[4]
        /\ Span(Sort!Call) \subseteq Dom
    BY <1>6, <1>8
  <2> USE <2>0, <1>8
  <2>1. /\ sort_pc' = "call" /\ sort_calls' = Tail(sort_calls)
        /\ UNCHANGED <<sort_arr, sort_i, sort_j, sort_k, sort_flag, sort_held,
                       sort_tmp>>
    BY DEF Sort!merge_sort
  <2>2. /\ Permuted(sort_arr) /\ KeepsTies(sort_arr)
        /\ Ordered(sort_arr, Lo(sort_calls[1]), Hi(sort_calls[1]))
    BY MergeDone
  <2>3. \A x \in Dom : x \notin Span(sort_calls[1]) => sort_arr[x] = Whole[x]
    BY DEF Whole
  <2>4. /\ sort_calls' \in Seq(Calls)
        /\ (\A p \in 1 .. Len(sort_calls') : IsCall(sort_calls'[p]))
        /\ Planned(sort_calls', sort_arr, sort_n)
    BY ZenonT(60), <1>0, <2>1, <2>2, <2>3, PlanPop
  <2>5. SortTypes'
    BY <2>1, <2>4, TypesKept DEF SortTypes
  <2>6. Permuted(sort_arr)' /\ KeepsTies(sort_arr)'
    <3>1. sort_arr' = sort_arr /\ sort_arr0' = sort_arr0 /\ Dom' = Dom
      BY <1>0, <2>1
    <3> QED
      BY <2>2, <3>1, ArrayKept
  <2>7. Planned(sort_calls, sort_arr, sort_n)'
    BY <2>1, <2>4
  <2> QED
    BY <1>2, <2>1, <2>4, <2>5, <2>6, <2>7 DEF MergeInv
<1> QED
  BY <1>3, <1>4, <1>5, <1>7, <1>8 DEF Sort!merge_sort

-----------------------------------------------------------------------------
\* b rearranges a inside the part of call c.
Within(b, a, c) ==
    \A z \in Dom : \E u \in Dom : /\ b[z] = a[u]
                                  /\ z \in Span(c) => u \in Span(c)
                                  /\ z \notin Span(c) => u = z

\* A swap of two elements of the part is such a rearrangement.
LEMMA WithinSwap ==
    ASSUME SortTypes, NEW a \in [Dom -> Elements], NEW c, NEW x \in Dom, NEW y \in Dom,
           x \in Span(c), y \in Span(c), Permuted(a)
    PROVE  Within(Sort!swap(a, x, y), a, c)
<1>1. /\ Sort!swap(a, x, y)[x] = a[y] /\ Sort!swap(a, x, y)[y] = a[x]
      /\ \A z \in Dom : z # x /\ z # y => Sort!swap(a, x, y)[z] = a[z]
  BY SwapPermutes
<1> SUFFICES ASSUME NEW z \in Dom
             PROVE  \E u \in Dom : /\ Sort!swap(a, x, y)[z] = a[u]
                                   /\ z \in Span(c) => u \in Span(c)
                                   /\ z \notin Span(c) => u = z
  BY DEF Within
<1>2. CASE z = x
  BY <1>1, <1>2
<1>3. CASE z = y
  BY <1>1, <1>3
<1>4. CASE z # x /\ z # y
  BY <1>1, <1>4
<1> QED
  BY <1>2, <1>3, <1>4

\* So is one after another,
LEMMA WithinTwice ==
    ASSUME NEW a, NEW b, NEW d, NEW c, Within(b, a, c), Within(d, b, c)
    PROVE  Within(d, a, c)
<1> SUFFICES ASSUME NEW z \in Dom
             PROVE  \E u \in Dom : /\ d[z] = a[u]
                                   /\ z \in Span(c) => u \in Span(c)
                                   /\ z \notin Span(c) => u = z
  BY DEF Within
<1>1. PICK v \in Dom :
        d[z] = b[v] /\ (z \in Span(c) => v \in Span(c)) /\ (z \notin Span(c) => v = z)
  BY DEF Within
<1>2. PICK u \in Dom :
        b[v] = a[u] /\ (v \in Span(c) => u \in Span(c)) /\ (v \notin Span(c) => u = v)
  BY DEF Within
<1> QED
  BY <1>1, <1>2

\* and none at all.
LEMMA WithinNone == ASSUME NEW a, NEW c PROVE Within(a, a, c)
  BY DEF Within

\* Rearranging one part leaves the others, and how the parts compare.
LEMMA PartedWithin ==
    ASSUME SortTypes, NEW s \in Seq(Calls), s # <<>>, \A p \in 1 .. Len(s) : IsCall(s[p]),
           Apart(s),
           NEW a \in [Dom -> Elements], NEW b, Within(b, a, s[1]), Parted(s, a)
    PROVE  Parted(s, b)
<1> SUFFICES ASSUME NEW x \in Dom, NEW y \in Dom, x < y,
                    ~(\E q \in 1 .. Len(s) : x \in Span(s[q]) /\ y \in Span(s[q]))
             PROVE  b[x].key <= b[y].key
  BY DEF Parted
<1>1. 1 \in 1 .. Len(s) /\ IsCall(s[1])
  BY Popped
<1>2. Span(s[1]) = Lo(s[1]) .. s[1][4] /\ Lo(s[1]) \in Int /\ s[1][4] \in Int
  BY <1>1, CallFields
<1>3. PICK u \in Dom :
        b[x] = a[u] /\ (x \in Span(s[1]) => u \in Span(s[1])) /\ (x \notin Span(s[1]) => u = x)
  BY DEF Within
<1>4. PICK v \in Dom :
        b[y] = a[v] /\ (y \in Span(s[1]) => v \in Span(s[1])) /\ (y \notin Span(s[1]) => v = y)
  BY DEF Within
<1>5. ~(x \in Span(s[1]) /\ y \in Span(s[1]))
  BY <1>1
<1>6. u < v
  <2>1. CASE x \in Span(s[1])
    <3>1. v = y /\ u \in Span(s[1]) /\ y \notin Span(s[1])
      BY <1>3, <1>4, <1>5, <2>1
    <3> QED
      BY <1>2, <2>1, <3>1, Ints
  <2>2. CASE y \in Span(s[1])
    <3>1. u = x /\ v \in Span(s[1]) /\ x \notin Span(s[1])
      BY <1>3, <1>4, <1>5, <2>2
    <3> QED
      BY <1>2, <2>2, <3>1, Ints
  <2>3. CASE x \notin Span(s[1]) /\ y \notin Span(s[1])
    BY <1>3, <1>4, <2>3
  <2> QED
    BY <2>1, <2>2, <2>3
<1>7. ASSUME NEW q \in 1 .. Len(s), u \in Span(s[q]), v \in Span(s[q]) PROVE FALSE
  <2>1. CASE q = 1
    BY <1>3, <1>4, <1>7, <2>1, <1>5
  <2>2. CASE q # 1
    <3>1. Span(s[q]) \cap Span(s[1]) = {}
      BY <1>1, <2>2 DEF Apart
    <3>2. u \notin Span(s[1]) /\ v \notin Span(s[1])
      BY <1>7, <3>1
    <3>3. u = x /\ v = y
      BY <1>3, <1>4, <3>2
    <3> QED
      BY <1>7, <3>3
  <2> QED
    BY <2>1, <2>2
<1>8. a[u].key <= a[v].key
  BY <1>6, <1>7 DEF Parted
<1> QED
  BY <1>3, <1>4, <1>8

\* The stack holds calls of quick_sort only.
AllSorts(s) == \A q \in 1 .. Len(s) : IsCall(s[q]) /\ s[q][1] = "sort"

\* p stands between the smaller and the larger elements of lo .. hi.
Pivot(a, lo, p, hi) ==
    /\ \A x \in lo .. p : a[x].key <= a[p].key
    /\ \A x \in p .. hi : a[p].key <= a[x].key

\* With p between smaller and larger elements, the two sides are parts of their own.
LEMMA PartedSplit ==
    ASSUME SortTypes, NEW s \in Seq(Calls), s # <<>>, AllSorts(s),
           Apart(s), NEW a \in [Dom -> Elements], Parted(s, a),
           NEW p \in Int, s[1][3] <= p, p <= s[1][4], Pivot(a, s[1][3], p, s[1][4]),
           NEW t,
           t = << <<"sort", 0, s[1][3], p - 1>>, <<"sort", 0, p + 1, s[1][4]>> >> \o Tail(s)
    PROVE  t \in Seq(Calls) /\ AllSorts(t) /\ Apart(t) /\ Parted(t, a)
<1> DEFINE lo == s[1][3]
           hi == s[1][4]
           pl == p - 1
           pr == p + 1
           c1 == <<"sort", 0, lo, pl>>
           c2 == <<"sort", 0, pr, hi>>
<1>1. /\ Len(s) \in Nat /\ Len(s) >= 1 /\ 1 \in 1 .. Len(s) /\ IsCall(s[1])
      /\ s[1][1] = "sort"
  <2>1. Len(s) \in Nat /\ Len(s) >= 1
    BY Popped
  <2>2. 1 \in 1 .. Len(s)
    BY <2>1
  <2> QED
    BY <2>1, <2>2 DEF AllSorts
<1>2. /\ lo \in Int /\ hi \in Int /\ lo >= 0 /\ hi < sort_n /\ lo <= p /\ p <= hi
      /\ Span(s[1]) = lo .. hi /\ lo .. hi \subseteq Dom
  BY <1>1, CallFields
<1>a. pl \in Int /\ pr \in Int /\ pl = p - 1 /\ pr = p + 1
  OBVIOUS
<1> HIDE DEF lo, hi, pl, pr
<1>3. c1 \in Calls /\ c2 \in Calls
  <2>1. 0 \in Int
    OBVIOUS
  <2> QED
    BY <1>2, <1>a, <2>1, CallTuple
<1>4. /\ c1[1] = "sort" /\ c1[3] = lo /\ c1[4] = pl
      /\ c2[1] = "sort" /\ c2[3] = pr /\ c2[4] = hi
  OBVIOUS
<1> HIDE DEF c1, c2
<1>5. IsCall(c1) /\ IsCall(c2)
  BY <1>2, <1>3, <1>4, <1>a, Ints DEF IsCall, Lo, Hi
<1>6. /\ t \in Seq(Calls) /\ Len(t) = Len(s) + 1 /\ t[1] = c1 /\ t[2] = c2
      /\ \A q \in 2 .. Len(s) : t[q + 1] = s[q]
  BY <1>3, Pushed2 DEF lo, hi, pl, pr, c1, c2
<1>7. Span(t[1]) = lo .. pl /\ Span(t[2]) = pr .. hi
  BY <1>4, <1>6 DEF Span, Lo, Hi
<1>8. t[1][1] = "sort" /\ t[2][1] = "sort" /\ IsCall(t[1]) /\ IsCall(t[2])
  BY <1>4, <1>5, <1>6
<1>9. \A q \in 1 .. Len(t) :
        q = 1 \/ q = 2 \/ (q - 1 \in 2 .. Len(s) /\ q - 1 \in 1 .. Len(s) /\ t[q] = s[q - 1])
  <2> SUFFICES ASSUME NEW q \in 1 .. Len(t), q > 2
               PROVE  q - 1 \in 2 .. Len(s) /\ q - 1 \in 1 .. Len(s) /\ t[q] = s[q - 1]
    BY <1>1, <1>6
  <2>1. q - 1 \in 2 .. Len(s) /\ q - 1 \in 1 .. Len(s) /\ (q - 1) + 1 = q
    BY <1>1, <1>6
  <2> QED
    BY <1>6, <2>1
<1>10. AllSorts(t)
  BY <1>8, <1>9 DEF AllSorts
<1>11. /\ Span(t[1]) \subseteq Span(s[1]) /\ Span(t[2]) \subseteq Span(s[1])
       /\ Span(t[1]) \cap Span(t[2]) = {}
  <2>1. /\ lo .. pl \subseteq lo .. hi /\ pr .. hi \subseteq lo .. hi
        /\ (lo .. pl) \cap (pr .. hi) = {}
    BY <1>2, <1>a
  <2> QED
    BY <1>2, <1>7, <2>1, Zenon
<1>12. ASSUME NEW q \in 2 .. Len(s) PROVE Span(s[q]) \cap Span(s[1]) = {}
  <2>1. q \in 1 .. Len(s) /\ q # 1
    BY <1>1
  <2> QED
    BY <1>1, <2>1 DEF Apart
<1>13. Apart(t)
  <2>1. ASSUME NEW q \in 1 .. Len(t), NEW r \in 1 .. Len(t), q # r
        PROVE  Span(t[q]) \cap Span(t[r]) = {}
    <3>1. CASE q \in {1, 2} /\ r \in {1, 2}
      <4>1. (q = 1 /\ r = 2) \/ (q = 2 /\ r = 1)
        BY <2>1, <3>1
      <4> QED
        BY <1>11, <4>1
    <3>2. CASE q \in {1, 2} /\ r \notin {1, 2}
      <4>1. r - 1 \in 2 .. Len(s) /\ t[r] = s[r - 1]
        BY <1>9, <3>2
      <4>2. Span(t[q]) \subseteq Span(s[1]) /\ Span(s[r - 1]) \cap Span(s[1]) = {}
        BY <1>11, <1>12, <3>2, <4>1
      <4> QED
        BY <4>1, <4>2
    <3>3. CASE q \notin {1, 2} /\ r \in {1, 2}
      <4>1. q - 1 \in 2 .. Len(s) /\ t[q] = s[q - 1]
        BY <1>9, <3>3
      <4>2. Span(t[r]) \subseteq Span(s[1]) /\ Span(s[q - 1]) \cap Span(s[1]) = {}
        BY <1>11, <1>12, <3>3, <4>1
      <4> QED
        BY <4>1, <4>2
    <3>4. CASE q \notin {1, 2} /\ r \notin {1, 2}
      <4>1. /\ r - 1 \in 1 .. Len(s) /\ t[r] = s[r - 1] /\ q - 1 \in 1 .. Len(s)
            /\ t[q] = s[q - 1]
        BY <1>9, <3>4
      <4>2. q - 1 # r - 1
        BY <1>6, <2>1
      <4>3. Span(s[q - 1]) \cap Span(s[r - 1]) = {}
        BY <4>1, <4>2 DEF Apart
      <4> QED
        BY <4>1, <4>3
    <3> QED
      BY <3>1, <3>2, <3>3, <3>4
  <2> QED
    BY <2>1 DEF Apart
<1>14. Parted(t, a)
  <2> SUFFICES ASSUME NEW x \in Dom, NEW y \in Dom, x < y,
                      ~(\E q \in 1 .. Len(t) : x \in Span(t[q]) /\ y \in Span(t[q]))
               PROVE  a[x].key <= a[y].key
    BY DEF Parted
  <2>1. CASE x \in lo .. hi /\ y \in lo .. hi
    <3>a. 1 \in 1 .. Len(t) /\ 2 \in 1 .. Len(t)
      BY <1>1, <1>6
    <3>1. ~(x \in lo .. pl /\ y \in lo .. pl) /\ ~(x \in pr .. hi /\ y \in pr .. hi)
      BY <1>7, <3>a
    <3>2. x <= p /\ p <= y /\ x \in lo .. p /\ y \in p .. hi
      <4>1. x \in Int /\ y \in Int
        BY Ints
      <4>2. x <= p
        BY <1>2, <2>1, <3>1, <1>a, <4>1
      <4>3. p <= y
        BY <1>2, <2>1, <3>1, <1>a, <4>1
      <4> QED
        BY <1>2, <2>1, <4>1, <4>2, <4>3
    <3>3. a[x].key <= a[p].key /\ a[p].key <= a[y].key
      BY <3>2 DEF Pivot, lo, hi
    <3>b. p \in Dom
      BY <1>2
    <3>4. a[x] \in Elements /\ a[p] \in Elements /\ a[y] \in Elements
      BY <3>b
    <3>5. a[x].key \in Int /\ a[p].key \in Int /\ a[y].key \in Int
      BY <3>4 DEF Elements
    <3> QED
      BY <3>3, <3>5, SMTT(30)
  <2>2. CASE ~(x \in lo .. hi /\ y \in lo .. hi)
    <3>1. ASSUME NEW q \in 1 .. Len(s), x \in Span(s[q]), y \in Span(s[q]) PROVE FALSE
      <4>1. q # 1
        BY <1>2, <2>2, <3>1
      <4>2. q + 1 \in 1 .. Len(t) /\ t[q + 1] = s[q]
        BY <1>1, <1>6, <4>1
      <4> QED
        BY <3>1, <4>2
    <3> QED
      BY <3>1 DEF Parted
  <2> QED
    BY <2>1, <2>2
<1> QED
  BY <1>6, <1>10, <1>13, <1>14

\* The step of median_of_three: two elements put in order.
LEMMA CondSwap ==
    ASSUME SortTypes, NEW a \in [Dom -> Elements], Permuted(a), NEW c, NEW x \in Dom,
           NEW y \in Dom,
           x # y, x \in Span(c), y \in Span(c), NEW b,
           b = IF Sort!gt(a[x], a[y]) THEN Sort!swap(a, x, y) ELSE a
    PROVE  /\ b \in [Dom -> Elements] /\ Permuted(b) /\ Within(b, a, c)
           /\ b[x].key <= b[y].key /\ b[x].key <= a[x].key
           /\ (b[x] = a[x] /\ b[y] = a[y]) \/ (b[x] = a[y] /\ b[y] = a[x])
           /\ \A z \in Dom : z # x /\ z # y => b[z] = a[z]
<1>1. a[x].key \in Int /\ a[y].key \in Int
  BY DEF Elements
<1>2. CASE Sort!gt(a[x], a[y])
  <2>1. b = Sort!swap(a, x, y)
    BY <1>2
  <2>2. /\ b \in [Dom -> Elements] /\ Permuted(b) /\ b[x] = a[y] /\ b[y] = a[x]
        /\ \A z \in Dom : z # x /\ z # y => b[z] = a[z]
    BY <2>1, SwapPermutes
  <2>3. Within(b, a, c)
    BY <2>1, WithinSwap
  <2>4. a[x].key > a[y].key
    BY <1>2 DEF Sort!gt
  <2>5. b[x].key <= b[y].key /\ b[x].key <= a[x].key
    BY <1>1, <2>2, <2>4
  <2> QED
    BY <2>2, <2>3, <2>5
<1>3. CASE ~Sort!gt(a[x], a[y])
  <2>1. b = a
    BY <1>3
  <2>2. a[x].key <= a[y].key
    BY <1>1, <1>3 DEF Sort!gt
  <2>3. Within(b, a, c)
    BY <2>1, WithinNone
  <2>4. a[x].key <= a[x].key
    BY <1>1
  <2> QED
    BY <2>1, <2>2, <2>3, <2>4
<1> QED
  BY <1>2, <1>3

\* median_of_three rearranges the part, and leaves the pivot between its two ends.
LEMMA MedianOfThree ==
    ASSUME SortTypes, NEW a \in [Dom -> Elements], Permuted(a), NEW c, IsCall(c),
           c[1] = "sort",
           c[4] - c[3] >= 2, NEW b, b = Sort!median_of_three(a, c[3], c[4])
    PROVE  /\ b \in [Dom -> Elements] /\ Permuted(b) /\ Within(b, a, c)
           /\ b[c[3]].key <= b[c[4] - 1].key /\ b[c[4] - 1].key <= b[c[4]].key
<1> DEFINE lo == c[3]
           hi == c[4]
           mid == lo + ((hi - lo) \div 2)
           s1 == IF Sort!gt(a[lo], a[mid]) THEN Sort!swap(a, lo, mid) ELSE a
           s2 == IF Sort!gt(s1[lo], s1[hi]) THEN Sort!swap(s1, lo, hi) ELSE s1
           s3 == IF Sort!gt(s2[mid], s2[hi]) THEN Sort!swap(s2, mid, hi) ELSE s2
           pv == hi - 1
<1>1. b = Sort!swap(s3, mid, pv)
  BY DEF Sort!median_of_three
<1>2. /\ lo \in Int /\ hi \in Int /\ hi - lo >= 2 /\ lo .. hi = Span(c)
      /\ Span(c) \subseteq Dom
  BY CallFields
<1> HIDE DEF lo, hi
<1>3. mid \in Int /\ lo < mid /\ mid < hi
  BY <1>2
<1> HIDE DEF mid
<1>4. pv \in Int /\ lo < pv /\ pv < hi
  BY <1>2
<1> HIDE DEF pv
<1>5. lo \in lo .. hi /\ mid \in lo .. hi /\ hi \in lo .. hi /\ pv \in lo .. hi
  BY <1>2, <1>3, <1>4
<1>6. /\ lo \in Span(c) /\ mid \in Span(c) /\ hi \in Span(c) /\ pv \in Span(c)
      /\ lo \in Dom /\ mid \in Dom /\ hi \in Dom /\ pv \in Dom
  BY <1>2, <1>5
<1>7. lo # mid /\ lo # hi /\ mid # hi /\ lo # pv /\ hi # pv
  BY <1>2, <1>3, <1>4
<1>8. /\ s1 \in [Dom -> Elements] /\ Permuted(s1) /\ Within(s1, a, c)
      /\ s1[lo].key <= s1[mid].key
  BY <1>6, <1>7, CondSwap
<1> HIDE DEF s1
<1>9. /\ s2 \in [Dom -> Elements] /\ Permuted(s2) /\ Within(s2, s1, c)
      /\ s2[lo].key <= s2[hi].key /\ s2[lo].key <= s1[lo].key /\ s2[mid] = s1[mid]
  BY <1>6, <1>7, <1>8, CondSwap
<1> HIDE DEF s2
<1>10. /\ s3 \in [Dom -> Elements] /\ Permuted(s3) /\ Within(s3, s2, c)
       /\ s3[mid].key <= s3[hi].key /\ s3[lo] = s2[lo]
       /\ s3[mid] = s2[mid] \/ s3[mid] = s2[hi]
  BY <1>6, <1>7, <1>9, CondSwap, SMTT(30)
<1> HIDE DEF s3
<1>11. /\ b \in [Dom -> Elements] /\ Permuted(b) /\ Within(b, s3, c)
       /\ b[pv] = s3[mid] /\ b[lo] = s3[lo] /\ b[hi] = s3[hi]
  <2>1. /\ b \in [Dom -> Elements] /\ Permuted(b) /\ b[pv] = s3[mid]
        /\ \A z \in Dom : z # mid /\ z # pv => b[z] = s3[z]
    BY <1>1, <1>6, <1>10, SwapPermutes
  <2>2. Within(b, s3, c)
    BY <1>1, <1>6, <1>10, WithinSwap
  <2> QED
    BY <1>6, <1>7, <2>1, <2>2
<1>12. Within(b, a, c)
  BY <1>8, <1>9, <1>10, <1>11, WithinTwice
<1>13. /\ s1[lo].key \in Int /\ s1[mid].key \in Int /\ s2[lo].key \in Int
       /\ s2[mid].key \in Int /\ s2[hi].key \in Int
  BY <1>6, <1>8, <1>9 DEF Elements
<1>14. s2[lo].key <= s2[mid].key
  BY <1>8, <1>9, <1>13
<1>15. s3[lo].key <= s3[mid].key
  BY <1>9, <1>10, <1>14
<1>16. b[lo].key <= b[pv].key /\ b[pv].key <= b[hi].key
  BY <1>10, <1>11, <1>15
<1> QED
  BY <1>11, <1>12, <1>16 DEF lo, hi, pv

\* A part of at most one element is sorted: the call returns.
LEMMA PartedPop ==
    ASSUME SortTypes, NEW s \in Seq(Calls), s # <<>>, AllSorts(s), Apart(s),
           NEW a, Parted(s, a), s[1][3] >= s[1][4]
    PROVE  /\ Tail(s) \in Seq(Calls) /\ AllSorts(Tail(s)) /\ Apart(Tail(s))
           /\ Parted(Tail(s), a)
<1> DEFINE t == Tail(s)
<1>1. /\ Len(s) \in Nat /\ Len(s) >= 1 /\ t \in Seq(Calls) /\ Len(t) = Len(s) - 1
      /\ \A q \in 1 .. Len(s) - 1 : t[q] = s[q + 1]
  BY Popped
<1> HIDE DEF t
<1>2. \A q \in 1 .. Len(t) : q + 1 \in 1 .. Len(s) /\ t[q] = s[q + 1]
  BY <1>1
<1>3. AllSorts(t)
  BY <1>2 DEF AllSorts
<1>4. Apart(t)
  <2> SUFFICES ASSUME NEW q \in 1 .. Len(t), NEW r \in 1 .. Len(t), q # r
               PROVE  Span(t[q]) \cap Span(t[r]) = {}
    BY DEF Apart
  <2>1. q + 1 # r + 1
    BY <1>1
  <2> QED
    BY <1>2, <2>1 DEF Apart
<1>5. Parted(t, a)
  <2> SUFFICES ASSUME NEW x \in Dom, NEW y \in Dom, x < y,
                      ~(\E q \in 1 .. Len(t) : x \in Span(t[q]) /\ y \in Span(t[q]))
               PROVE  a[x].key <= a[y].key
    BY DEF Parted
  <2>1. ASSUME NEW q \in 1 .. Len(s), x \in Span(s[q]), y \in Span(s[q]) PROVE FALSE
    <3>1. CASE q = 1
      <4>1. IsCall(s[1]) /\ s[1][1] = "sort"
        BY <1>1 DEF AllSorts
      <4>2. /\ x \in s[1][3] .. s[1][4] /\ y \in s[1][3] .. s[1][4]
            /\ s[1][3] \in Int /\ s[1][4] \in Int
        BY <2>1, <3>1, <4>1, CallFields
      <4> QED
        BY <4>2
    <3>2. CASE q # 1
      <4>1. q - 1 \in 1 .. Len(t) /\ (q - 1) + 1 = q
        BY <1>1, <3>2
      <4>2. t[q - 1] = s[q]
        BY <1>2, <4>1
      <4> QED
        BY <2>1, <4>1, <4>2
    <3> QED
      BY <3>1, <3>2
  <2> QED
    BY <2>1 DEF Parted
<1> QED
  BY <1>1, <1>3, <1>4, <1>5 DEF t
-----------------------------------------------------------------------------
\* The invariant of quicksort, from facts about the next state.
LEMMA QuickKept ==
    ASSUME SortTypes, UNCHANGED <<sort_alg, sort_n, sort_arr0>>,
           AllSorts(sort_calls'), Permuted(sort_arr'), Parted(sort_calls', sort_arr'),
           Apart(sort_calls')
    PROVE  /\ (\A p \in 1 .. Len(sort_calls) : IsCall(sort_calls[p]) /\ sort_calls[p][1] = "sort")'
           /\ Permuted(sort_arr)' /\ Parted(sort_calls, sort_arr)' /\ Apart(sort_calls)'
<1>1. Dom' = Dom
  BY DEF Dom
<1>2. (\A p \in 1 .. Len(sort_calls) : IsCall(sort_calls[p]) /\ sort_calls[p][1] = "sort")'
  BY DEF AllSorts, IsCall
<1>3. Permuted(sort_arr)'
  BY <1>1 DEF Permuted
<1>4. Parted(sort_calls, sort_arr)'
  BY <1>1 DEF Parted
<1>5. Apart(sort_calls)'
  BY DEF Apart
<1> QED
  BY <1>2, <1>3, <1>4, <1>5

\* What the invariant says of the call on top.
LEMMA QuickTop ==
    ASSUME SortTypes, QuickInv, sort_calls # <<>>
    PROVE  /\ Sort!Call = sort_calls[1] /\ IsCall(Sort!Call) /\ Sort!Call[1] = "sort"
           /\ Sort!Call[3] \in Int /\ Sort!Call[4] \in Int /\ Sort!Call[3] >= 0
           /\ Sort!Call[4] < sort_n
           /\ Span(Sort!Call) = Sort!Call[3] .. Sort!Call[4]
           /\ Sort!Call[3] .. Sort!Call[4] \subseteq Dom
           /\ \A x \in Sort!Call[3] .. Sort!Call[4] :
                x \in Dom /\ x \in Int /\ sort_arr[x].key \in Int
<1>1. sort_calls \in Seq(Calls)
  BY DEF SortTypes
<1>2. Sort!Call = sort_calls[1] /\ 1 \in 1 .. Len(sort_calls)
  BY <1>1, Popped DEF Sort!Call
<1>3. IsCall(Sort!Call) /\ Sort!Call[1] = "sort"
  BY <1>2 DEF QuickInv
<1>4. /\ Sort!Call[3] \in Int /\ Sort!Call[4] \in Int /\ Sort!Call[3] >= 0
      /\ Sort!Call[4] < sort_n
      /\ Span(Sort!Call) = Sort!Call[3] .. Sort!Call[4]
      /\ Sort!Call[3] .. Sort!Call[4] \subseteq Dom
  BY <1>3, CallFields
<1> QED
  BY <1>2, <1>3, <1>4, Ints

\* partition of two elements, and what quick_sort does next with a finished partition.
LEMMA QuickDone ==
    ASSUME SortTypes,
           UNCHANGED <<sort_alg, sort_n, sort_arr0, sort_k, sort_flag, sort_held, sort_tmp>>, QuickInv, sort_calls # <<>>,
           sort_arr' \in [Dom -> Elements], Permuted(sort_arr'),
           Within(sort_arr', sort_arr, Sort!Call), sort_i' \in Int, sort_j' \in Int,
           NEW p \in Int, Sort!Call[3] <= p, p <= Sort!Call[4],
           Pivot(sort_arr', Sort!Call[3], p, Sort!Call[4]), Sort!partition_done(p)
    PROVE  SortTypes' /\ QuickInv'
<1>1. /\ sort_calls \in Seq(Calls) /\ AllSorts(sort_calls) /\ Apart(sort_calls)
      /\ Parted(sort_calls, sort_arr) /\ sort_arr \in [Dom -> Elements]
  BY DEF SortTypes, QuickInv, AllSorts
<1>2. Sort!Call = sort_calls[1]
  BY QuickTop
<1>3. /\ sort_calls' = << <<"sort", 0, sort_calls[1][3], p - 1>>, <<"sort", 0, p + 1, sort_calls[1][4]>> >> \o Tail(sort_calls)
      /\ sort_pc' = "call"
  BY <1>2 DEF Sort!partition_done
<1>4. Parted(sort_calls, sort_arr')
  BY <1>1, <1>2, PartedWithin DEF AllSorts
<1>5. /\ sort_calls' \in Seq(Calls) /\ AllSorts(sort_calls') /\ Apart(sort_calls')
      /\ Parted(sort_calls', sort_arr')
  <2>1. /\ Pivot(sort_arr', sort_calls[1][3], p, sort_calls[1][4])
        /\ sort_calls[1][3] <= p /\ p <= sort_calls[1][4]
    BY <1>2
  <2> QED
    BY <1>1, <1>3, <1>4, <2>1, PartedSplit
<1>6. SortTypes'
  BY <1>5, TypesKept DEF SortTypes
<1> QED
  BY <1>3, <1>5, <1>6, QuickKept DEF QuickInv

\* partition begins: two elements are put in order, more get their median as the pivot.
LEMMA PartitionBegin ==
    ASSUME SortTypes, sort_alg = "quick", QuickInv, Sort!partition_begin,
           UNCHANGED <<sort_alg, sort_n, sort_arr0>>
    PROVE  SortTypes' /\ QuickInv'
<1> DEFINE lo == Sort!Call[3]
           hi == Sort!Call[4]
<1>1. /\ sort_pc = "call" /\ sort_calls # <<>> /\ lo < hi
      /\ UNCHANGED <<sort_k, sort_flag, sort_tmp>>
  BY DEF Sort!partition_begin
<1>2. /\ Sort!Call = sort_calls[1] /\ IsCall(Sort!Call) /\ Sort!Call[1] = "sort"
      /\ lo \in Int /\ hi \in Int /\ lo >= 0 /\ hi < sort_n
      /\ Span(Sort!Call) = lo .. hi /\ lo .. hi \subseteq Dom
  BY <1>1, QuickTop
<1>3. /\ sort_arr \in [Dom -> Elements] /\ Permuted(sort_arr) /\ sort_i \in Int
      /\ sort_j \in Int /\ sort_k \in Int
  BY DEF SortTypes, QuickInv
<1>4. lo \in lo .. hi /\ hi \in lo .. hi /\ lo \in Dom /\ hi \in Dom /\ lo # hi
  BY <1>1, <1>2
<1>5. CASE hi - lo < 2
  <2>1. /\ sort_arr' = (IF Sort!gt(sort_arr[lo], sort_arr[hi]) THEN Sort!swap(sort_arr, lo, hi) ELSE sort_arr)
        /\ Sort!partition_done(lo) /\ UNCHANGED <<sort_i, sort_j, sort_held>>
    BY <1>5 DEF Sort!partition_begin
  <2> HIDE DEF lo, hi
  <2>2. /\ sort_arr' \in [Dom -> Elements] /\ Permuted(sort_arr')
        /\ Within(sort_arr', sort_arr, Sort!Call)
        /\ sort_arr'[lo].key <= sort_arr'[hi].key
    BY <1>2, <1>3, <1>4, <2>1, CondSwap
  <2>3. \A x \in lo .. hi : x = lo \/ x = hi
    BY <1>2, <1>5
  <2>4. sort_arr'[lo].key \in Int
    BY <1>4, <2>2 DEF Elements
  <2>5. \A x \in lo .. lo : x = lo
    BY <1>2
  <2>6. Pivot(sort_arr', lo, lo, hi)
    BY <2>2, <2>3, <2>4, <2>5 DEF Pivot
  <2>7. lo <= lo /\ lo <= hi
    BY <1>1, <1>2
  <2> QED
    BY <1>1, <1>2, <1>3, <2>1, <2>2, <2>6, <2>7, QuickDone DEF lo, hi
<1>6. CASE ~(hi - lo < 2)
  <2>1. /\ sort_arr' = Sort!median_of_three(sort_arr, lo, hi)
        /\ sort_held' = Sort!median_of_three(sort_arr, lo, hi)[hi - 1]
        /\ sort_i' = lo + 1 /\ sort_j' = hi - 1 /\ sort_pc' = "up" /\ UNCHANGED sort_calls
    BY <1>6 DEF Sort!partition_begin
  <2>2. hi - lo >= 2
    BY <1>2, <1>6
  <2>3. /\ sort_arr' \in [Dom -> Elements] /\ Permuted(sort_arr')
        /\ Within(sort_arr', sort_arr, Sort!Call)
        /\ sort_arr'[lo].key <= sort_arr'[hi - 1].key
        /\ sort_arr'[hi - 1].key <= sort_arr'[hi].key
    BY <1>2, <1>3, <2>1, <2>2, MedianOfThree
  <2>4. hi - 1 \in lo .. hi /\ hi - 1 \in Dom
    BY <1>2, <2>2
  <2>5. sort_held' = sort_arr'[hi - 1] /\ sort_held' \in Elements
    BY <2>1, <2>3, <2>4
  <2>6. /\ sort_calls \in Seq(Calls) /\ AllSorts(sort_calls) /\ Apart(sort_calls)
        /\ Parted(sort_calls, sort_arr)
    BY DEF SortTypes, QuickInv, AllSorts
  <2>7. Parted(sort_calls, sort_arr')
    BY <1>1, <1>2, <1>3, <2>3, <2>6, PartedWithin DEF AllSorts
  <2>8. SortTypes'
    BY <1>1, <1>2, <1>3, <2>1, <2>3, <2>5, <2>6, TypesKept, SMTT(30) DEF SortTypes
  <2>9. /\ (\A p \in 1 .. Len(sort_calls) : IsCall(sort_calls[p]) /\ sort_calls[p][1] = "sort")'
        /\ Permuted(sort_arr)' /\ Parted(sort_calls, sort_arr)' /\ Apart(sort_calls)'
    BY <2>1, <2>3, <2>6, <2>7, QuickKept
  <2>10. Sort!Call' = Sort!Call
    BY <2>1 DEF Sort!Call
  <2>11. sort_i' \in lo + 1 .. hi - 1 /\ sort_j' \in sort_i' .. hi - 1
    BY <1>2, <2>1, <2>2, SMTT(30)
  <2>12. sort_arr'[hi - 1].key \in Int /\ sort_arr'[hi].key \in Int
    BY <1>4, <2>3, <2>4 DEF Elements
  <2>13. /\ \A x \in lo .. sort_i' - 1 : sort_arr'[x].key <= sort_held'.key
         /\ \A x \in sort_j' .. hi : sort_arr'[x].key >= sort_held'.key
    <3>1. \A x \in lo .. sort_i' - 1 : x = lo
      BY <1>2, <2>1
    <3>2. \A x \in sort_j' .. hi : x = hi - 1 \/ x = hi
      BY <1>2, <2>1
    <3> QED
      BY <2>3, <2>5, <2>12, <3>1, <3>2
  <2>14. /\ sort_arr'[hi - 1].key = sort_held'.key
         /\ sort_arr'[hi].key >= sort_held'.key
    BY <2>3, <2>5, <2>12
  <2> HIDE DEF lo, hi
  <2>15. /\ sort_calls' # <<>> /\ Sort!Call'[3] = lo /\ Sort!Call'[4] = hi
    BY <1>1, <2>1, <2>10 DEF lo, hi
  <2> QED
    BY <2>1, <2>8, <2>9, <2>11, <2>13, <2>14, <2>15 DEF QuickInv
<1> QED
  BY <1>5, <1>6

\* The scans: the pivot stops i, an element that is not larger stops j.
LEMMA QuickScan ==
    ASSUME SortTypes, sort_alg = "quick", QuickInv, Sort!scan,
           UNCHANGED <<sort_alg, sort_n, sort_arr0>>
    PROVE  SortTypes' /\ QuickInv'
<1> DEFINE lo == Sort!Call[3]
           hi == Sort!Call[4]
<1>1. /\ sort_pc \in {"up", "down", "meet"}
      /\ UNCHANGED <<sort_k, sort_flag, sort_held, sort_tmp>>
  BY DEF Sort!scan
<1>2. /\ sort_calls # <<>> /\ sort_i \in lo + 1 .. hi - 1
      /\ sort_arr[hi - 1].key = sort_held.key
      /\ \A x \in lo .. sort_i - 1 : sort_arr[x].key <= sort_held.key
      /\ sort_arr[hi].key >= sort_held.key
  BY <1>1 DEF QuickInv
<1>3. /\ Sort!Call = sort_calls[1] /\ IsCall(Sort!Call) /\ Sort!Call[1] = "sort"
      /\ lo \in Int /\ hi \in Int /\ lo >= 0 /\ hi < sort_n
      /\ Span(Sort!Call) = lo .. hi /\ lo .. hi \subseteq Dom
      /\ \A x \in lo .. hi : x \in Dom /\ x \in Int /\ sort_arr[x].key \in Int
  BY <1>2, QuickTop
<1>4. /\ sort_arr \in [Dom -> Elements] /\ Permuted(sort_arr) /\ sort_i \in Int
      /\ sort_j \in Int /\ sort_held.key \in Int
      /\ sort_calls \in Seq(Calls) /\ AllSorts(sort_calls) /\ Apart(sort_calls)
      /\ Parted(sort_calls, sort_arr)
  BY Ints DEF SortTypes, QuickInv, AllSorts
<1>5. /\ lo < sort_i /\ sort_i < hi /\ sort_i \in lo .. hi /\ hi - 1 \in lo .. hi
      /\ hi \in lo .. hi /\ lo \in lo .. hi
  BY <1>2, <1>3, SMTT(30)
<1>6. ASSUME UNCHANGED <<sort_arr, sort_calls>>, sort_i' \in Int, sort_j' \in Int
      PROVE  /\ SortTypes' /\ Sort!Call' = Sort!Call
             /\ (\A p \in 1 .. Len(sort_calls) : IsCall(sort_calls[p]) /\ sort_calls[p][1] = "sort")'
             /\ Permuted(sort_arr)' /\ Parted(sort_calls, sort_arr)' /\ Apart(sort_calls)'
  <2>1. Sort!Call' = Sort!Call
    BY <1>6 DEF Sort!Call
  <2>2. SortTypes'
    BY <1>1, <1>6, TypesKept DEF SortTypes
  <2> QED
    BY <1>4, <1>6, <2>1, <2>2, QuickKept
<1>7. CASE sort_pc = "up"
  <2>1. /\ sort_j \in sort_i .. hi - 1
        /\ \A x \in sort_j .. hi : sort_arr[x].key >= sort_held.key
    BY <1>7 DEF QuickInv
  <2>2. CASE Sort!lt(sort_arr[sort_i], sort_held)
    <3>1. /\ sort_i' = sort_i + 1
          /\ UNCHANGED <<sort_pc, sort_j, sort_arr, sort_calls>>
      BY <1>7, <2>2 DEF Sort!scan
    <3>2. sort_arr[sort_i].key < sort_held.key /\ sort_arr[sort_i].key \in Int
      BY <1>3, <1>5, <2>2 DEF Sort!lt
    <3>3. ~(sort_i \in sort_j .. hi)
      BY <1>4, <2>1, <3>2
    <3>4. sort_i < sort_j /\ sort_j <= hi - 1
      BY <1>3, <1>4, <1>5, <2>1, <3>3
    <3>5. \A x \in lo .. sort_i : x \in lo .. sort_i - 1 \/ x = sort_i
      BY <1>3, <1>4
    <3>6. \A x \in lo .. (sort_i + 1) - 1 : sort_arr[x].key <= sort_held.key
      BY <1>2, <1>3, <1>4, <3>2, <3>5
    <3>7. sort_i + 1 \in lo + 1 .. hi - 1 /\ sort_j \in sort_i + 1 .. hi - 1
      BY <1>3, <1>4, <1>5, <3>4, SMTT(30)
    <3>8. /\ SortTypes' /\ Sort!Call' = Sort!Call
          /\ (\A p \in 1 .. Len(sort_calls) : IsCall(sort_calls[p]) /\ sort_calls[p][1] = "sort")'
          /\ Permuted(sort_arr)' /\ Parted(sort_calls, sort_arr)' /\ Apart(sort_calls)'
      BY <1>4, <1>6, <3>1
    <3> QED
      BY <1>1, <1>2, <1>7, <2>1, <3>1, <3>6, <3>7, <3>8 DEF QuickInv
  <2>3. CASE ~Sort!lt(sort_arr[sort_i], sort_held)
    <3>1. /\ sort_pc' = "down" /\ sort_j' = sort_j - 1
          /\ UNCHANGED <<sort_i, sort_arr, sort_calls>>
      BY <1>7, <2>3 DEF Sort!scan
    <3>2. sort_arr[sort_i].key >= sort_held.key
      BY <1>3, <1>4, <1>5, <2>3 DEF Sort!lt
    <3>3. /\ sort_j - 1 \in lo .. hi - 2 /\ sort_i <= (sort_j - 1) + 1
          /\ (sort_j - 1) + 1 = sort_j
      BY <1>3, <1>4, <1>5, <2>1, SMTT(30)
    <3>8. /\ SortTypes' /\ Sort!Call' = Sort!Call
          /\ (\A p \in 1 .. Len(sort_calls) : IsCall(sort_calls[p]) /\ sort_calls[p][1] = "sort")'
          /\ Permuted(sort_arr)' /\ Parted(sort_calls, sort_arr)' /\ Apart(sort_calls)'
      BY <1>4, <1>6, <3>1
    <3> QED
      BY <1>1, <1>2, <2>1, <3>1, <3>2, <3>3, <3>8 DEF QuickInv
  <2> QED
    BY <2>2, <2>3
<1>8. ASSUME sort_pc \in {"down", "meet"}
      PROVE  /\ sort_j \in lo .. hi - 2 /\ sort_i <= sort_j + 1
             /\ sort_arr[sort_i].key >= sort_held.key
             /\ \A x \in sort_j + 1 .. hi : sort_arr[x].key >= sort_held.key
             /\ sort_j \in lo .. hi /\ sort_j \in Dom /\ sort_arr[sort_j].key \in Int
             /\ sort_j < hi - 1
  <2>1. /\ sort_j \in lo .. hi - 2 /\ sort_i <= sort_j + 1
        /\ sort_arr[sort_i].key >= sort_held.key
        /\ \A x \in sort_j + 1 .. hi : sort_arr[x].key >= sort_held.key
    BY <1>8 DEF QuickInv
  <2>2. sort_j \in lo .. hi /\ sort_j < hi - 1
    BY <1>3, <2>1
  <2> QED
    BY <1>3, <2>1, <2>2
<1>9. CASE sort_pc = "down"
  <2>1. /\ sort_j \in lo .. hi - 2 /\ sort_i <= sort_j + 1
        /\ sort_arr[sort_i].key >= sort_held.key
        /\ \A x \in sort_j + 1 .. hi : sort_arr[x].key >= sort_held.key
        /\ sort_j \in lo .. hi /\ sort_j \in Dom /\ sort_arr[sort_j].key \in Int
        /\ sort_j < hi - 1
    BY <1>8, <1>9
  <2>2. CASE Sort!scan_down_on
    <3>1. /\ sort_j' = sort_j - 1
          /\ UNCHANGED <<sort_pc, sort_i, sort_arr, sort_calls>>
      BY <1>9, <2>2 DEF Sort!scan
    <3>2. sort_arr[sort_j].key > sort_held.key
      BY <2>2 DEF Sort!scan_down_on, Sort!gt
    <3>3. ~(sort_j \in lo .. sort_i - 1)
      BY <1>2, <1>4, <2>1, <3>2
    <3>4. sort_i <= sort_j /\ lo < sort_j
      BY <1>3, <1>4, <1>5, <2>1, <3>3
    <3>5. sort_j - 1 \in lo .. hi - 2 /\ sort_i <= (sort_j - 1) + 1
      BY <1>3, <1>4, <2>1, <3>4, SMTT(30)
    <3>6. \A x \in (sort_j - 1) + 1 .. hi : x = sort_j \/ x \in sort_j + 1 .. hi
      BY <1>3, <1>4
    <3>7. \A x \in (sort_j - 1) + 1 .. hi : sort_arr[x].key >= sort_held.key
      BY <1>4, <2>1, <3>2, <3>6
    <3>8. /\ SortTypes' /\ Sort!Call' = Sort!Call
          /\ (\A p \in 1 .. Len(sort_calls) : IsCall(sort_calls[p]) /\ sort_calls[p][1] = "sort")'
          /\ Permuted(sort_arr)' /\ Parted(sort_calls, sort_arr)' /\ Apart(sort_calls)'
      BY <1>4, <1>6, <3>1
    <3> QED
      BY <1>1, <1>2, <1>9, <2>1, <3>1, <3>5, <3>7, <3>8 DEF QuickInv
  <2>3. CASE ~Sort!scan_down_on
    <3>1. sort_pc' = "meet" /\ UNCHANGED <<sort_i, sort_j, sort_arr, sort_calls>>
      BY <1>9, <2>3 DEF Sort!scan
    <3>2. sort_arr[sort_j].key <= sort_held.key
      BY <1>4, <2>1, <2>3 DEF Sort!scan_down_on, Sort!gt
    <3>8. /\ SortTypes' /\ Sort!Call' = Sort!Call
          /\ (\A p \in 1 .. Len(sort_calls) : IsCall(sort_calls[p]) /\ sort_calls[p][1] = "sort")'
          /\ Permuted(sort_arr)' /\ Parted(sort_calls, sort_arr)' /\ Apart(sort_calls)'
      BY <1>4, <1>6, <3>1
    <3> QED
      BY <1>1, <1>2, <2>1, <3>1, <3>2, <3>8 DEF QuickInv
  <2> QED
    BY <2>2, <2>3
<1>10. CASE sort_pc = "meet"
  <2>1. /\ sort_j \in lo .. hi - 2 /\ sort_i <= sort_j + 1
        /\ sort_arr[sort_i].key >= sort_held.key
        /\ \A x \in sort_j + 1 .. hi : sort_arr[x].key >= sort_held.key
        /\ sort_j \in lo .. hi /\ sort_j \in Dom /\ sort_arr[sort_j].key \in Int
        /\ sort_j < hi - 1
    BY <1>8, <1>10
  <2>2. sort_arr[sort_j].key <= sort_held.key
    BY <1>10 DEF QuickInv
  <2>3. CASE sort_i >= sort_j
    <3>1. /\ sort_arr' = Sort!swap(sort_arr, sort_i, hi - 1)
          /\ Sort!partition_done(sort_i) /\ UNCHANGED <<sort_i, sort_j>>
      BY <1>10, <2>3 DEF Sort!scan
    <3>2. sort_i \in Dom /\ hi - 1 \in Dom
      BY <1>3, <1>5
    <3>3. /\ sort_arr' \in [Dom -> Elements] /\ Permuted(sort_arr')
          /\ sort_arr'[sort_i] = sort_arr[hi - 1] /\ sort_arr'[hi - 1] = sort_arr[sort_i]
          /\ \A x \in Dom : x # sort_i /\ x # hi - 1 => sort_arr'[x] = sort_arr[x]
      <4> DEFINE pv == hi - 1
      <4>1. sort_arr' = Sort!swap(sort_arr, sort_i, pv) /\ pv \in Dom
        BY <3>1, <3>2
      <4> HIDE DEF pv
      <4>2. /\ sort_arr' \in [Dom -> Elements] /\ Permuted(sort_arr')
            /\ sort_arr'[sort_i] = sort_arr[pv] /\ sort_arr'[pv] = sort_arr[sort_i]
            /\ \A x \in Dom : x # sort_i /\ x # pv => sort_arr'[x] = sort_arr[x]
        BY <1>4, <3>2, <4>1, SwapPermutes
      <4> QED
        BY <4>2 DEF pv
    <3>4. Within(sort_arr', sort_arr, Sort!Call)
      BY <1>3, <1>4, <1>5, <3>1, <3>2, WithinSwap
    <3>5. sort_arr'[sort_i].key = sort_held.key
      BY <1>2, <3>3
    <3>6. ASSUME NEW x \in lo .. sort_i PROVE sort_arr'[x].key <= sort_held.key
      <4>1. CASE x = sort_i
        BY <1>4, <3>5, <4>1
      <4>2. CASE x # sort_i
        <5>1. x \in lo .. sort_i - 1 /\ x \in Dom /\ x # hi - 1
          BY <1>3, <1>4, <1>5, <4>2
        <5> QED
          BY <1>2, <3>3, <4>2, <5>1
      <4> QED
        BY <4>1, <4>2
    <3>7. ASSUME NEW x \in sort_i .. hi PROVE sort_held.key <= sort_arr'[x].key
      <4>1. CASE x = sort_i
        BY <1>4, <3>5, <4>1
      <4>2. CASE x = hi - 1
        BY <1>3, <1>4, <1>5, <2>1, <3>3, <4>2
      <4>3. CASE x # sort_i /\ x # hi - 1
        <5>1. x \in sort_j + 1 .. hi /\ x \in lo .. hi /\ x \in Dom
          BY <1>3, <1>4, <1>5, <2>3, <4>3
        <5>2. sort_arr'[x] = sort_arr[x] /\ sort_arr[x].key \in Int
          BY <1>3, <3>3, <4>3, <5>1
        <5> QED
          BY <1>4, <2>1, <5>1, <5>2
      <4> QED
        BY <4>1, <4>2, <4>3
    <3>8. Pivot(sort_arr', lo, sort_i, hi)
      BY <3>5, <3>6, <3>7 DEF Pivot
    <3>9. lo <= sort_i /\ sort_i <= hi
      BY <1>3, <1>4, <1>5
    <3> QED
      BY <1>1, <1>2, <1>4, <3>1, <3>3, <3>4, <3>8, <3>9, QuickDone
  <2>4. CASE ~(sort_i >= sort_j)
    <3>1. /\ sort_arr' = Sort!swap(sort_arr, sort_i, sort_j) /\ sort_i' = sort_i + 1
          /\ sort_pc' = "up" /\ UNCHANGED <<sort_calls, sort_j>>
      BY <1>10, <2>4 DEF Sort!scan
    <3>2. sort_i \in Dom /\ sort_j \in Dom /\ sort_i < sort_j /\ sort_j < hi - 1
      BY <1>3, <1>4, <1>5, <2>1, <2>4
    <3>3. /\ sort_arr' \in [Dom -> Elements] /\ Permuted(sort_arr')
          /\ sort_arr'[sort_i] = sort_arr[sort_j] /\ sort_arr'[sort_j] = sort_arr[sort_i]
          /\ \A x \in Dom : x # sort_i /\ x # sort_j => sort_arr'[x] = sort_arr[x]
      BY <1>4, <3>1, <3>2, SwapPermutes
    <3>4. Within(sort_arr', sort_arr, Sort!Call)
      BY <1>3, <1>4, <1>5, <2>1, <3>1, <3>2, WithinSwap
    <3>5. Parted(sort_calls, sort_arr')
      BY <1>2, <1>3, <1>4, <3>3, <3>4, PartedWithin DEF AllSorts
    <3>6. ASSUME NEW x \in lo .. (sort_i + 1) - 1 PROVE sort_arr'[x].key <= sort_held.key
      <4>1. CASE x = sort_i
        BY <2>2, <3>3, <4>1
      <4>2. CASE x # sort_i
        <5>1. x \in lo .. sort_i - 1 /\ x \in Dom /\ x # sort_j
          BY <1>3, <1>4, <1>5, <3>2, <4>2
        <5> QED
          BY <1>2, <3>3, <4>2, <5>1
      <4> QED
        BY <4>1, <4>2
    <3>7. ASSUME NEW x \in sort_j .. hi PROVE sort_arr'[x].key >= sort_held.key
      <4>1. CASE x = sort_j
        BY <2>1, <3>3, <4>1
      <4>2. CASE x # sort_j
        <5>1. x \in sort_j + 1 .. hi /\ x \in lo .. hi /\ x \in Dom /\ x # sort_i
          BY <1>3, <1>4, <1>5, <2>1, <3>2, <4>2
        <5> QED
          BY <2>1, <3>3, <4>2, <5>1
      <4> QED
        BY <4>1, <4>2
    <3>8. /\ sort_i' \in lo + 1 .. hi - 1 /\ sort_j \in sort_i' .. hi - 1
          /\ sort_i' - 1 = (sort_i + 1) - 1
      BY <1>3, <1>4, <1>5, <3>1, <3>2, SMTT(30)
    <3>9. /\ sort_arr'[hi - 1].key = sort_held.key
          /\ sort_arr'[hi].key >= sort_held.key
      <4>1. /\ hi - 1 # sort_i /\ hi - 1 # sort_j /\ hi # sort_i /\ hi # sort_j
            /\ hi - 1 \in Dom /\ hi \in Dom
        BY <1>3, <1>4, <1>5, <3>2
      <4> QED
        BY <1>2, <3>3, <4>1
    <3>10. SortTypes'
      BY <1>1, <1>4, <3>1, <3>3, TypesKept DEF SortTypes
    <3>11. /\ (\A p \in 1 .. Len(sort_calls) : IsCall(sort_calls[p]) /\ sort_calls[p][1] = "sort")'
           /\ Permuted(sort_arr)' /\ Parted(sort_calls, sort_arr)' /\ Apart(sort_calls)'
      BY <1>4, <3>1, <3>3, <3>5, QuickKept
    <3>12. sort_calls' # <<>> /\ Sort!Call'[3] = lo /\ Sort!Call'[4] = hi
      BY <1>2, <3>1 DEF Sort!Call
    <3> HIDE DEF lo, hi
    <3> QED
      BY <1>1, <3>1, <3>6, <3>7, <3>8, <3>9, <3>10, <3>11, <3>12 DEF QuickInv
  <2> QED
    BY <2>3, <2>4
<1> QED
  BY <1>1, <1>7, <1>9, <1>10

\* Quicksort keeps its invariant.
LEMMA QuickStep ==
    ASSUME SortTypes, sort_alg = "quick", QuickInv, Sort!quick_sort,
           UNCHANGED <<sort_alg, sort_n, sort_arr0>>
    PROVE  SortTypes' /\ QuickInv'
<1>1. CASE Sort!quick_sort_return
  <2>1. /\ sort_pc = "call"
        /\ UNCHANGED <<sort_arr, sort_i, sort_j, sort_k, sort_flag, sort_held,
                       sort_tmp>>
    BY <1>1 DEF Sort!quick_sort_return
  <2>2. /\ sort_arr \in [Dom -> Elements] /\ Permuted(sort_arr)
        /\ sort_calls \in Seq(Calls) /\ AllSorts(sort_calls) /\ Apart(sort_calls)
        /\ Parted(sort_calls, sort_arr)
    BY DEF SortTypes, QuickInv, AllSorts
  <2>3. /\ sort_calls' \in Seq(Calls) /\ AllSorts(sort_calls') /\ Apart(sort_calls')
        /\ Parted(sort_calls', sort_arr)
        /\ sort_pc' \in {"call", "done"}
        /\ sort_pc' = "done" => sort_calls' = <<>>
    <3>1. CASE sort_calls = <<>>
      BY <1>1, <2>2, <3>1 DEF Sort!quick_sort_return
    <3>2. CASE sort_calls # <<>>
      <4>1. /\ Sort!Call[3] >= Sort!Call[4] /\ sort_calls' = Tail(sort_calls)
            /\ sort_pc' = sort_pc
        BY <1>1, <3>2 DEF Sort!quick_sort_return
      <4>2. sort_calls[1][3] >= sort_calls[1][4]
        BY <3>2, <4>1, QuickTop
      <4> QED
        BY <2>1, <2>2, <3>2, <4>1, <4>2, PartedPop
    <3> QED
      BY <3>1, <3>2
  <2>4. SortTypes'
    BY <2>1, <2>3, TypesKept DEF SortTypes
  <2>5. /\ (\A p \in 1 .. Len(sort_calls) : IsCall(sort_calls[p]) /\ sort_calls[p][1] = "sort")'
        /\ Permuted(sort_arr)' /\ Parted(sort_calls, sort_arr)' /\ Apart(sort_calls)'
    BY <2>1, <2>2, <2>3, QuickKept
  <2> QED
    BY <2>3, <2>4, <2>5 DEF QuickInv
<1> QED
  BY <1>1, PartitionBegin, QuickScan DEF Sort!quick_sort
-----------------------------------------------------------------------------
\* The five invariants hold when a sort is called.
LEMMA SortStart == Sort!Init => SortInv
<1> SUFFICES ASSUME Sort!Init PROVE SortInv
  OBVIOUS
<1>1. /\ sort_n \in Nat /\ sort_alg \in Five /\ sort_arr = sort_arr0
      /\ sort_tmp = sort_arr0 /\ sort_j = 0 /\ sort_k = 0 /\ sort_i \in Int
      /\ sort_flag = FALSE /\ sort_held = [key |-> 0, pos |-> 0]
  BY SortInputs DEF Sort!Init, Sort!SortAssumption, Five
<1>2. /\ sort_arr0 \in [Dom -> Elements]
      /\ \A x \in Dom : sort_arr0[x].pos = x
  <2>1. PICK a \in [0 .. sort_n - 1 -> Keys] : sort_arr0 = Sort!Element(a)
    BY DEF Sort!Init
  <2>2. \A x \in Dom : a[x] \in Int /\ x \in Int
    <3>1. Keys \subseteq Int
      BY SortInputs DEF Sort!SortAssumption
    <3>2. \A x \in Dom : a[x] \in Keys /\ x \in Int
      BY DEF Dom
    <3> QED
      BY <3>1, <3>2
  <2>3. sort_arr0 = [x \in Dom |-> [key |-> a[x], pos |-> x]]
    BY <2>1 DEF Sort!Element, Dom
  <2> QED
    BY <2>2, <2>3 DEF Elements
<1>3. Permuted(sort_arr) /\ KeepsTies(sort_arr)
  BY <1>1, <1>2 DEF Permuted, KeepsTies
<1> DEFINE c == <<"sort", 0, 0, sort_n - 1>>
<1>4. /\ c \in Calls /\ c[1] = "sort" /\ c[3] = 0 /\ c[4] = sort_n - 1
  BY <1>1 DEF Calls
<1> HIDE DEF c
<1>5. IsCall(c) /\ Lo(c) = 0 /\ Hi(c) = sort_n - 1 /\ Span(c) = Dom
  BY <1>1, <1>4 DEF IsCall, Lo, Hi, Span, Dom
<1>6. sort_calls = <<>> \/ sort_calls = <<c>>
  BY DEF Sort!Init, c
<1>7. sort_calls \in Seq(Calls)
  <2>1. <<>> \in Seq(Calls) /\ <<c>> \in Seq(Calls)
    BY <1>4
  <2> QED
    BY <1>6, <2>1
<1>8. SortTypes
  <2>1. sort_held \in Elements
    BY <1>1 DEF Elements
  <2>2. /\ sort_arr \in [Dom -> Elements] /\ sort_tmp \in [Dom -> Elements]
        /\ sort_j \in Int /\ sort_k \in Int
    BY <1>1, <1>2
  <2>3. sort_flag \in BOOLEAN
    BY <1>1
  <2> QED
    BY <1>1, <1>2, <1>7, <2>1, <2>2, <2>3, Zenon DEF SortTypes
<1>9. CASE sort_alg = "bubble"
  <2>1. sort_i = 0 /\ sort_pc = "outer"
    BY <1>9 DEF Sort!Init
  <2>2. \A x, y \in Dom : ~(x < y /\ y >= sort_n - sort_i)
    BY <1>1, <2>1 DEF Dom
  <2> QED
    BY <1>3, <1>8, <1>9, <2>1, <2>2 DEF SortInv, BubbleInv
<1>10. CASE sort_alg = "insertion"
  <2>1. sort_i = 1 /\ sort_pc = "outer"
    BY <1>10 DEF Sort!Init
  <2>2. \A x, y \in Dom : ~(x < y /\ y < sort_i)
    BY <1>1, <2>1 DEF Dom
  <2>3. \A x \in Dom : IF x < sort_i THEN sort_arr[x].pos < sort_i
          ELSE sort_arr[x] = sort_arr0[x]
    BY <1>1, <1>2
  <2>4. sort_i >= 1
    BY <2>1
  <2> QED
    BY <1>3, <1>8, <1>10, <2>1, <2>2, <2>3, <2>4 DEF SortInv, InsertionInv
<1>11. CASE sort_alg = "selection"
  <2>1. sort_i = 0 /\ sort_pc = "outer"
    BY <1>11 DEF Sort!Init
  <2>2. \A x, y \in Dom : ~(x < y /\ x < sort_i)
    BY <1>1, <2>1 DEF Dom
  <2> QED
    BY <1>3, <1>8, <1>11, <2>1, <2>2 DEF SortInv, SelectionInv
<1>12. ASSUME sort_calls = <<c>>
       PROVE  /\ Len(sort_calls) = 1 /\ (\A p \in 1 .. Len(sort_calls) : p = 1)
              /\ sort_calls[1] = c
  BY <1>12
<1>13. CASE sort_alg = "merge"
  <2>1. sort_pc = "call" /\ sort_calls = <<c>>
    BY <1>13 DEF Sort!Init, c
  <2>2. /\ Len(sort_calls) = 1 /\ (\A p \in 1 .. Len(sort_calls) : p = 1)
        /\ sort_calls[1] = c
    BY <1>12, <2>1
  <2>3. \A p \in 1 .. Len(sort_calls) :
          IsCall(sort_calls[p]) /\ sort_calls[p][1] # "merge"
    BY <1>4, <1>5, <2>2
  <2>4. WillBe(sort_calls, Len(sort_calls) + 1, 0, sort_n - 1, sort_arr)
    <3>1. /\ 1 \in 0 .. (Len(sort_calls) + 1) - 1
          /\ \A r \in 1 + 1 .. (Len(sort_calls) + 1) - 1 : FALSE
      BY <2>2
    <3> QED
      BY <1>5, <2>2, <3>1 DEF WillBe
  <2>5. Planned(sort_calls, sort_arr, sort_n)
    BY <2>3, <2>4 DEF Planned
  <2> QED
    BY <1>3, <1>8, <1>13, <2>1, <2>3, <2>5 DEF SortInv, MergeInv
<1>14. CASE sort_alg = "quick"
  <2>1. sort_pc = "call"
    BY <1>14 DEF Sort!Init
  <2>2. CASE sort_n < 2
    <3>1. sort_calls = <<>>
      BY <1>14, <2>2 DEF Sort!Init
    <3>2. (\A q \in 1 .. Len(sort_calls) : FALSE) /\ \A x, y \in Dom : ~(x < y)
      BY <1>1, <2>2, <3>1 DEF Dom
    <3>3. Parted(sort_calls, sort_arr) /\ Apart(sort_calls)
      BY <3>2 DEF Parted, Apart
    <3> QED
      BY <1>3, <1>8, <1>14, <2>1, <3>2, <3>3 DEF SortInv, QuickInv
  <2>3. CASE ~(sort_n < 2)
    <3>1. sort_calls = <<c>>
      BY <1>14, <2>3 DEF Sort!Init, c
    <3>2. /\ Len(sort_calls) = 1 /\ 1 \in 1 .. Len(sort_calls)
          /\ (\A p \in 1 .. Len(sort_calls) : p = 1) /\ sort_calls[1] = c
      BY <1>12, <3>1
    <3>3. \A p \in 1 .. Len(sort_calls) :
            IsCall(sort_calls[p]) /\ sort_calls[p][1] = "sort"
      BY <1>4, <1>5, <3>2
    <3>4. Parted(sort_calls, sort_arr)
      BY <1>5, <3>2 DEF Parted
    <3>5. Apart(sort_calls)
      BY <3>2 DEF Apart
    <3> QED
      BY <1>3, <1>8, <1>14, <2>1, <3>3, <3>4, <3>5 DEF SortInv, QuickInv
  <2> QED
    BY <2>2, <2>3
<1> QED
  BY <1>1, <1>9, <1>10, <1>11, <1>13, <1>14 DEF Five

\* Every step keeps them: the running sort its own, and the others say nothing.
LEMMA SortStep == SortInv /\ [Sort!Next]_Sort!vars => SortInv'
<1> SUFFICES ASSUME SortInv, [Sort!Next]_Sort!vars PROVE SortInv'
  OBVIOUS
<1>0. SortTypes
  BY DEF SortInv
<1>1. CASE sort_alg = "bubble" /\ Sort!bubble_sort /\ UNCHANGED <<sort_alg, sort_n,
                                                                  sort_arr0>>
  BY <1>0, <1>1, BubbleStep DEF SortInv
<1>2. CASE sort_alg = "insertion" /\ Sort!insertion_sort /\ UNCHANGED <<sort_alg,
                                                                        sort_n,
                                                                        sort_arr0>>
  BY <1>0, <1>2, InsertionStep DEF SortInv
<1>3. CASE sort_alg = "selection" /\ Sort!selection_sort /\ UNCHANGED <<sort_alg,
                                                                        sort_n,
                                                                        sort_arr0>>
  BY <1>0, <1>3, SelectionStep DEF SortInv
<1>4. CASE sort_alg = "merge" /\ Sort!merge_sort /\ UNCHANGED <<sort_alg, sort_n,
                                                                sort_arr0>>
  BY <1>0, <1>4, MergeStep DEF SortInv
<1>5. CASE sort_alg = "quick" /\ Sort!quick_sort /\ UNCHANGED <<sort_alg, sort_n,
                                                                sort_arr0>>
  BY <1>0, <1>5, QuickStep DEF SortInv
<1>6. CASE UNCHANGED Sort!vars
  <2>1. SortTypes' /\ sort_alg' = sort_alg /\ Dom' = Dom
    BY <1>0, <1>6 DEF Sort!vars, SortTypes, Dom
  <2>2. ASSUME BubbleInv PROVE BubbleInv'
    BY <1>6, <2>1, <2>2 DEF Sort!vars, BubbleInv, Permuted, KeepsTies
  <2>3. ASSUME InsertionInv PROVE InsertionInv'
    <3>1. /\ UNCHANGED <<sort_pc, sort_i, sort_j, sort_arr, sort_arr0, sort_held,
                         sort_n>>
          /\ Permuted(sort_arr)' = Permuted(sort_arr)
      BY <1>6, <2>1 DEF Sort!vars, Permuted
    <3>2. {Filled(x) : x \in Dom}' = {Filled(x) : x \in Dom}
      BY <2>1, <3>1 DEF Filled
    <3>3. CASE sort_pc = "inner"
      <4>1. ({Filled(x) : x \in Dom} = {sort_arr0[x] : x \in Dom})'
        <5>1. {Filled(x) : x \in Dom} = {sort_arr0[x] : x \in Dom}
          BY <2>3, <3>3 DEF InsertionInv
        <5>2. {sort_arr0[x] : x \in Dom}' = {sort_arr0[x] : x \in Dom}
          BY <2>1, <3>1
        <5> QED
          BY <3>2, <5>1, <5>2
      <4>2. /\ (sort_pc \in {"outer", "inner", "done"} /\ sort_i >= 1)'
            /\ (sort_i < sort_n /\ sort_j \in -1 .. sort_i - 1 /\ sort_held.pos = sort_i)'
            /\ (\A x, y \in Dom \ {sort_j + 1} : x < y /\ y <= sort_i => Before(sort_arr[x], sort_arr[y]))'
            /\ (\A x \in Dom : x > sort_j + 1 /\ x <= sort_i => Before(sort_held, sort_arr[x]))'
            /\ (\A x \in Dom : IF x <= sort_i THEN x = sort_j + 1 \/ sort_arr[x].pos < sort_i ELSE sort_arr[x] = sort_arr0[x])'
        BY <2>1, <2>3, <3>1, <3>3 DEF InsertionInv
      <4> QED
        BY <3>1, <3>3, <4>1, <4>2 DEF InsertionInv
    <3>4. CASE sort_pc # "inner"
      BY <2>1, <2>3, <3>1, <3>4 DEF InsertionInv
    <3> QED
      BY <3>3, <3>4
  <2>4. ASSUME SelectionInv PROVE SelectionInv'
    BY <1>6, <2>1, <2>4 DEF Sort!vars, SelectionInv, Permuted
  <2>5. ASSUME MergeInv PROVE MergeInv'
    <3>1. UNCHANGED <<sort_pc, sort_i, sort_j, sort_k, sort_arr, sort_arr0,
                      sort_tmp, sort_n, sort_calls>>
      BY <1>6 DEF Sort!vars
    <3>2. Sort!Call' = Sort!Call
      BY <3>1 DEF Sort!Call
    <3>3. Whole' = Whole
      BY <2>1, <3>1, <3>2 DEF Whole
    <3>4. /\ (Permuted(sort_arr) => Permuted(sort_arr)')
          /\ (KeepsTies(sort_arr) => KeepsTies(sort_arr)')
          /\ (Permuted(Whole) => Permuted(Whole)')
          /\ (KeepsTies(Whole) => KeepsTies(Whole)')
      BY <2>1, <3>1, <3>3 DEF Permuted, KeepsTies
    <3>5. /\ Planned(sort_calls, sort_arr, sort_n)' = Planned(sort_calls, sort_arr, sort_n)
          /\ Planned(sort_calls, Whole, sort_n)' = Planned(sort_calls, Whole, sort_n)
      BY <3>1, <3>3
    <3>6. Merged(Sort!Call[2], Sort!Call[3], Sort!Call[4]) =>
            Merged(Sort!Call[2], Sort!Call[3], Sort!Call[4])'
      BY <3>1, <3>2 DEF Merged, Taken, Rest
    <3>7. (\A p \in 1 .. Len(sort_calls) : IsCall(sort_calls[p])) =>
            (\A p \in 1 .. Len(sort_calls) : IsCall(sort_calls[p]))'
      BY <3>1 DEF IsCall
    <3> QED
      BY <2>5, <3>1, <3>2, <3>4, <3>5, <3>6, <3>7 DEF MergeInv
  <2>6. ASSUME QuickInv PROVE QuickInv'
    BY <1>6, <2>1, <2>6 DEF Sort!vars, QuickInv, Permuted, Parted, IsCall, Sort!Call
  <2> QED
    BY <2>1, <2>2, <2>3, <2>4, <2>5, <2>6 DEF SortInv
<1> QED
  BY <1>1, <1>2, <1>3, <1>4, <1>5, <1>6 DEF Sort!Next

\* What the invariants say when a sort has returned.
LEMMA SortEnds == SortInv => SortsCorrectly
<1> SUFFICES ASSUME SortInv PROVE SortsCorrectly
  OBVIOUS
<1>0. /\ SortTypes /\ sort_alg \in Five /\ DOMAIN sort_arr = Dom
      /\ DOMAIN sort_arr0 = Dom
  BY DEF SortInv, SortTypes
<1>1. \A x \in 0 .. sort_n - 2 : x \in Dom /\ x + 1 \in Dom /\ x < x + 1
  BY <1>0, Ints DEF Dom
<1>2. sort_pc \in {"up", "down", "meet"} => sort_alg = "quick"
  BY <1>0 DEF Five, SortInv, BubbleInv, InsertionInv, SelectionInv, MergeInv
<1>3. Sort!ScansInBounds
  <2> SUFFICES ASSUME sort_pc \in {"up", "down", "meet"} PROVE Sort!ScansInBounds
    BY DEF Sort!ScansInBounds
  <2>1. QuickInv
    BY <1>2 DEF SortInv
  <2>2. sort_i \in Sort!Call[3] + 1 .. Sort!Call[4] - 1 /\ sort_calls # <<>>
    BY <2>1 DEF QuickInv
  <2>3. sort_pc \in {"down", "meet"} => sort_j \in Sort!Call[3] .. Sort!Call[4] - 2
    BY <2>1 DEF QuickInv
  <2>4. Sort!Call[3] \in Int /\ Sort!Call[4] \in Int
    BY <1>0, <2>1, <2>2, QuickTop
  <2>5. sort_pc \in {"down", "meet"} => sort_j \in Sort!Call[3] .. Sort!Call[4] - 1
    BY <2>3, <2>4
  <2> QED
    BY <2>2, <2>5 DEF Sort!ScansInBounds
<1>4. ASSUME sort_pc = "done"
      PROVE  /\ \A x \in 0 .. sort_n - 2 : sort_arr[x].key <= sort_arr[x + 1].key
             /\ Permuted(sort_arr)
             /\ sort_alg \in {"bubble", "insertion", "merge"} => KeepsTies(sort_arr)
  <2>1. CASE sort_alg = "bubble"
    BY <1>4, <2>1 DEF SortInv, BubbleInv
  <2>2. CASE sort_alg = "insertion"
    <3>1. /\ Permuted(sort_arr) /\ sort_i >= sort_n
          /\ \A x, y \in Dom : x < y /\ y < sort_i => Before(sort_arr[x], sort_arr[y])
      BY <1>4, <2>2 DEF SortInv, InsertionInv
    <3>2. \A x, y \in Dom : x < y => Before(sort_arr[x], sort_arr[y])
      BY <1>0, <3>1, Ints
    <3>3. \A x \in 0 .. sort_n - 2 : sort_arr[x].key <= sort_arr[x + 1].key
      BY <1>0, <1>1, <3>2, Ints DEF Before
    <3>4. KeepsTies(sort_arr)
      BY <1>0, <3>2, Ints DEF KeepsTies, Before
    <3> QED
      BY <3>1, <3>3, <3>4
  <2>3. CASE sort_alg = "selection"
    <3>1. /\ Permuted(sort_arr) /\ sort_i >= sort_n - 1
          /\ \A x, y \in Dom : x < y /\ x < sort_i => sort_arr[x].key <= sort_arr[y].key
      BY <1>4, <2>3 DEF SortInv, SelectionInv
    <3>2. \A x \in 0 .. sort_n - 2 : x < sort_i
      BY <1>0, <3>1, Ints
    <3> QED
      BY <1>1, <2>3, <3>1, <3>2
  <2>4. CASE sort_alg = "merge"
    <3>1. /\ Permuted(sort_arr) /\ KeepsTies(sort_arr)
          /\ Planned(sort_calls, sort_arr, sort_n) /\ sort_calls = <<>>
      BY <1>4, <2>4 DEF SortInv, MergeInv
    <3>2. WillBe(sort_calls, 0 + 1, 0, sort_n - 1, sort_arr)
      BY <3>1 DEF Planned
    <3>3. PICK q \in 0 .. (0 + 1) - 1 : q = 0 => Ordered(sort_arr, 0, sort_n - 1)
      BY <3>2 DEF WillBe
    <3>4. Ordered(sort_arr, 0, sort_n - 1)
      BY <3>3
    <3>5. \A x, y \in Dom : x < y => Before(sort_arr[x], sort_arr[y])
      BY <3>4 DEF Ordered, Dom
    <3>6. \A x \in 0 .. sort_n - 2 : sort_arr[x].key <= sort_arr[x + 1].key
      BY <1>0, <1>1, <3>5, Ints DEF Before
    <3> QED
      BY <3>1, <3>6
  <2>5. CASE sort_alg = "quick"
    <3>1. Permuted(sort_arr) /\ Parted(sort_calls, sort_arr) /\ sort_calls = <<>>
      BY <1>4, <2>5 DEF SortInv, QuickInv
    <3>2. \A q \in 1 .. Len(sort_calls) : FALSE
      BY <3>1
    <3>3. \A x \in 0 .. sort_n - 2 : sort_arr[x].key <= sort_arr[x + 1].key
      BY <1>1, <3>1, <3>2 DEF Parted
    <3> QED
      BY <2>5, <3>1, <3>3
  <2> QED
    BY <1>0, <2>1, <2>2, <2>3, <2>4, <2>5 DEF Five
<1>5. Sort!Sorted
  <2> SUFFICES ASSUME sort_pc = "done"
               PROVE  /\ \A x \in 0 .. sort_n - 2 : ~Sort!gt(sort_arr[x], sort_arr[x + 1])
                      /\ {sort_arr[x] : x \in DOMAIN sort_arr} = {sort_arr0[x] : x \in DOMAIN sort_arr0}
    BY DEF Sort!Sorted
  <2>1. \A x \in 0 .. sort_n - 2 : ~Sort!gt(sort_arr[x], sort_arr[x + 1])
    BY <1>0, <1>1, <1>4, Ints DEF Sort!gt
  <2>2. {sort_arr[x] : x \in DOMAIN sort_arr} = {sort_arr0[x] : x \in DOMAIN sort_arr0}
    BY <1>0, <1>4 DEF Permuted
  <2> QED
    BY <2>1, <2>2
<1>6. Sort!Stable
  BY <1>0, <1>4 DEF Sort!Stable, KeepsTies
<1> QED
  BY <1>3, <1>5, <1>6 DEF SortsCorrectly

(***************************************************************************)
(* Exercise 17: for an array of any length with any int keys, each of the  *)
(* five sorts leaves an ordered permutation of its input; bubble,          *)
(* insertion and merge sort keep equal keys in their order; and quicksort's*)
(* scans, which have no bound of their own, stay inside the partition.     *)
(***************************************************************************)
THEOREM SortsRight == Sort!Spec => []SortsCorrectly
<1> QED
  BY SortStart, SortStep, SortEnds, PTL DEF Sort!Spec

-----------------------------------------------------------------------------
\* Exercise 32, regular expressions.

\* A non-empty set of natural numbers has a least element.
LEMMA LeastNumber ==
    ASSUME NEW S \in SUBSET Nat, S # {}
    PROVE  \E x \in S : \A y \in S : x <= y
<1> DEFINE Less == {ss \in Nat \X Nat : ss[1] < ss[2]}
<1>1. IsWellFoundedOn(Less, Nat)
  BY NatLessThanWellFounded, Zenon DEF OpToRel
<1>2. \A a, b \in Nat : a < b => <<a, b>> \in Less
  OBVIOUS
<1> HIDE DEF Less
<1>3. PICK x \in S : \A y \in S : ~ (<<y, x>> \in Less)
  BY <1>1, WFMin
<1>4. ASSUME NEW y \in S PROVE x <= y
  <2>1. x \in Nat /\ y \in Nat /\ ~ (<<y, x>> \in Less)
    BY <1>3
  <2>2. ~ (y < x)
    BY <1>2, <2>1
  <2> QED BY <2>1, <2>2
<1> QED BY <1>4

\* So has, below any bound, a greatest one.
LEMMA GreatestNumber ==
    ASSUME NEW b \in Nat, NEW S \in SUBSET (0 .. b), S # {}
    PROVE  \E x \in S : \A y \in S : y <= x
<1> DEFINE D == {b - x : x \in S}
<1>1. D \in SUBSET Nat /\ D # {}
  OBVIOUS
<1>2. PICK d \in D : \A e \in D : d <= e
  BY <1>1, LeastNumber
<1>3. PICK x \in S : d = b - x
  BY <1>2
<1>4. ASSUME NEW y \in S PROVE y <= x
  <2>1. b - y \in D
    OBVIOUS
  <2> QED BY <1>2, <1>3, <2>1
<1> QED BY <1>4

-----------------------------------------------------------------------------
Letters == Re!Alphabet["newline"] \cup Re!Alphabet["scan"]
Offsets == 0 .. Len(re_text)
Matches == {re_found[k] : k \in DOMAIN re_found}

\* The patterns that are left are the last ones of main.
LeftOver(t) ==
    /\ Len(t) \in 0 .. 8
    /\ t = [k \in 1 .. Len(t) |-> Re!main[8 - Len(t) + k]]

\* What the cursor has passed was found, match by match from left to right.
Collected ==
    /\ re_text \in Seq(Letters) /\ re_cursor \in Offsets /\ re_notbol \in BOOLEAN
    /\ re_found \in Seq(Nat \X Nat)
    /\ \A k \in DOMAIN re_found : re_found[k][2] <= re_cursor
    /\ \A k, l \in DOMAIN re_found : k < l => re_found[k][2] <= re_found[l][1]

\* The lines that start before the cursor; the cursor is at the text's start,
\* where ^ matches, or at a line's end, where it does not.
LineLoop ==
    /\ Matches = {m \in Re!Lines : m[1] < re_cursor}
    /\ IF re_found = <<>> THEN re_cursor = 0 /\ ~re_notbol
       ELSE /\ re_cursor > 0 /\ re_notbol
            /\ re_cursor = Len(re_text) \/ Re!At(re_cursor) = "/"

WordLoop == Matches = {m \in Re!Words : m[1] < re_cursor}

ReInv ==
    /\ LeftOver(re_todo) /\ Collected
    /\ re_re \in {"freed", "compiled", "undefined"} /\ re_status \in {"running", "exit(0)", "exit(1)"}
    /\ re_status = "exit(0)" => re_re = "freed"
    /\ re_status = "exit(1)" => re_re = "undefined"
    /\ re_status = "exit(0)" <=> re_todo = <<>>
    /\ re_status = "running" /\ re_re = "compiled" /\ re_todo # <<>> =>
         /\ Re!pattern = "newline" => LineLoop
         /\ Re!pattern = "scan" => WordLoop
    /\ re_status = "running" /\ re_re = "freed" /\ re_todo # <<>> =>
         /\ Re!pattern = "scan" => Matches = Re!Lines
         /\ Re!pattern = "ipv4" => Matches = Re!Words

\* The texts are made of the three classes of letters.
LEMMA Characters ==
    ASSUME NEW A \in SUBSET Letters, NEW t \in Re!Texts(A)
    PROVE  t \in Seq(Letters)
<1>1. PICK n \in 0 .. MaxText : t \in [1 .. n -> A]
  BY DEF Re!Texts
<1>2. n \in Nat
  BY <1>1, RegexInputs DEF Re!RegexAssumption
<1>3. t \in [1 .. n -> Letters]
  BY <1>1
<1> QED BY <1>2, <1>3, SeqDef

\* Below, a candidate of the line loop is a line that the cursor has not passed.
LEMMA LineCandidates ==
    ASSUME Collected, LineLoop, Re!pattern = "newline"
    PROVE  Re!Candidates = {m \in Re!Lines : m[1] >= re_cursor}
<1> DEFINE L == Len(re_text)
<1>0. L \in Nat /\ re_cursor \in 0 .. L
  BY DEF Collected, Offsets
<1>1. ASSUME NEW m \in Re!Candidates PROVE m \in Re!Lines /\ m[1] >= re_cursor
  <2>1. /\ m \in (re_cursor .. L) \X (re_cursor .. L) /\ m[1] < m[2]
        /\ Re!digit_line(m[1], m[2])
    BY DEF Re!Candidates
  <2>2. m \in (0 .. L) \X (0 .. L) /\ m[1] >= re_cursor
    BY <1>0, <2>1
  <2>3. m[1] = 0 \/ Re!At(m[1] - 1) = "/"
    BY <1>0, <2>1, <2>2 DEF Re!digit_line, LineLoop
  <2> QED BY <2>1, <2>2, <2>3 DEF Re!Lines, Re!digit_line
<1>2. ASSUME NEW m \in Re!Lines, m[1] >= re_cursor PROVE m \in Re!Candidates
  <2>1. /\ m \in (0 .. L) \X (0 .. L) /\ m[1] < m[2] /\ Re!Within(m[1], m[2], "0")
        /\ m[1] = 0 \/ Re!At(m[1] - 1) = "/"
        /\ m[2] = L \/ Re!At(m[2]) = "/"
    BY DEF Re!Lines
  <2>2. m \in (re_cursor .. L) \X (re_cursor .. L)
    BY <1>0, <1>2, <2>1
  <2>3. Re!At(m[1]) = "0" /\ m[1] < L
    BY <2>1 DEF Re!Within
  <2>4. IF m[1] = re_cursor THEN ~re_notbol ELSE Re!At(m[1] - 1) = "/"
    <3>1. CASE re_found = <<>>
      BY <1>0, <2>1, <3>1, <1>2 DEF LineLoop
    <3>2. CASE re_found # <<>>
      <4>1. re_cursor > 0 /\ (re_cursor = L \/ Re!At(re_cursor) = "/")
        BY <3>2 DEF LineLoop
      <4>2. m[1] # re_cursor
        BY <2>3, <4>1
      <4> QED BY <1>0, <1>2, <2>1, <4>1, <4>2
    <3> QED BY <3>1, <3>2
  <2> QED BY <2>1, <2>2, <2>4 DEF Re!Candidates, Re!digit_line
<1>3. Re!Candidates \subseteq Re!Lines
  BY <1>1
<1> HIDE DEF L
<1> QED BY <1>1, <1>2, <1>3

\* A candidate of the other loop: a capital and some of the letters after it.
LEMMA WordCandidates ==
    ASSUME Collected, Re!pattern = "scan"
    PROVE  Re!Candidates = {m \in (re_cursor .. Len(re_text)) \X (re_cursor .. Len(re_text)) :
                              Re!capitalised(m[1], m[2])}
<1>0. Len(re_text) \in Nat /\ re_cursor \in 0 .. Len(re_text)
  BY DEF Collected, Offsets
<1> QED BY <1>0 DEF Re!Candidates, Re!capitalised

\* regexec returns a leftmost match, and among these a longest.
LEMMA Chosen ==
    ASSUME Collected, Re!Candidates # {}
    PROVE  /\ Re!regexec \in Re!Candidates
           /\ \A o \in Re!Candidates : Re!regexec[1] <= o[1]
           /\ \A o \in Re!Candidates : o[1] = Re!regexec[1] => o[2] <= Re!regexec[2]
<1> DEFINE L == Len(re_text)
<1>0. L \in Nat /\ re_cursor \in 0 .. L
  BY DEF Collected, Offsets
<1>1. \A m \in Re!Candidates : m[1] \in 0 .. L /\ m[2] \in 0 .. L
  BY <1>0 DEF Re!Candidates
<1> HIDE DEF L
<1>2. PICK a \in {m[1] : m \in Re!Candidates} : \A b \in {m[1] : m \in Re!Candidates} : a <= b
  <2>1. /\ {m[1] : m \in Re!Candidates} \in SUBSET Nat
        /\ {m[1] : m \in Re!Candidates} # {}
    BY <1>0, <1>1
  <2> QED BY <2>1, LeastNumber
<1>3. Re!Leftmost # {} /\ \A m \in Re!Leftmost : m \in Re!Candidates /\ \A o \in Re!Candidates : m[1] <= o[1]
  BY <1>2 DEF Re!Leftmost
<1>4. PICK a2 \in {m[2] : m \in Re!Leftmost} : \A b \in {m[2] : m \in Re!Leftmost} : b <= a2
  <2>1. /\ {m[2] : m \in Re!Leftmost} \in SUBSET (0 .. L)
        /\ {m[2] : m \in Re!Leftmost} # {}
    BY <1>1, <1>3
  <2> QED BY <1>0, <2>1, GreatestNumber
<1>5. \E m \in Re!Leftmost : \A o \in Re!Leftmost : o[2] <= m[2]
  BY <1>4
<1>6. Re!regexec \in Re!Leftmost /\ \A o \in Re!Leftmost : o[2] <= Re!regexec[2]
  BY <1>5 DEF Re!regexec
<1>7. ASSUME NEW o \in Re!Candidates, o[1] = Re!regexec[1] PROVE o \in Re!Leftmost
  BY <1>3, <1>6, <1>7 DEF Re!Leftmost
<1> QED BY <1>3, <1>6, <1>7

\* A match that a loop appends extends what was collected.
LEMMA CollectStep ==
    ASSUME Collected, Re!Candidates # {}, Re!collect, re_cursor' = Re!regexec[2], re_notbol' = TRUE
    PROVE  /\ Collected' /\ re_found' # <<>> /\ re_text' = re_text
           /\ Matches' = Matches \cup {Re!regexec}
           /\ Re!regexec[1] \in re_cursor .. re_cursor' - 1 /\ re_cursor' \in re_cursor + 1 .. Len(re_text)
<1> DEFINE m == Re!regexec
           L == Len(re_text)
<1>0. L \in Nat /\ re_cursor \in 0 .. L /\ re_found \in Seq(Nat \X Nat)
  BY DEF Collected, Offsets
<1>1. m \in (re_cursor .. L) \X (re_cursor .. L) /\ m[1] < m[2]
  BY Chosen DEF Re!Candidates
<1>2. re_found' = Append(re_found, m) /\ re_text' = re_text
  BY DEF Re!collect
<1> HIDE DEF m, L
<1>3. /\ m \in Nat \X Nat /\ m[1] \in re_cursor .. m[2] - 1
      /\ m[2] \in re_cursor + 1 .. L
  BY <1>0, <1>1
<1> DEFINE n == Len(re_found)
<1>4. /\ re_found' \in Seq(Nat \X Nat) /\ Len(re_found') = n + 1
      /\ DOMAIN re_found' = 1 .. n + 1 /\ DOMAIN re_found = 1 .. n
  BY <1>0, <1>2, <1>3
<1>a. n \in Nat
  BY <1>0
<1>b. re_found'[n + 1] = m /\ \A k \in 1 .. n : re_found'[k] = re_found[k]
  BY <1>0, <1>2, <1>3
<1> HIDE DEF n
<1>5. \A k \in 1 .. n : re_found[k] \in Nat \X Nat /\ re_found[k][2] <= re_cursor
  <2> SUFFICES ASSUME NEW k \in 1 .. n
               PROVE  re_found[k] \in Nat \X Nat /\ re_found[k][2] <= re_cursor
    OBVIOUS
  <2>1. re_found[k] \in Nat \X Nat
    BY <1>0 DEF n
  <2>2. k \in DOMAIN re_found
    BY <1>4
  <2> QED BY <2>1, <2>2 DEF Collected
<1>c. \A k \in 1 .. n : re_found[k][2] \in Nat
  BY <1>5
<1>6. \A k \in DOMAIN re_found' : re_found'[k][2] <= re_cursor'
  <2> SUFFICES ASSUME NEW k \in 1 .. n + 1 PROVE re_found'[k][2] <= m[2]
    BY <1>4 DEF m
  <2>1. CASE k \in 1 .. n
    <3>1. /\ re_found'[k][2] = re_found[k][2] /\ re_found[k][2] \in Nat
          /\ re_found[k][2] <= re_cursor
      BY <1>5, <1>b, <1>c, <2>1
    <3> QED BY <1>0, <1>3, <3>1, SMTT(30)
  <2>2. CASE k = n + 1
    BY <1>0, <1>3, <1>b, <2>2
  <2> QED BY <1>a, <2>1, <2>2
<1>7. \A k, l \in DOMAIN re_found' : k < l => re_found'[k][2] <= re_found'[l][1]
  <2> SUFFICES ASSUME NEW k \in 1 .. n + 1, NEW l \in 1 .. n + 1, k < l
               PROVE  re_found'[k][2] <= re_found'[l][1]
    BY <1>4
  <2>0. k \in 1 .. n
    BY <1>a
  <2>1. CASE l \in 1 .. n
    <3>1. re_found[k][2] <= re_found[l][1]
      BY <1>4, <2>0, <2>1 DEF Collected
    <3> QED BY <1>b, <2>0, <2>1, <3>1
  <2>2. CASE l = n + 1
    <3>1. /\ re_found'[k][2] = re_found[k][2] /\ re_found[k][2] \in Nat
          /\ re_found[k][2] <= re_cursor
      BY <1>5, <1>b, <1>c, <2>0
    <3> QED BY <1>0, <1>3, <1>b, <2>2, <3>1, SMTT(30)
  <2> QED BY <1>a, <2>1, <2>2
<1>8. Matches' = Matches \cup {m}
  <2>1. /\ Matches = {re_found[k] : k \in 1 .. n}
        /\ Matches' = {re_found'[k] : k \in 1 .. n + 1}
    BY <1>4 DEF Matches
  <2>2. 1 .. n + 1 = (1 .. n) \cup {n + 1}
    BY <1>a
  <2> QED BY <1>b, <2>1, <2>2
<1>9. re_text \in Seq(Letters) /\ re_cursor' \in 0 .. L
  BY <1>0, <1>3 DEF Collected, m
<1>10. Collected'
  BY <1>2, <1>4, <1>6, <1>7, <1>9 DEF Collected, Offsets, L
<1>11. re_found' # <<>>
  BY <1>4, <1>a
<1> QED BY <1>2, <1>3, <1>8, <1>10, <1>11 DEF m, L

\* Lines that start before another one's end end before its start.
LEMMA LinesApart ==
    ASSUME NEW m \in Re!Lines, NEW o \in Re!Lines, m[1] <= o[1], o[1] < m[2]
    PROVE  o = m
<1>1. /\ m[1] \in Nat /\ m[2] \in Nat /\ m[2] <= Len(re_text) /\ m = <<m[1], m[2]>> /\ Re!Within(m[1], m[2], "0")
      /\ m[2] = Len(re_text) \/ Re!At(m[2]) = "/"
  BY DEF Re!Lines
<1>2. /\ o[1] \in Nat /\ o[2] \in Nat /\ o[2] <= Len(re_text) /\ o = <<o[1], o[2]>> /\ Re!Within(o[1], o[2], "0")
      /\ o[1] = 0 \/ Re!At(o[1] - 1) = "/"
      /\ o[2] = Len(re_text) \/ Re!At(o[2]) = "/"
      /\ o[1] < o[2] /\ Len(re_text) \in Nat
  BY DEF Re!Lines
<1>3. o[1] = m[1]
  <2> SUFFICES ASSUME m[1] < o[1] PROVE FALSE
    BY <1>1, <1>2
  <2>1. Re!At(o[1] - 1) = "0"
    BY <1>1, <1>2 DEF Re!Within
  <2> QED BY <1>1, <1>2, <2>1
<1>4. ~ (o[2] < m[2])
  <2> SUFFICES ASSUME o[2] < m[2] PROVE FALSE
    OBVIOUS
  <2>1. Re!At(o[2]) = "0" /\ o[2] # Len(re_text)
    BY <1>1, <1>2, <1>3 DEF Re!Within
  <2> QED BY <1>2, <2>1
<1>5. ~ (m[2] < o[2])
  <2> SUFFICES ASSUME m[2] < o[2] PROVE FALSE
    OBVIOUS
  <2>1. Re!At(m[2]) = "0" /\ m[2] # Len(re_text)
    BY <1>1, <1>2, <1>3 DEF Re!Within
  <2> QED BY <1>1, <2>1
<1> QED BY <1>1, <1>2, <1>3, <1>4, <1>5

\* The line loop's step passes exactly the line it appends.
LEMMA LineStep ==
    ASSUME Collected, LineLoop, Re!pattern = "newline", Re!scan_lines
    PROVE  Collected' /\ LineLoop'
<1> DEFINE m == Re!regexec
<1>1. /\ Re!Candidates # {} /\ Re!collect /\ re_cursor' = m[2] /\ re_notbol' = TRUE
  BY DEF Re!scan_lines
<1>2. /\ Collected' /\ re_found' # <<>> /\ re_text' = re_text /\ Matches' = Matches \cup {m}
      /\ m[1] \in re_cursor .. re_cursor' - 1 /\ re_cursor' \in re_cursor + 1 .. Len(re_text)
  BY <1>1, CollectStep
<1>3. m \in Re!Lines /\ \A o \in Re!Lines : o[1] >= re_cursor => m[1] <= o[1]
  BY <1>1, Chosen, LineCandidates
<1>4. re_cursor \in Nat /\ Len(re_text) \in Nat
  BY DEF Collected, Offsets
<1>5. Re!Lines' = Re!Lines
  BY <1>2 DEF Re!Lines, Re!Within, Re!At
<1>6. re_cursor' = Len(re_text) \/ Re!At(re_cursor') = "/"
  BY <1>1, <1>3 DEF Re!Lines
<1>7. \A o \in Re!Lines : o[1] \in Nat
  BY DEF Re!Lines
<1>8. Matches = {o \in Re!Lines : o[1] < re_cursor}
  BY DEF LineLoop
<1> HIDE DEF m
<1>9. ASSUME NEW o \in Re!Lines PROVE o[1] < re_cursor' <=> o[1] < re_cursor \/ o = m
  <2>1. CASE o[1] < re_cursor
    BY <1>2, <1>4, <1>7, <2>1
  <2>2. CASE o[1] >= re_cursor /\ o[1] < re_cursor'
    BY <1>1, <1>3, <2>2, LinesApart DEF m
  <2>3. CASE o[1] >= re_cursor /\ ~ (o[1] < re_cursor')
    BY <1>2, <1>4, <1>7, <2>3
  <2> QED BY <1>4, <1>7, <2>1, <2>2, <2>3
<1>10. Matches' = {o \in Re!Lines : o[1] < re_cursor'}
  BY <1>2, <1>3, <1>8, <1>9
<1>11. re_cursor' > 0
  BY <1>2, <1>4
<1>12. re_cursor' = Len(re_text') \/ Re!At(re_cursor)'= "/"
  BY <1>2, <1>6 DEF Re!At
<1> QED BY <1>1, <1>2, <1>5, <1>10, <1>11, <1>12 DEF LineLoop

\* The other loop's step passes exactly the word it appends.
LEMMA WordStep ==
    ASSUME Collected, WordLoop, Re!pattern = "scan", Re!scan_words
    PROVE  Collected' /\ WordLoop'
<1> DEFINE m == Re!regexec
           L == Len(re_text)
<1>0. Re!Candidates # {} /\ m[1] # m[2]
  <2>1. Re!Candidates # {}
    BY DEF Re!scan_words
  <2>2. m \in Re!Candidates
    BY <2>1, Chosen
  <2>3. m[1] \in Int /\ m[2] \in Int /\ m[1] < m[2]
    BY <2>2 DEF Re!Candidates, Collected, Offsets
  <2> QED BY <2>1, <2>3
<1>1. /\ Re!Candidates # {} /\ Re!collect /\ re_cursor' = m[2] /\ re_notbol' = TRUE
  <2>1. re_cursor' = m[2] + (IF m[1] = m[2] THEN 1 ELSE 0)
    BY DEF Re!scan_words
  <2>2. m[2] \in Int
    BY <1>0, Chosen DEF Re!Candidates, Collected, Offsets
  <2>3. re_cursor' = m[2]
    BY <1>0, <2>1, <2>2
  <2> QED BY <1>0, <2>3 DEF Re!scan_words
<1>2. /\ Collected' /\ re_found' # <<>> /\ re_text' = re_text /\ Matches' = Matches \cup {m}
      /\ m[1] \in re_cursor .. re_cursor' - 1 /\ re_cursor' \in re_cursor + 1 .. L
  BY <1>1, CollectStep
<1>3. re_cursor \in Nat /\ L \in Nat /\ re_cursor <= L
  BY DEF Collected, Offsets
<1>4. /\ m \in (re_cursor .. L) \X (re_cursor .. L) /\ Re!capitalised(m[1], m[2])
      /\ \A a, b \in re_cursor .. L : Re!capitalised(a, b) => m[1] <= a /\ (a = m[1] => b <= m[2])
  <2>1. \A a, b \in re_cursor .. L : Re!capitalised(a, b) => <<a, b>> \in Re!Candidates
    BY WordCandidates
  <2>2. \A a, b : <<a, b>>[1] = a /\ <<a, b>>[2] = b
    OBVIOUS
  <2>3. m \in (re_cursor .. L) \X (re_cursor .. L) /\ Re!capitalised(m[1], m[2])
    BY <1>1, Chosen, WordCandidates
  <2>4. ASSUME NEW a \in re_cursor .. L, NEW b \in re_cursor .. L, Re!capitalised(a, b)
        PROVE  m[1] <= a /\ (a = m[1] => b <= m[2])
    <3>1. <<a, b>> \in Re!Candidates
      BY <2>1, <2>4
    <3> QED BY <1>1, <2>2, <3>1, Chosen
  <2> QED BY <2>3, <2>4
<1>5. Re!Words' = Re!Words
  BY <1>2 DEF Re!Words, Re!capitalised, Re!Within, Re!At
<1>6. Matches = {o \in Re!Words : o[1] < re_cursor}
  BY DEF WordLoop
<1>7. \A o \in Re!Words : /\ o[1] \in Nat /\ o[2] \in Nat /\ o[2] <= L /\ o = <<o[1], o[2]>>
                          /\ Re!capitalised(o[1], o[2]) /\ o[1] + 2 <= o[2]
                          /\ o[2] = L \/ Re!At(o[2]) # "a"
  BY <1>3 DEF Re!Words, Re!capitalised
<1>8. /\ m[1] \in re_cursor .. L /\ m[2] \in re_cursor .. L /\ m = <<m[1], m[2]>> /\ m[1] + 2 <= m[2]
      /\ Re!Within(m[1] + 1, m[2], "a") /\ Re!At(m[1]) = "A"
  BY <1>3, <1>4 DEF Re!capitalised
<1>9. m \in Re!Words
  <2>1. m[2] = L \/ Re!At(m[2]) # "a"
    <3> SUFFICES ASSUME m[2] < L, Re!At(m[2]) = "a" PROVE FALSE
      BY <1>3, <1>8
    <3>1. Re!Within(m[1] + 1, m[2] + 1, "a")
      BY <1>3, <1>8 DEF Re!Within
    <3>2. Re!capitalised(m[1], m[2] + 1) /\ m[2] + 1 \in re_cursor .. L
      BY <1>3, <1>8, <3>1 DEF Re!capitalised
    <3> QED BY <1>3, <1>4, <1>8, <3>2
  <2>2. m \in (0 .. L) \X (0 .. L)
    BY <1>3, <1>4
  <2> QED BY <1>4, <2>1, <2>2 DEF Re!Words
<1> HIDE DEF m, L
<1>10. ASSUME NEW o \in Re!Words PROVE o[1] < re_cursor' <=> o[1] < re_cursor \/ o = m
  <2>1. CASE o[1] < re_cursor
    BY <1>2, <1>3, <1>7, <2>1
  <2>2. CASE o[1] >= re_cursor /\ o[1] < re_cursor'
    <3>1. /\ o[1] \in re_cursor .. L /\ o[2] \in re_cursor .. L
          /\ Re!capitalised(o[1], o[2])
      BY <1>3, <1>7, <2>2
    <3>2. m[1] <= o[1] /\ (o[1] = m[1] => o[2] <= m[2])
      BY <1>4, <3>1
    <3>3. o[1] = m[1]
      <4> SUFFICES ASSUME m[1] < o[1] PROVE FALSE
        BY <1>3, <1>8, <3>1, <3>2
      <4>1. Re!At(o[1]) = "A"
        BY <3>1 DEF Re!capitalised
      <4>2. o[1] \in m[1] + 1 .. m[2] - 1
        BY <1>1, <1>3, <1>8, <2>2, <3>1
      <4> QED BY <1>8, <4>1, <4>2 DEF Re!Within
    <3>4. ~ (o[2] < m[2])
      <4> SUFFICES ASSUME o[2] < m[2] PROVE FALSE
        OBVIOUS
      <4>1. o[2] # L /\ o[2] \in m[1] + 1 .. m[2] - 1
        BY <1>3, <1>7, <1>8, <3>1, <3>3
      <4> QED BY <1>7, <1>8, <4>1 DEF Re!Within
    <3>5. o[2] = m[2]
      BY <1>8, <3>1, <3>2, <3>3, <3>4, <1>3
    <3>6. o = m
      BY <1>7, <1>8, <3>3, <3>5
    <3> QED BY <2>2, <3>6
  <2>3. CASE o[1] >= re_cursor /\ ~ (o[1] < re_cursor')
    BY <1>2, <1>3, <1>7, <2>3
  <2> QED BY <1>3, <1>7, <2>1, <2>2, <2>3
<1>11. Matches' = {o \in Re!Words : o[1] < re_cursor'}
  BY <1>2, <1>6, <1>9, <1>10
<1> QED BY <1>2, <1>5, <1>11 DEF WordLoop

\* The pattern at the head of what is left, and what is left after it.
LEMMA Patterns ==
    ASSUME NEW t, LeftOver(t)
    PROVE  /\ t = <<>> <=> Len(t) = 0
           /\ t # <<>> => /\ Len(t) \in 1 .. 8 /\ Head(t) = Re!main[9 - Len(t)]
                          /\ LeftOver(Tail(t)) /\ Len(Tail(t)) = Len(t) - 1
<1> DEFINE n == Len(t)
           P == {Re!main[k] : k \in 1 .. 8}
<1>1. n \in 0 .. 8 /\ t = [k \in 1 .. n |-> Re!main[8 - n + k]]
  BY DEF LeftOver
<1> HIDE DEF n
<1>2. t \in Seq(P)
  <2>1. ASSUME NEW k \in 1 .. n PROVE Re!main[8 - n + k] \in P
    <3>1. 8 - n + k \in 1 .. 8
      BY <1>1
    <3> QED BY <3>1
  <2> HIDE DEF P
  <2>2. t \in [1 .. n -> P]
    BY <1>1, <2>1
  <2>3. n \in Nat
    BY <1>1
  <2> QED BY <2>2, <2>3, SeqDef
<1> HIDE DEF P
<1>3. t = <<>> <=> n = 0
  BY <1>2 DEF n
<1>4. ASSUME t # <<>>
      PROVE  /\ n \in 1 .. 8 /\ Head(t) = Re!main[9 - n]
             /\ LeftOver(Tail(t)) /\ Len(Tail(t)) = n - 1
  <2>1. n \in 1 .. 8
    BY <1>1, <1>3, <1>4
  <2>2. Head(t) = t[1] /\ 1 \in 1 .. n /\ 8 - n + 1 = 9 - n
    BY <1>2, <1>4, <2>1
  <2>3. Head(t) = Re!main[9 - n]
    BY <1>1, <2>2
  <2>4. /\ Tail(t) \in Seq(P) /\ Len(Tail(t)) = n - 1
        /\ \A k \in 1 .. n - 1 : Tail(t)[k] = t[k + 1]
    BY <1>2, <1>4, HeadTailProperties DEF n
  <2>5. \A k \in 1 .. n - 1 : t[k + 1] = Re!main[8 - (n - 1) + k]
    <3> SUFFICES ASSUME NEW k \in 1 .. n - 1 PROVE t[k + 1] = Re!main[8 - (n - 1) + k]
      OBVIOUS
    <3>1. k + 1 \in 1 .. n /\ 8 - n + (k + 1) = 8 - (n - 1) + k
      BY <2>1
    <3>2. t[k + 1] = Re!main[8 - n + (k + 1)]
      BY <1>1, <3>1
    <3> QED BY <3>1, <3>2
  <2>6. Tail(t) = [k \in 1 .. n - 1 |-> Tail(t)[k]]
    BY <2>1, <2>4, LenProperties
  <2>7. Tail(t) = [k \in 1 .. n - 1 |-> Re!main[8 - (n - 1) + k]]
    BY <2>4, <2>5, <2>6
  <2>8. n - 1 \in 0 .. 8
    BY <2>1
  <2>9. LeftOver(Tail(t))
    BY <2>4, <2>7, <2>8 DEF LeftOver
  <2> QED BY <2>1, <2>3, <2>4, <2>9
<1> QED BY <1>3, <1>4 DEF n

\* The loops' patterns and the ones after them.
LEMMA Places ==
    ASSUME NEW t, LeftOver(t), t # <<>>
    PROVE  /\ Head(t) = "newline" <=> Len(t) = 5
           /\ Head(t) = "scan" <=> Len(t) = 4
           /\ Head(t) = "ipv4" <=> Len(t) = 3
<1>1. Len(t) \in 1 .. 8 /\ Head(t) = Re!main[9 - Len(t)]
  BY Patterns
<1>2. /\ Re!main[1] = "basic" /\ Re!main[2] = "groups" /\ Re!main[3] = "icase"
      /\ Re!main[4] = "newline" /\ Re!main[5] = "scan" /\ Re!main[6] = "ipv4"
      /\ Re!main[7] = "date" /\ Re!main[8] = "ident"
  BY DEF Re!main
<1>3. Len(t) \in {1, 2, 3, 4, 5, 6, 7, 8}
  BY <1>1
<1>4. /\ (Len(t) = 1 => 9 - Len(t) = 8) /\ (Len(t) = 2 => 9 - Len(t) = 7)
      /\ (Len(t) = 3 => 9 - Len(t) = 6) /\ (Len(t) = 4 => 9 - Len(t) = 5)
      /\ (Len(t) = 5 => 9 - Len(t) = 4) /\ (Len(t) = 6 => 9 - Len(t) = 3)
      /\ (Len(t) = 7 => 9 - Len(t) = 2) /\ (Len(t) = 8 => 9 - Len(t) = 1)
  <2>1. \A j \in 1 .. 8 : /\ (j = 1 => 9 - j = 8) /\ (j = 2 => 9 - j = 7)
                          /\ (j = 3 => 9 - j = 6) /\ (j = 4 => 9 - j = 5)
                          /\ (j = 5 => 9 - j = 4) /\ (j = 6 => 9 - j = 3)
                          /\ (j = 7 => 9 - j = 2) /\ (j = 8 => 9 - j = 1)
    OBVIOUS
  <2> QED BY <1>1, <2>1, Zenon
<1>5. /\ Len(t) = 1 => Head(t) = "ident"
      /\ Len(t) = 2 => Head(t) = "date"
      /\ Len(t) = 3 => Head(t) = "ipv4"
      /\ Len(t) = 4 => Head(t) = "scan"
      /\ Len(t) = 5 => Head(t) = "newline"
      /\ Len(t) = 6 => Head(t) = "icase"
      /\ Len(t) = 7 => Head(t) = "groups"
      /\ Len(t) = 8 => Head(t) = "basic"
  BY <1>1, <1>2, <1>4, Zenon
<1> QED BY <1>3, <1>5

\* Nothing is collected at the start of a text.
LEMMA NoneCollected ==
    ASSUME NEW t \in Seq(Letters)
    PROVE  /\ re_text = t /\ re_cursor = 0 /\ re_notbol = FALSE /\ re_found = <<>> => Collected
           /\ re_text' = t /\ re_cursor' = 0 /\ re_notbol' = FALSE /\ re_found' = <<>> => Collected'
<1>1. Len(t) \in Nat /\ 0 \in 0 .. Len(t) /\ <<>> \in Seq(Nat \X Nat)
  OBVIOUS
<1>2. DOMAIN <<>> = {}
  OBVIOUS
<1> QED BY <1>1, <1>2 DEF Collected, Offsets

\* The program starts with every pattern to come and nothing collected.
LEMMA ReInit == Re!Init => ReInv
<1> SUFFICES ASSUME Re!Init PROVE ReInv
  OBVIOUS
<1>1. re_todo = Re!main /\ Len(Re!main) = 8 /\ Re!main[1] = "basic"
  BY DEF Re!Init, Re!main
<1>2. re_todo = [k \in 1 .. 8 |-> Re!main[8 - 8 + k]]
  <2>1. Re!main \in Seq({"basic", "groups", "icase", "newline", "scan", "ipv4", "date", "ident"})
    BY DEF Re!main
  <2>2. Re!main = [k \in 1 .. 8 |-> Re!main[k]]
    BY <1>1, <2>1, LenProperties
  <2>3. \A k \in 1 .. 8 : 8 - 8 + k = k
    OBVIOUS
  <2> QED BY <1>1, <2>2, <2>3
<1>3. LeftOver(re_todo)
  BY <1>1, <1>2 DEF LeftOver
<1>4. re_todo # <<>> /\ Re!pattern = "basic"
  BY <1>1 DEF Re!pattern
<1>5. Collected
  <2>1. /\ re_text = <<>> /\ re_found = <<>> /\ re_cursor = 0 /\ re_notbol = FALSE
    BY DEF Re!Init
  <2>2. <<>> \in Seq(Letters)
    OBVIOUS
  <2> QED BY <2>1, <2>2, NoneCollected
<1> QED BY <1>3, <1>4, <1>5 DEF Re!Init, ReInv

\* compile starts a loop at the beginning of its text with nothing found.
LEMMA CompileStep == ReInv /\ Re!compile => ReInv'
<1> SUFFICES ASSUME ReInv, Re!compile PROVE ReInv'
  OBVIOUS
<1>1. /\ re_status = "running" /\ re_todo # <<>> /\ re_re = "freed"
      /\ re_cursor' = 0 /\ re_notbol' = FALSE /\ re_found' = <<>> /\ re_todo' = re_todo
  BY DEF Re!compile
<1>2. /\ LeftOver(re_todo) /\ LeftOver(re_todo)' /\ re_todo' # <<>>
      /\ Re!pattern' = Re!pattern
  BY <1>1 DEF ReInv, Re!pattern
<1>3. re_text' \in Seq(Letters)
  <2>1. CASE re_text' = re_text
    BY <2>1 DEF ReInv, Collected
  <2>2. CASE re_text' \in IF Re!pattern \in Re!Loops THEN Re!Texts(Re!Alphabet[Re!pattern]) ELSE {<<>>}
    <3>1. /\ Re!Alphabet["newline"] \in SUBSET Letters
          /\ Re!Alphabet["scan"] \in SUBSET Letters
      BY DEF Letters
    <3>2. CASE Re!pattern = "newline"
      BY <2>2, <3>1, <3>2, Characters DEF Re!Loops
    <3>3. CASE Re!pattern = "scan"
      BY <2>2, <3>1, <3>3, Characters DEF Re!Loops
    <3>4. CASE Re!pattern \notin Re!Loops
      BY <2>2, <3>4
    <3> QED BY <3>2, <3>3, <3>4 DEF Re!Loops
  <2> QED BY <2>1, <2>2 DEF Re!compile
<1>4. Collected'
  BY <1>1, <1>3, NoneCollected
<1>5. Matches' = {} /\ (\A o \in Re!Lines' : ~ (o[1] < 0)) /\ (\A o \in Re!Words' : ~ (o[1] < 0))
  <2>1. Matches' = {}
    BY <1>1 DEF Matches
  <2> QED BY <2>1 DEF Re!Lines, Re!Words
<1>6. LineLoop' /\ WordLoop'
  BY <1>1, <1>5 DEF LineLoop, WordLoop
<1>7. \/ re_re' = "compiled" /\ re_status' = "running"
      \/ re_status' = "exit(1)" /\ re_re' = "undefined"
  BY <1>1 DEF Re!compile
<1> QED BY <1>1, <1>2, <1>4, <1>6, <1>7 DEF ReInv

\* regfree: the loops have found everything when they end.
LEMMA FreeStep == ReInv /\ Re!regfree => ReInv'
<1> SUFFICES ASSUME ReInv, Re!regfree PROVE ReInv'
  OBVIOUS
<1>1. /\ re_status = "running" /\ re_todo # <<>> /\ re_re = "compiled" /\ Re!exhausted
      /\ re_re' = "freed" /\ re_todo' = Tail(re_todo)
      /\ re_status' = IF Len(re_todo) = 1 THEN "exit(0)" ELSE "running"
      /\ UNCHANGED <<re_text, re_cursor, re_notbol, re_found>>
  BY DEF Re!regfree, Re!using
<1>2. /\ LeftOver(re_todo) /\ Collected /\ (Re!pattern = "newline" => LineLoop) /\ (Re!pattern = "scan" => WordLoop)
  BY <1>1 DEF ReInv
<1>3. /\ LeftOver(re_todo') /\ Len(re_todo') = Len(re_todo) - 1
      /\ Len(re_todo) \in 1 .. 8
  BY <1>1, <1>2, Patterns
<1>4. /\ Collected' /\ Matches' = Matches /\ Re!Lines' = Re!Lines
      /\ Re!Words' = Re!Words
  BY <1>1, <1>2 DEF Collected, Offsets, Matches, Re!Lines, Re!Words,
                    Re!capitalised, Re!Within, Re!At
<1>5. re_cursor \in Nat /\ Len(re_text) \in Nat
  BY <1>2 DEF Collected, Offsets
<1>6. ASSUME re_todo' # <<>>, Re!pattern' = "scan" PROVE Matches = Re!Lines
  <2>1. Re!pattern = "newline"
    <3>1. Len(re_todo') = 4
      BY <1>3, <1>6, Places DEF Re!pattern
    <3> QED BY <1>1, <1>2, <1>3, <3>1, Places DEF Re!pattern
  <2>2. Re!Candidates = {} \/ re_cursor = Len(re_text)
    BY <1>1, <2>1 DEF Re!exhausted, Re!Loops
  <2>3. \A o \in Re!Lines : o[1] \in Nat /\ o[1] < Len(re_text)
    BY <1>5 DEF Re!Lines
  <2>4. \A o \in Re!Lines : o[1] < re_cursor
    BY <1>2, <1>5, <2>1, <2>2, <2>3, LineCandidates
  <2> QED BY <1>2, <2>1, <2>4 DEF LineLoop
<1>7. ASSUME re_todo' # <<>>, Re!pattern' = "ipv4" PROVE Matches = Re!Words
  <2>1. Re!pattern = "scan"
    <3>1. Len(re_todo') = 3
      BY <1>3, <1>7, Places DEF Re!pattern
    <3> QED BY <1>1, <1>2, <1>3, <3>1, Places DEF Re!pattern
  <2>2. Re!Candidates = {} \/ re_cursor = Len(re_text)
    BY <1>1, <2>1 DEF Re!exhausted, Re!Loops
  <2>3. \A o \in Re!Words : /\ o[1] \in Nat /\ o[2] \in Nat /\ o[1] < Len(re_text) /\ o[1] < o[2]
                            /\ o[2] <= Len(re_text) /\ Re!capitalised(o[1], o[2]) /\ o = <<o[1], o[2]>>
    BY <1>5 DEF Re!Words, Re!capitalised
  <2>4. ASSUME NEW o \in Re!Words PROVE o[1] < re_cursor
    <3> SUFFICES ASSUME ~ (o[1] < re_cursor) PROVE FALSE
      OBVIOUS
    <3>1. o \in (re_cursor .. Len(re_text)) \X (re_cursor .. Len(re_text))
      BY <1>5, <2>3
    <3>2. o \in Re!Candidates
      BY <1>2, <2>1, <2>3, <3>1, WordCandidates
    <3> QED BY <1>5, <2>2, <2>3, <3>2
  <2> QED BY <1>2, <2>1, <2>4 DEF WordLoop
<1>8. re_status' = "exit(0)" <=> re_todo' = <<>>
  <2>2. re_todo' = <<>> <=> Len(re_todo') = 0
    BY <1>3, Patterns
  <2> QED BY <1>1, <1>3, <2>2
<1> QED BY <1>1, <1>3, <1>4, <1>6, <1>7, <1>8 DEF ReInv

\* A step that only counts keeps the invariant.
LEMMA ReKept ==
    ASSUME ReInv, UNCHANGED <<re_todo, re_re, re_text, re_cursor, re_notbol,
                              re_found, re_status>>
    PROVE  ReInv'
<1>1. /\ Re!Lines' = Re!Lines /\ Re!Words' = Re!Words /\ Matches' = Matches
      /\ Re!pattern' = Re!pattern
  BY DEF Re!Lines, Re!Words, Re!capitalised, Re!Within, Re!At, Matches, Re!pattern
<1>2. Collected => Collected'
  BY DEF Collected, Offsets
<1>3. (LineLoop => LineLoop') /\ (WordLoop => WordLoop')
  BY <1>1 DEF LineLoop, WordLoop, Re!At
<1> QED BY <1>1, <1>2, <1>3 DEF ReInv

\* Every step of exercise 32 keeps the invariant.
LEMMA ReStep == ReInv /\ [Re!Next]_Re!vars => ReInv'
<1> SUFFICES ASSUME ReInv, [Re!Next]_Re!vars PROVE ReInv'
  OBVIOUS
<1>1. ASSUME NEW p, Re!exec_input(p), p \notin Re!Loops PROVE ReInv'
  <2>1. UNCHANGED <<re_todo, re_re, re_text, re_cursor, re_notbol, re_found,
                    re_status>>
    BY <1>1 DEF Re!exec_input
  <2> QED BY <2>1, ReKept
<1>2. CASE Re!compile
  BY <1>2, CompileStep
<1>3. CASE Re!section2_basic \/ Re!section3_groups \/ Re!section4_icase \/ Re!check
  BY <1>1, <1>3 DEF Re!section2_basic, Re!section3_groups, Re!section4_icase,
                    Re!check, Re!Loops
<1>4. CASE Re!scan_lines
  <2>1. /\ re_status = "running" /\ re_todo # <<>> /\ Re!pattern = "newline" /\ re_re = "compiled"
        /\ UNCHANGED <<re_todo, re_re, re_status>>
    BY <1>4 DEF Re!scan_lines, Re!using, Re!collect
  <2>2. Collected' /\ LineLoop'
    BY <1>4, <2>1, LineStep DEF ReInv
  <2>3. Re!pattern' = "newline" /\ LeftOver(re_todo)'
    BY <2>1 DEF Re!pattern, ReInv
  <2> QED BY <2>1, <2>2, <2>3 DEF ReInv
<1>5. CASE Re!scan_words
  <2>1. /\ re_status = "running" /\ re_todo # <<>> /\ Re!pattern = "scan" /\ re_re = "compiled"
        /\ UNCHANGED <<re_todo, re_re, re_status>>
    BY <1>5 DEF Re!scan_words, Re!using, Re!collect
  <2>2. Collected' /\ WordLoop'
    BY <1>5, <2>1, WordStep DEF ReInv
  <2>3. Re!pattern' = "scan" /\ LeftOver(re_todo)'
    BY <2>1 DEF Re!pattern, ReInv
  <2> QED BY <2>1, <2>2, <2>3 DEF ReInv
<1>6. CASE Re!regfree
  BY <1>6, FreeStep
<1>7. CASE UNCHANGED Re!vars
  BY <1>7, ReKept DEF Re!vars
<1> QED BY <1>2, <1>3, <1>4, <1>5, <1>6, <1>7 DEF Re!Next

\* The invariant implies both properties of exercise 32.
LEMMA ReEnds == ReInv => Re!AllFound /\ Re!Freed
<1> SUFFICES ASSUME ReInv PROVE Re!AllFound /\ Re!Freed
  OBVIOUS
<1>1. re_cursor <= Len(re_text)
  BY DEF ReInv, Collected, Offsets
<1>2. Re!AllFound
  BY <1>1 DEF ReInv, Collected, Matches, Re!AllFound
<1> QED BY <1>2 DEF ReInv, Re!Freed

-----------------------------------------------------------------------------
\* Exercise 22, variadic functions.

\* Max of indices is one of them, and the greatest.
LEMMA MaxIndex ==
    ASSUME NEW b \in Nat, NEW S \in SUBSET (1 .. b), S # {}
    PROVE  Var!Max(S) \in S /\ \A y \in S : y <= Var!Max(S)
<1>1. S \in SUBSET (0 .. b)
  OBVIOUS
<1>2. \E x \in S : \A y \in S : y <= x
  BY <1>1, GreatestNumber
<1>3. \E x \in S : \A y \in S : x >= y
  BY <1>2
<1>4. Var!Max(S) \in S /\ \A y \in S : Var!Max(S) >= y
  BY <1>3 DEF Var!Max
<1> QED BY <1>4

-----------------------------------------------------------------------------
\* g sums v over every set of indices up to b, the greatest first, as FoldLeft does.
Sums(v, b, g) ==
    g = [s \in SUBSET (1 .. b) |->
           IF s = {} THEN 0 ELSE g[s \ {Var!Max(s)}] + v[Var!Max(s)]]

\* There is such a g.
LEMMA SumsExist ==
    ASSUME NEW n \in Nat, NEW v
    PROVE  \E g : Sums(v, n, g)
<1> DEFINE T == {b \in Nat : ~ \E g : Sums(v, b, g)}
<1> SUFFICES ASSUME T # {} PROVE FALSE
  OBVIOUS
<1>1. PICK b \in T : \A y \in T : b <= y
  BY LeastNumber
<1>2. CASE b = 0
  <2> DEFINE g == [s \in SUBSET (1 .. 0) |-> 0]
  <2>1. \A s \in SUBSET (1 .. 0) : s = {}
    OBVIOUS
  <2>2. Sums(v, 0, g)
    BY <2>1 DEF Sums
  <2> QED BY <1>1, <1>2, <2>2
<1>3. CASE b # 0
  <2>1. b - 1 \in Nat /\ b - 1 \notin T
    BY <1>1, <1>3
  <2>2. PICK g : Sums(v, b - 1, g)
    BY <2>1
  <2> DEFINE h == [s \in SUBSET (1 .. b) |-> IF b \in s THEN g[s \ {b}] + v[b] ELSE g[s]]
             value(s) == IF s = {} THEN 0 ELSE h[s \ {Var!Max(s)}] + v[Var!Max(s)]
  <2>3. \A s \in SUBSET (1 .. b - 1) : g[s] = IF s = {} THEN 0 ELSE g[s \ {Var!Max(s)}] + v[Var!Max(s)]
    BY <2>2 DEF Sums
  <2>4. ASSUME NEW s \in SUBSET (1 .. b) PROVE h[s] = value(s)
    <3>0. b \in Nat
      BY <1>1
    <3>1. CASE b \in s
      <4>1. Var!Max(s) = b
        <5>1. Var!Max(s) \in s /\ b <= Var!Max(s)
          BY <3>0, <3>1, MaxIndex
        <5>2. Var!Max(s) \in 1 .. b
          BY <5>1
        <5> QED BY <3>0, <5>1, <5>2
      <4>2. h[s] = g[s \ {b}] + v[b] /\ h[s \ {b}] = g[s \ {b}]
        BY <3>1
      <4> QED BY <3>1, <4>1, <4>2
    <3>2. CASE b \notin s
      <4>0. \A x \in s : x \in 1 .. b /\ x # b
        BY <3>2
      <4>a. \A x \in s : x \in 1 .. b - 1
        BY <3>0, <4>0
      <4>1. s \in SUBSET (1 .. b - 1) /\ s \ {Var!Max(s)} \in SUBSET (1 .. b)
        BY <4>0, <4>a
      <4>2. h[s] = g[s] /\ h[s \ {Var!Max(s)}] = g[s \ {Var!Max(s)}]
        BY <3>2, <4>1
      <4> QED BY <2>3, <4>1, <4>2
    <3> QED BY <3>1, <3>2
  <2>5. h = [s \in SUBSET (1 .. b) |-> value(s)]
    <3>1. h = [s \in SUBSET (1 .. b) |-> h[s]]
      OBVIOUS
    <3> HIDE DEF h
    <3> QED BY <2>4, <3>1
  <2> HIDE DEF h
  <2>6. Sums(v, b, h)
    BY <2>5 DEF Sums
  <2> QED BY <1>1, <2>6
<1> QED BY <1>2, <1>3

\* Over the first k indices, such a g adds v[1], v[2] and so on up to v[k].
LEMMA PartialSums ==
    ASSUME NEW n \in Nat, NEW v \in [1 .. n -> Int], NEW g, Sums(v, n, g)
    PROVE  /\ g[1 .. 0] = 0
           /\ \A k \in 1 .. n : g[1 .. k] = g[1 .. k - 1] + v[k]
           /\ \A k \in 0 .. n : g[1 .. k] \in Int
<1>1. g[1 .. 0] = 0
  <2>1. 1 .. 0 = {} /\ {} \in SUBSET (1 .. n)
    OBVIOUS
  <2> QED BY <2>1 DEF Sums
<1>2. ASSUME NEW k \in 1 .. n PROVE g[1 .. k] = g[1 .. k - 1] + v[k]
  <2>0. \A x \in 1 .. k : x \in 1 .. n
    OBVIOUS
  <2>1. 1 .. k \in SUBSET (1 .. n) /\ 1 .. k # {} /\ k \in 1 .. k
    BY <2>0
  <2>2. Var!Max(1 .. k) = k
    <3>1. Var!Max(1 .. k) \in 1 .. k /\ k <= Var!Max(1 .. k)
      BY <2>1, MaxIndex
    <3> QED BY <3>1
  <2>3. (1 .. k) \ {k} = 1 .. k - 1
    OBVIOUS
  <2>4. g[1 .. k] = g[(1 .. k) \ {Var!Max(1 .. k)}] + v[Var!Max(1 .. k)]
    BY <2>1 DEF Sums
  <2> QED BY <2>2, <2>3, <2>4
<1>3. ASSUME NEW k \in 0 .. n PROVE g[1 .. k] \in Int
  <2> DEFINE T == {b \in 0 .. n : g[1 .. b] \notin Int}
  <2> SUFFICES ASSUME T # {} PROVE FALSE
    OBVIOUS
  <2>1. T \in SUBSET Nat
    OBVIOUS
  <2>2. PICK b \in T : \A y \in T : b <= y
    BY <2>1, LeastNumber
  <2>3. b # 0
    BY <1>1, <2>2
  <2>4. b \in 1 .. n /\ b - 1 \in 0 .. n /\ b - 1 \notin T
    BY <2>2, <2>3
  <2>5. g[1 .. b] = g[1 .. b - 1] + v[b] /\ g[1 .. b - 1] \in Int /\ v[b] \in Int
    BY <1>2, <2>4
  <2> QED BY <2>2, <2>5
<1> QED BY <1>1, <1>2, <1>3

-----------------------------------------------------------------------------
Arguments == Seq(Seq(Int))

\* lengths sums the lengths of the arguments, first to last.
LEMMA LengthsSum ==
    ASSUME var_args \in Arguments
    PROVE  \E g : Sums([k \in 1 .. Len(var_args) |-> Len(var_args[k])], Len(var_args), g)
                  /\ Var!lengths = g[1 .. Len(var_args)]
<1> DEFINE n == Len(var_args)
           v == [k \in 1 .. n |-> Len(var_args[k])]
           Eq(h) == h = [s \in SUBSET (DOMAIN var_args) |->
                           IF s = {} THEN 0 ELSE h[s \ {Var!Max(s)}] + Len(var_args[Var!Max(s)])]
           g == CHOOSE h : Eq(h)
<1>1. n \in Nat /\ DOMAIN var_args = 1 .. n
  BY DEF Arguments
<1>2. Var!lengths = g[DOMAIN var_args]
  BY DEF Var!lengths, Var!FoldLeft, Var!MapThenFoldSet
<1>3. ASSUME NEW h PROVE Eq(h) <=> Sums(v, n, h)
  <2>1. \A s \in SUBSET (1 .. n) : s # {} => Len(var_args[Var!Max(s)]) = v[Var!Max(s)]
    BY <1>1, MaxIndex
  <2> HIDE DEF v, n
  <2> QED BY <1>1, <2>1 DEF Sums
<1>4. \E h : Eq(h)
  BY <1>1, <1>3, SumsExist
<1>5. Eq(g)
  <2> HIDE DEF Eq
  <2> QED BY <1>4
<1>6. Sums(v, n, g)
  BY <1>3, <1>5
<1> QED BY <1>1, <1>2, <1>6

\* So does the reference sum of the squares.
Squares == Var!FoldLeft(LAMBDA acc, a : acc + Len(a) * Len(a), 0, var_args)

\* The squares of the lengths, added up.
LEMMA SquaresSum ==
    ASSUME var_args \in Arguments
    PROVE  \E g : Sums([k \in 1 .. Len(var_args) |-> Len(var_args[k]) * Len(var_args[k])],
                       Len(var_args), g)
                  /\ Squares = g[1 .. Len(var_args)]
<1> DEFINE n == Len(var_args)
           v == [k \in 1 .. n |-> Len(var_args[k]) * Len(var_args[k])]
           Eq(h) == h = [s \in SUBSET (DOMAIN var_args) |->
                           IF s = {} THEN 0
                           ELSE h[s \ {Var!Max(s)}]
                                + Len(var_args[Var!Max(s)]) * Len(var_args[Var!Max(s)])]
           g == CHOOSE h : Eq(h)
<1>1. n \in Nat /\ DOMAIN var_args = 1 .. n
  BY DEF Arguments
<1>2. Squares = g[DOMAIN var_args]
  BY DEF Squares, Var!FoldLeft, Var!MapThenFoldSet
<1>3. ASSUME NEW h PROVE Eq(h) <=> Sums(v, n, h)
  <2>1. \A s \in SUBSET (1 .. n) :
          s # {} => Len(var_args[Var!Max(s)]) * Len(var_args[Var!Max(s)]) = v[Var!Max(s)]
    BY <1>1, MaxIndex
  <2> HIDE DEF v, n
  <2> QED BY <1>1, <2>1 DEF Sums
<1>4. \E h : Eq(h)
  BY <1>1, <1>3, SumsExist
<1>5. Eq(g)
  <2> HIDE DEF Eq
  <2> QED BY <1>4
<1>6. Sums(v, n, g)
  BY <1>3, <1>5
<1> QED BY <1>1, <1>2, <1>6

\* And the second pass of stats, which squares each deviation from the total.
SecondPass == Var!FoldLeft(LAMBDA acc, a : acc + Var!deviation(a) * Var!deviation(a), 0, var_args)

\* What the second pass of stats adds up.
LEMMA VarianceSum ==
    ASSUME var_args \in Arguments
    PROVE  \E g : Sums([k \in 1 .. Len(var_args) |->
                          (Len(var_args) * Len(var_args[k]) - var_total)
                          * (Len(var_args) * Len(var_args[k]) - var_total)], Len(var_args), g)
                  /\ SecondPass = g[1 .. Len(var_args)]
<1> DEFINE n == Len(var_args)
           d(k) == n * Len(var_args[k]) - var_total
           v == [k \in 1 .. n |-> d(k) * d(k)]
           Eq(h) == h = [s \in SUBSET (DOMAIN var_args) |->
                           IF s = {} THEN 0
                           ELSE h[s \ {Var!Max(s)}] + d(Var!Max(s)) * d(Var!Max(s))]
           g == CHOOSE h : Eq(h)
<1>1. n \in Nat /\ DOMAIN var_args = 1 .. n
  BY DEF Arguments
<1>2. SecondPass = g[DOMAIN var_args]
  BY DEF SecondPass, Var!deviation, Var!FoldLeft, Var!MapThenFoldSet
<1>3. ASSUME NEW h PROVE Eq(h) <=> Sums(v, n, h)
  <2>1. \A s \in SUBSET (1 .. n) : s # {} => d(Var!Max(s)) * d(Var!Max(s)) = v[Var!Max(s)]
    BY <1>1, MaxIndex
  <2> HIDE DEF v, n, d
  <2> QED BY <1>1, <2>1 DEF Sums
<1>4. \E h : Eq(h)
  BY <1>1, <1>3, SumsExist
<1>5. Eq(g)
  <2> HIDE DEF Eq
  <2> QED BY <1>4
<1>6. Sums(v, n, g)
  BY <1>3, <1>5
<1> QED BY <1>1, <1>2, <1>6

\* The step from one argument to the next in the identity below.
LEMMA Binomial ==
    ASSUME NEW V \in Int, NEW Q \in Int, NEW S \in Int, NEW n \in Int, NEW T \in Int,
           NEW k \in Int, NEW a \in Int,
           V = n * n * Q - 2 * n * T * S + k * T * T
    PROVE  V + (n * a - T) * (n * a - T)
             = n * n * (Q + a * a) - 2 * n * T * (S + a) + (k + 1) * T * T
OBVIOUS

\* n * n * n times the variance is n * n times the sum of squares less n times
\* the square of the sum, when the second pass works with the first one's sum.
LEMMA VarianceIdentity ==
    ASSUME var_args \in Arguments, var_total = Var!lengths
    PROVE  SecondPass = Len(var_args) * Len(var_args) * Squares - Len(var_args) * Var!lengths * Var!lengths
<1> DEFINE n == Len(var_args)
           T == var_total
           a == [k \in 1 .. n |-> Len(var_args[k])]
           q == [k \in 1 .. n |-> Len(var_args[k]) * Len(var_args[k])]
           d == [k \in 1 .. n |-> (n * Len(var_args[k]) - T) * (n * Len(var_args[k]) - T)]
<1>1. n \in Nat /\ \A k \in 1 .. n : Len(var_args[k]) \in Nat
  BY DEF Arguments
<1>2. PICK S : Sums(a, n, S) /\ Var!lengths = S[1 .. n]
  BY LengthsSum
<1>3. PICK Q : Sums(q, n, Q) /\ Squares = Q[1 .. n]
  BY SquaresSum
<1>4. PICK V : Sums(d, n, V) /\ SecondPass = V[1 .. n]
  BY VarianceSum
<1>5. a \in [1 .. n -> Int] /\ \A k \in 1 .. n : a[k] \in Int
  BY <1>1
<1>6. /\ S[1 .. 0] = 0 /\ (\A k \in 1 .. n : S[1 .. k] = S[1 .. k - 1] + a[k])
      /\ \A k \in 0 .. n : S[1 .. k] \in Int
  <2> HIDE DEF n, a
  <2> QED BY <1>1, <1>2, <1>5, PartialSums
<1>7. T \in Int
  <2>1. n \in 0 .. n
    BY <1>1
  <2> QED BY <1>2, <1>6, <2>1
<1>8. q \in [1 .. n -> Int] /\ \A k \in 1 .. n : q[k] = a[k] * a[k]
  BY <1>1
<1>9. \A k \in 1 .. n : d[k] = (n * a[k] - T) * (n * a[k] - T)
  BY <1>1
<1> HIDE DEF n, a, q, T
<1>10. d \in [1 .. n -> Int]
  <2>1. \A k \in 1 .. n : d[k] \in Int
    BY <1>1, <1>5, <1>7, <1>9
  <2> QED BY <2>1
<1> HIDE DEF d
<1>11. /\ Q[1 .. 0] = 0 /\ (\A k \in 1 .. n : Q[1 .. k] = Q[1 .. k - 1] + q[k])
       /\ \A k \in 0 .. n : Q[1 .. k] \in Int
  BY <1>1, <1>3, <1>8, PartialSums
<1>12. /\ V[1 .. 0] = 0 /\ (\A k \in 1 .. n : V[1 .. k] = V[1 .. k - 1] + d[k])
       /\ \A k \in 0 .. n : V[1 .. k] \in Int
  BY <1>1, <1>4, <1>10, PartialSums
<1> DEFINE Holds(k) == V[1 .. k] = n * n * Q[1 .. k] - 2 * n * T * S[1 .. k] + k * T * T
           Bad == {k \in 0 .. n : ~ Holds(k)}
<1>13. Bad = {}
  <2> SUFFICES ASSUME Bad # {} PROVE FALSE
    OBVIOUS
  <2>1. Bad \in SUBSET Nat
    OBVIOUS
  <2>2. PICK k \in Bad : \A y \in Bad : k <= y
    BY <2>1, LeastNumber
  <2>3. k # 0
    <3>1. n * n * 0 - 2 * n * T * 0 + 0 * T * T = 0
      BY <1>1, <1>7
    <3>2. Holds(0)
      BY <1>6, <1>11, <1>12, <3>1
    <3> QED BY <2>2, <3>2
  <2>4. /\ k \in 1 .. n /\ k - 1 \in 0 .. n /\ k - 1 \notin Bad /\ k \in Int
        /\ k - 1 \in Int
    BY <1>1, <2>2, <2>3
  <2>5. Holds(k - 1)
    BY <2>4
  <2>6. /\ V[1 .. k - 1] \in Int /\ Q[1 .. k - 1] \in Int /\ S[1 .. k - 1] \in Int /\ a[k] \in Int
    BY <1>5, <1>6, <1>11, <1>12, <2>4
  <2>7. V[1 .. k - 1] + (n * a[k] - T) * (n * a[k] - T)
          = n * n * (Q[1 .. k - 1] + a[k] * a[k]) - 2 * n * T * (S[1 .. k - 1] + a[k]) + (k - 1 + 1) * T * T
    <3> DEFINE V0 == V[1 .. k - 1]
               Q0 == Q[1 .. k - 1]
               S0 == S[1 .. k - 1]
               j == k - 1
               b == a[k]
    <3>1. V0 = n * n * Q0 - 2 * n * T * S0 + j * T * T
      BY <2>5
    <3>2. /\ V0 \in Int /\ Q0 \in Int /\ S0 \in Int /\ j \in Int /\ b \in Int
          /\ n \in Int
      BY <1>1, <2>4, <2>6
    <3> HIDE DEF V0, Q0, S0, j, b
    <3>3. V0 + (n * b - T) * (n * b - T)
            = n * n * (Q0 + b * b) - 2 * n * T * (S0 + b) + (j + 1) * T * T
      BY <1>7, <3>1, <3>2, Binomial
    <3> QED BY <3>3 DEF V0, Q0, S0, j, b
  <2>8. V[1 .. k] = V[1 .. k - 1] + (n * a[k] - T) * (n * a[k] - T)
    BY <1>9, <1>12, <2>4
  <2>9. Q[1 .. k] = Q[1 .. k - 1] + a[k] * a[k] /\ S[1 .. k] = S[1 .. k - 1] + a[k]
    BY <1>6, <1>8, <1>11, <2>4
  <2>10. k - 1 + 1 = k
    BY <2>4
  <2>11. Holds(k)
    BY <2>7, <2>8, <2>9, <2>10
  <2> QED BY <2>2, <2>11
<1>14. Holds(n)
  <2>1. n \in 0 .. n
    BY <1>1
  <2> QED BY <1>13, <2>1
<1>15. SecondPass = n * n * Squares - 2 * n * T * T + n * T * T
  BY <1>2, <1>3, <1>4, <1>14 DEF T
<1>16. Squares \in Int
  <2>1. n \in 0 .. n
    BY <1>1
  <2> QED BY <1>3, <1>11, <2>1
<1>17. n * n * Squares - 2 * n * T * T + n * T * T = n * n * Squares - n * T * T
  BY <1>1, <1>7, <1>16
<1> QED BY <1>15, <1>17 DEF n, T

-----------------------------------------------------------------------------
\* f puts the first k arguments one after the other.
Joins(a, n, f) == f = [k \in 1 .. n |-> IF k = 1 THEN a[k] ELSE f[k - 1] \o a[k]]

\* Joining strings one after the other is defined for every number of them.
LEMMA JoinsExist ==
    ASSUME NEW n \in Nat, NEW a
    PROVE  \E f : Joins(a, n, f)
<1> DEFINE T == {b \in Nat : ~ \E f : Joins(a, b, f)}
<1> SUFFICES ASSUME T # {} PROVE FALSE
  OBVIOUS
<1>1. PICK b \in T : \A y \in T : b <= y
  BY LeastNumber
<1>2. CASE b = 0
  <2> DEFINE f == [k \in 1 .. 0 |-> 0]
  <2>1. 1 .. 0 = {}
    OBVIOUS
  <2>2. Joins(a, 0, f)
    BY <2>1 DEF Joins
  <2> QED BY <1>1, <1>2, <2>2
<1>3. CASE b # 0
  <2>1. b \in Nat /\ b - 1 \in Nat /\ b - 1 \notin T
    BY <1>1, <1>3
  <2>2. PICK f : Joins(a, b - 1, f)
    BY <2>1
  <2> DEFINE h == [k \in 1 .. b |-> IF k < b THEN f[k] ELSE IF k = 1 THEN a[k] ELSE f[k - 1] \o a[k]]
             value(k) == IF k = 1 THEN a[k] ELSE h[k - 1] \o a[k]
  <2>3. \A k \in 1 .. b - 1 : f[k] = IF k = 1 THEN a[k] ELSE f[k - 1] \o a[k]
    BY <2>2 DEF Joins
  <2>4. ASSUME NEW k \in 1 .. b PROVE h[k] = value(k)
    <3>1. k = 1 \/ (k - 1 \in 1 .. b /\ k - 1 < b)
      BY <2>1
    <3>2. k # 1 => h[k - 1] = f[k - 1]
      BY <3>1
    <3>3. CASE k < b
      <4>1. k \in 1 .. b - 1 /\ h[k] = f[k]
        BY <2>1, <3>3
      <4> QED BY <2>3, <3>2, <4>1
    <3>4. CASE k = b
      <4>1. h[k] = IF k = 1 THEN a[k] ELSE f[k - 1] \o a[k]
        BY <2>1, <3>4
      <4> QED BY <3>2, <4>1
    <3> QED BY <2>1, <3>3, <3>4
  <2>5. h = [k \in 1 .. b |-> value(k)]
    <3>1. h = [k \in 1 .. b |-> h[k]]
      OBVIOUS
    <3> HIDE DEF h
    <3> QED BY <2>4, <3>1
  <2> HIDE DEF h
  <2>6. Joins(a, b, h)
    BY <2>5 DEF Joins
  <2> QED BY <1>1, <2>6
<1> QED BY <1>2, <1>3

\* What a format produces is a string as long as its arguments together.
LEMMA TextMeasured ==
    ASSUME var_args \in Arguments
    PROVE  Var!text \in Seq(Int) /\ Len(Var!text) = Var!lengths /\ Var!lengths \in Nat
<1> DEFINE n == Len(var_args)
           a == [k \in 1 .. n |-> Len(var_args[k])]
<1>1. n \in Nat /\ \A k \in 1 .. n : var_args[k] \in Seq(Int) /\ Len(var_args[k]) \in Nat
  BY DEF Arguments
<1>2. PICK S : Sums(a, n, S) /\ Var!lengths = S[1 .. n]
  BY LengthsSum
<1>3. a \in [1 .. n -> Int] /\ \A k \in 1 .. n : a[k] = Len(var_args[k])
  BY <1>1
<1> HIDE DEF a
<1>4. /\ S[1 .. 0] = 0 /\ (\A k \in 1 .. n : S[1 .. k] = S[1 .. k - 1] + a[k])
      /\ \A k \in 0 .. n : S[1 .. k] \in Int
  BY <1>1, <1>2, <1>3, PartialSums
<1>5. CASE n = 0
  <2>1. var_args = <<>>
    BY <1>5 DEF Arguments
  <2>2. Var!text = <<>>
    BY <1>5, <2>1 DEF Var!text, Var!FlattenSeq
  <2> QED BY <1>2, <1>4, <1>5, <2>2
<1>6. CASE n # 0
  <2> DEFINE Eq(h) == h = [i \in 1 .. n |-> IF i = 1 THEN var_args[i] ELSE h[i - 1] \o var_args[i]]
             f == CHOOSE h : Eq(h)
  <2>1. Var!text = f[n]
    BY <1>6 DEF Var!text, Var!FlattenSeq
  <2>2. \E h : Eq(h)
    <3> HIDE DEF n
    <3>1. PICK h : Joins(var_args, n, h)
      BY <1>1, JoinsExist
    <3>2. Eq(h)
      BY <3>1 DEF Joins
    <3> QED BY <3>2
  <2>3. Eq(f)
    <3> HIDE DEF Eq
    <3> QED BY <2>2
  <2>4. \A k \in 1 .. n : f[k] = IF k = 1 THEN var_args[k] ELSE f[k - 1] \o var_args[k]
    <3> HIDE DEF f, n
    <3> QED BY <2>3
  <2> HIDE DEF f
  <2> DEFINE Holds(k) == f[k] \in Seq(Int) /\ Len(f[k]) = S[1 .. k]
             Bad == {k \in 1 .. n : ~ Holds(k)}
  <2>5. Bad = {}
    <3> SUFFICES ASSUME Bad # {} PROVE FALSE
      OBVIOUS
    <3> HIDE DEF n
    <3>1. Bad \in SUBSET Nat
      OBVIOUS
    <3>2. PICK k \in Bad : \A y \in Bad : k <= y
      BY <3>1, LeastNumber
    <3>3. k \in 1 .. n /\ f[k] = (IF k = 1 THEN var_args[k] ELSE f[k - 1] \o var_args[k])
      BY <2>4, <3>2
    <3>4. var_args[k] \in Seq(Int) /\ S[1 .. k] = S[1 .. k - 1] + Len(var_args[k])
      BY <1>1, <1>3, <1>4, <3>3
    <3>5. k # 1
      <4> SUFFICES ASSUME k = 1 PROVE FALSE
        OBVIOUS
      <4>1. /\ S[1 .. 1] = S[1 .. 0] + Len(var_args[1]) /\ f[1] = var_args[1]
            /\ Len(var_args[1]) \in Nat
        BY <1>1, <3>3, <3>4
      <4>2. Holds(1)
        BY <1>4, <3>4, <4>1
      <4> QED BY <3>2, <4>2
    <3>6. k - 1 \in 1 .. n /\ k - 1 < k
      BY <1>1, <3>3, <3>5
    <3>7. Holds(k - 1)
      <4>1. k - 1 \notin Bad
        BY <3>2, <3>6
      <4> QED BY <3>6, <4>1
    <3>8. f[k] = f[k - 1] \o var_args[k]
      BY <3>3, <3>5
    <3>9. f[k] \in Seq(Int) /\ Len(f[k]) = Len(f[k - 1]) + Len(var_args[k])
      <4> DEFINE s == f[k - 1]
                 t == var_args[k]
      <4>1. s \in Seq(Int) /\ t \in Seq(Int)
        BY <3>4, <3>7
      <4> HIDE DEF s, t
      <4>2. s \o t \in Seq(Int) /\ Len(s \o t) = Len(s) + Len(t)
        BY <4>1
      <4> QED BY <3>8, <4>2 DEF s, t
    <3>10. Holds(k)
      BY <3>4, <3>7, <3>9
    <3> QED BY <3>2, <3>10
  <2>6. Holds(n)
    BY <1>1, <1>6, <2>5
  <2> QED BY <1>2, <2>1, <2>6
<1> QED BY <1>5, <1>6
-----------------------------------------------------------------------------
Simple == {"sum", "maxd", "print_vargs", "count_args", "print_all", "log_msg"}
Function == Simple \cup {"join", "stats", "fmt_alloc"}
OpNames == {"start", "sum", "end", "max", "each", "count", "vsnprintf", "measure",
            "malloc", "strcat", "copy", "variance", "vmeasure", "if_negative"}
Operation == {Var!Va(o, l) : o \in OpNames, l \in {"ap", "ap2", "none"}}

\* How long each function is.
Length(f) == IF f = "join" THEN 7 ELSE IF f = "stats" THEN 6 ELSE IF f = "fmt_alloc" THEN 8 ELSE 3

\* The operation a function is about to do with r of them left, and these r.
Now(f, r) == Var!Program[f][Length(f) - r + 1]
Remaining(f, r) == SubSeq(Var!Program[f], Length(f) - r + 1, Length(f))

\* Each function is a sequence of operations of that length.
LEMMA ProgramOf ==
    ASSUME NEW f \in Function
    PROVE  Len(Var!Program[f]) = Length(f) /\ Var!Program[f] \in Seq(Operation)
<1>1. CASE f = "sum"
  <2>1. Var!Program[f] = Var!sum
    BY <1>1 DEF Var!Program
  <2>2. Length(f) = 3
    BY <1>1 DEF Length
  <2>3. Len(Var!sum) = 3 /\ Var!sum \in Seq(Operation)
    BY DEF Var!sum, Operation, OpNames
  <2> QED BY <2>1, <2>2, <2>3
<1>2. CASE f = "maxd"
  <2>1. Var!Program[f] = Var!maxd
    BY <1>2 DEF Var!Program
  <2>2. Length(f) = 3
    BY <1>2 DEF Length
  <2>3. Len(Var!maxd) = 3 /\ Var!maxd \in Seq(Operation)
    BY DEF Var!maxd, Operation, OpNames
  <2> QED BY <2>1, <2>2, <2>3
<1>3. CASE f = "print_vargs"
  <2>1. Var!Program[f] = Var!print_vargs
    BY <1>3 DEF Var!Program
  <2>2. Length(f) = 3
    BY <1>3 DEF Length
  <2>3. Len(Var!print_vargs) = 3 /\ Var!print_vargs \in Seq(Operation)
    BY DEF Var!print_vargs, Operation, OpNames
  <2> QED BY <2>1, <2>2, <2>3
<1>4. CASE f = "count_args"
  <2>1. Var!Program[f] = Var!count_args
    BY <1>4 DEF Var!Program
  <2>2. Length(f) = 3
    BY <1>4 DEF Length
  <2>3. Len(Var!count_args) = 3 /\ Var!count_args \in Seq(Operation)
    BY DEF Var!count_args, Operation, OpNames
  <2> QED BY <2>1, <2>2, <2>3
<1>5. CASE f = "print_all"
  <2>1. Var!Program[f] = Var!print_all
    BY <1>5 DEF Var!Program
  <2>2. Length(f) = 3
    BY <1>5 DEF Length
  <2>3. Len(Var!print_all) = 3 /\ Var!print_all \in Seq(Operation)
    BY DEF Var!print_all, Operation, OpNames
  <2> QED BY <2>1, <2>2, <2>3
<1>6. CASE f = "log_msg"
  <2>1. Var!Program[f] = Var!log_msg
    BY <1>6 DEF Var!Program
  <2>2. Length(f) = 3
    BY <1>6 DEF Length
  <2>3. Len(Var!log_msg) = 3 /\ Var!log_msg \in Seq(Operation)
    BY DEF Var!log_msg, Operation, OpNames
  <2> QED BY <2>1, <2>2, <2>3
<1>7. CASE f = "join"
  <2>1. Var!Program[f] = Var!join
    BY <1>7 DEF Var!Program
  <2>2. Length(f) = 7
    BY <1>7 DEF Length
  <2>3. Len(Var!join) = 7 /\ Var!join \in Seq(Operation)
    BY DEF Var!join, Operation, OpNames
  <2> QED BY <2>1, <2>2, <2>3
<1>8. CASE f = "stats"
  <2>1. Var!Program[f] = Var!stats
    BY <1>8 DEF Var!Program
  <2>2. Length(f) = 6
    BY <1>8 DEF Length
  <2>3. Len(Var!stats) = 6 /\ Var!stats \in Seq(Operation)
    BY DEF Var!stats, Operation, OpNames
  <2> QED BY <2>1, <2>2, <2>3
<1>9. CASE f = "fmt_alloc"
  <2>1. Var!Program[f] = Var!fmt_alloc
    BY <1>9 DEF Var!Program
  <2>2. Length(f) = 8
    BY <1>9 DEF Length
  <2>3. Len(Var!fmt_alloc) = 8 /\ Var!fmt_alloc \in Seq(Operation)
    BY DEF Var!fmt_alloc, Operation, OpNames
  <2> QED BY <2>1, <2>2, <2>3
<1> QED BY <1>1, <1>2, <1>3, <1>4, <1>5, <1>6, <1>7, <1>8, <1>9 DEF Function, Simple

\* The functions are those of the module.
LEMMA Functions9 == DOMAIN Var!Program = Function
BY DEF Var!Program, Function, Simple

\* What is left begins with the operation due, and goes on with one less.
LEMMA RestStep ==
    ASSUME NEW f \in Function, NEW r \in 0 .. Length(f)
    PROVE  /\ Remaining(f, r) = <<>> <=> r = 0
           /\ Len(Remaining(f, r)) = r
           /\ r # 0 => Head(Remaining(f, r)) = Now(f, r) /\ Tail(Remaining(f, r)) = Remaining(f, r - 1)
<1> DEFINE p == Var!Program[f]
           n == Length(f)
<1>1. p \in Seq(Operation) /\ Len(p) = n
  BY ProgramOf
<1>2. n \in Nat /\ r \in 0 .. n
  BY DEF Length
<1> HIDE DEF p, n
<1>3. Remaining(f, r) = SubSeq(p, n - r + 1, n)
  BY DEF Remaining, p, n
<1>4. \A i \in n - r + 1 .. n : p[i] \in Operation
  <2> SUFFICES ASSUME NEW i \in n - r + 1 .. n PROVE p[i] \in Operation
    OBVIOUS
  <2>1. i \in 1 .. Len(p)
    BY <1>1, <1>2
  <2> QED BY <1>1, <2>1, ElementOfSeq
<1>5. n - r + 1 \in Int /\ n \in Int
  BY <1>2
<1>6. Remaining(f, r) \in Seq(Operation) /\ Len(Remaining(f, r)) = IF n - r + 1 <= n THEN n - (n - r + 1) + 1 ELSE 0
  BY <1>3, <1>4, <1>5, SubSeqProperties
<1>7. Len(Remaining(f, r)) = r
  BY <1>2, <1>6
<1>8. Remaining(f, r) = <<>> <=> r = 0
  BY <1>6, <1>7
<1>9. ASSUME r # 0 PROVE Head(Remaining(f, r)) = Now(f, r) /\ Tail(Remaining(f, r)) = Remaining(f, r - 1)
  <2>1. /\ n - r + 1 \in 1 .. Len(p) /\ n \in n - r + 1 .. Len(p)
        /\ n - (r - 1) + 1 = (n - r + 1) + 1
    BY <1>1, <1>2, <1>9
  <2>2. /\ Head(SubSeq(p, n - r + 1, n)) = p[n - r + 1]
        /\ Tail(SubSeq(p, n - r + 1, n)) = SubSeq(p, (n - r + 1) + 1, n)
    BY <1>1, <2>1, HeadTailOfSubSeq
  <2>3. /\ Remaining(f, r - 1) = SubSeq(p, n - (r - 1) + 1, n)
        /\ Now(f, r) = p[n - r + 1]
    BY DEF Remaining, Now, p, n
  <2> QED BY <1>3, <2>1, <2>2, <2>3
<1> QED BY <1>7, <1>8, <1>9

\* Where each operation stands, and which list it is about.
LEMMA Where ==
    ASSUME NEW f \in Function, NEW r \in 1 .. Length(f)
    PROVE  LET o == Now(f, r).op
               l == Now(f, r).l
           IN
             /\ o = "start" =>
                    \/ l = "ap" /\ f \in Simple /\ r = 3
                    \/ l = "ap" /\ f = "join" /\ r \in {7, 3}
                    \/ l = "ap" /\ f = "stats" /\ r = 6
                    \/ l = "ap" /\ f = "fmt_alloc" /\ r = 8
             /\ o = "sum" =>
                    \/ l = "ap" /\ f = "sum" /\ r = 2
                    \/ l = "ap" /\ f = "stats" /\ r = 4
             /\ o = "end" =>
                    \/ l = "ap" /\ f \in Simple /\ r = 1
                    \/ l = "ap" /\ f = "join" /\ r \in {5, 1}
                    \/ l = "ap" /\ f = "stats" /\ r = 3
                    \/ l = "ap" /\ f = "fmt_alloc" /\ r = 5
                    \/ l = "ap2" /\ f = "stats" /\ r = 1
                    \/ l = "ap2" /\ f = "fmt_alloc" /\ r = 1
             /\ o = "max" =>
                    l = "ap" /\ f = "maxd" /\ r = 2
             /\ o = "each" =>
                    l = "ap" /\ f = "print_vargs" /\ r = 2
             /\ o = "count" =>
                    \/ l = "ap" /\ f = "count_args" /\ r = 2
                    \/ l = "ap" /\ f = "print_all" /\ r = 2
             /\ o = "vsnprintf" =>
                    \/ l = "ap" /\ f = "log_msg" /\ r = 2
                    \/ l = "ap2" /\ f = "fmt_alloc" /\ r = 2
             /\ o = "measure" =>
                    l = "ap" /\ f = "join" /\ r = 6
             /\ o = "malloc" =>
                    \/ f = "join" /\ r = 4
                    \/ f = "fmt_alloc" /\ r = 3
             /\ o = "strcat" =>
                    l = "ap" /\ f = "join" /\ r = 2
             /\ o = "copy" =>
                    \/ l = "ap2" /\ f = "stats" /\ r = 5
                    \/ l = "ap2" /\ f = "fmt_alloc" /\ r = 7
             /\ o = "variance" =>
                    l = "ap2" /\ f = "stats" /\ r = 2
             /\ o = "vmeasure" =>
                    l = "ap" /\ f = "fmt_alloc" /\ r = 6
             /\ o = "if_negative" =>
                    f = "fmt_alloc" /\ r = 4
<1>1. CASE f = "sum"
  <2>1. r \in 1 .. 3 /\ Now(f, r) = Var!sum[3 - r + 1]
    BY <1>1 DEF Length, Now, Var!Program
  <2>2. /\ r = 3 => Now(f, r) = Var!Va("start", "ap")
        /\ r = 2 => Now(f, r) = Var!Va("sum", "ap")
        /\ r = 1 => Now(f, r) = Var!Va("end", "ap")
    BY <2>1 DEF Var!sum
  <2> QED BY <1>1, <2>1, <2>2 DEF Var!Va, Simple
<1>2. CASE f = "maxd"
  <2>1. r \in 1 .. 3 /\ Now(f, r) = Var!maxd[3 - r + 1]
    BY <1>2 DEF Length, Now, Var!Program
  <2>2. /\ r = 3 => Now(f, r) = Var!Va("start", "ap")
        /\ r = 2 => Now(f, r) = Var!Va("max", "ap")
        /\ r = 1 => Now(f, r) = Var!Va("end", "ap")
    BY <2>1 DEF Var!maxd
  <2> QED BY <1>2, <2>1, <2>2 DEF Var!Va, Simple
<1>3. CASE f = "print_vargs"
  <2>1. r \in 1 .. 3 /\ Now(f, r) = Var!print_vargs[3 - r + 1]
    BY <1>3 DEF Length, Now, Var!Program
  <2>2. /\ r = 3 => Now(f, r) = Var!Va("start", "ap")
        /\ r = 2 => Now(f, r) = Var!Va("each", "ap")
        /\ r = 1 => Now(f, r) = Var!Va("end", "ap")
    BY <2>1 DEF Var!print_vargs
  <2> QED BY <1>3, <2>1, <2>2 DEF Var!Va, Simple
<1>4. CASE f = "count_args"
  <2>1. r \in 1 .. 3 /\ Now(f, r) = Var!count_args[3 - r + 1]
    BY <1>4 DEF Length, Now, Var!Program
  <2>2. /\ r = 3 => Now(f, r) = Var!Va("start", "ap")
        /\ r = 2 => Now(f, r) = Var!Va("count", "ap")
        /\ r = 1 => Now(f, r) = Var!Va("end", "ap")
    BY <2>1 DEF Var!count_args
  <2> QED BY <1>4, <2>1, <2>2 DEF Var!Va, Simple
<1>5. CASE f = "print_all"
  <2>1. r \in 1 .. 3 /\ Now(f, r) = Var!print_all[3 - r + 1]
    BY <1>5 DEF Length, Now, Var!Program
  <2>2. /\ r = 3 => Now(f, r) = Var!Va("start", "ap")
        /\ r = 2 => Now(f, r) = Var!Va("count", "ap")
        /\ r = 1 => Now(f, r) = Var!Va("end", "ap")
    BY <2>1 DEF Var!print_all
  <2> QED BY <1>5, <2>1, <2>2 DEF Var!Va, Simple
<1>6. CASE f = "log_msg"
  <2>1. r \in 1 .. 3 /\ Now(f, r) = Var!log_msg[3 - r + 1]
    BY <1>6 DEF Length, Now, Var!Program
  <2>2. /\ r = 3 => Now(f, r) = Var!Va("start", "ap")
        /\ r = 2 => Now(f, r) = Var!Va("vsnprintf", "ap")
        /\ r = 1 => Now(f, r) = Var!Va("end", "ap")
    BY <2>1 DEF Var!log_msg
  <2> QED BY <1>6, <2>1, <2>2 DEF Var!Va, Simple
<1>7. CASE f = "join"
  <2>1. r \in 1 .. 7 /\ Now(f, r) = Var!join[7 - r + 1]
    BY <1>7 DEF Length, Now, Var!Program
  <2>2. /\ Var!join[1] = Var!Va("start", "ap")
        /\ Var!join[2] = Var!Va("measure", "ap")
        /\ Var!join[3] = Var!Va("end", "ap")
        /\ Var!join[4] = Var!Va("malloc", "none")
        /\ Var!join[5] = Var!Va("start", "ap")
        /\ Var!join[6] = Var!Va("strcat", "ap")
        /\ Var!join[7] = Var!Va("end", "ap")
    BY DEF Var!join
  <2>3. CASE r = 7
    <3>0. 7 - r + 1 = 1
      BY <2>3
    <3>1. Now(f, r) = Var!Va("start", "ap")
      BY <2>1, <2>2, <3>0
    <3>2. Now(f, r).op = "start" /\ Now(f, r).l = "ap"
      BY <3>1 DEF Var!Va
    <3> QED BY <1>7, <2>3, <3>2 DEF Simple
  <2>4. CASE r = 6
    <3>0. 7 - r + 1 = 2
      BY <2>4
    <3>1. Now(f, r) = Var!Va("measure", "ap")
      BY <2>1, <2>2, <3>0
    <3>2. Now(f, r).op = "measure" /\ Now(f, r).l = "ap"
      BY <3>1 DEF Var!Va
    <3> QED BY <1>7, <2>4, <3>2 DEF Simple
  <2>5. CASE r = 5
    <3>0. 7 - r + 1 = 3
      BY <2>5
    <3>1. Now(f, r) = Var!Va("end", "ap")
      BY <2>1, <2>2, <3>0
    <3>2. Now(f, r).op = "end" /\ Now(f, r).l = "ap"
      BY <3>1 DEF Var!Va
    <3> QED BY <1>7, <2>5, <3>2 DEF Simple
  <2>6. CASE r = 4
    <3>0. 7 - r + 1 = 4
      BY <2>6
    <3>1. Now(f, r) = Var!Va("malloc", "none")
      BY <2>1, <2>2, <3>0
    <3>2. Now(f, r).op = "malloc" /\ Now(f, r).l = "none"
      BY <3>1 DEF Var!Va
    <3> QED BY <1>7, <2>6, <3>2 DEF Simple
  <2>7. CASE r = 3
    <3>0. 7 - r + 1 = 5
      BY <2>7
    <3>1. Now(f, r) = Var!Va("start", "ap")
      BY <2>1, <2>2, <3>0
    <3>2. Now(f, r).op = "start" /\ Now(f, r).l = "ap"
      BY <3>1 DEF Var!Va
    <3> QED BY <1>7, <2>7, <3>2 DEF Simple
  <2>8. CASE r = 2
    <3>0. 7 - r + 1 = 6
      BY <2>8
    <3>1. Now(f, r) = Var!Va("strcat", "ap")
      BY <2>1, <2>2, <3>0
    <3>2. Now(f, r).op = "strcat" /\ Now(f, r).l = "ap"
      BY <3>1 DEF Var!Va
    <3> QED BY <1>7, <2>8, <3>2 DEF Simple
  <2>9. CASE r = 1
    <3>0. 7 - r + 1 = 7
      BY <2>9
    <3>1. Now(f, r) = Var!Va("end", "ap")
      BY <2>1, <2>2, <3>0
    <3>2. Now(f, r).op = "end" /\ Now(f, r).l = "ap"
      BY <3>1 DEF Var!Va
    <3> QED BY <1>7, <2>9, <3>2 DEF Simple
  <2>10. r = 1 \/ r = 2 \/ r = 3 \/ r = 4 \/ r = 5 \/ r = 6 \/ r = 7
    BY <2>1
  <2> QED BY <2>10, <2>3, <2>4, <2>5, <2>6, <2>7, <2>8, <2>9
<1>8. CASE f = "stats"
  <2>1. r \in 1 .. 6 /\ Now(f, r) = Var!stats[6 - r + 1]
    BY <1>8 DEF Length, Now, Var!Program
  <2>2. /\ r = 6 => Now(f, r) = Var!Va("start", "ap")
        /\ r = 5 => Now(f, r) = Var!Va("copy", "ap2")
        /\ r = 4 => Now(f, r) = Var!Va("sum", "ap")
        /\ r = 3 => Now(f, r) = Var!Va("end", "ap")
        /\ r = 2 => Now(f, r) = Var!Va("variance", "ap2")
        /\ r = 1 => Now(f, r) = Var!Va("end", "ap2")
    BY <2>1 DEF Var!stats
  <2> QED BY <1>8, <2>1, <2>2 DEF Var!Va, Simple
<1>9. CASE f = "fmt_alloc"
  <2>1. r \in 1 .. 8 /\ Now(f, r) = Var!fmt_alloc[8 - r + 1]
    BY <1>9 DEF Length, Now, Var!Program
  <2>2. /\ Var!fmt_alloc[1] = Var!Va("start", "ap")
        /\ Var!fmt_alloc[2] = Var!Va("copy", "ap2")
        /\ Var!fmt_alloc[3] = Var!Va("vmeasure", "ap")
        /\ Var!fmt_alloc[4] = Var!Va("end", "ap")
        /\ Var!fmt_alloc[5] = Var!Va("if_negative", "none")
        /\ Var!fmt_alloc[6] = Var!Va("malloc", "none")
        /\ Var!fmt_alloc[7] = Var!Va("vsnprintf", "ap2")
        /\ Var!fmt_alloc[8] = Var!Va("end", "ap2")
    BY DEF Var!fmt_alloc
  <2>3. CASE r = 8
    <3>0. 8 - r + 1 = 1
      BY <2>3
    <3>1. Now(f, r) = Var!Va("start", "ap")
      BY <2>1, <2>2, <3>0
    <3>2. Now(f, r).op = "start" /\ Now(f, r).l = "ap"
      BY <3>1 DEF Var!Va
    <3> QED BY <1>9, <2>3, <3>2 DEF Simple
  <2>4. CASE r = 7
    <3>0. 8 - r + 1 = 2
      BY <2>4
    <3>1. Now(f, r) = Var!Va("copy", "ap2")
      BY <2>1, <2>2, <3>0
    <3>2. Now(f, r).op = "copy" /\ Now(f, r).l = "ap2"
      BY <3>1 DEF Var!Va
    <3> QED BY <1>9, <2>4, <3>2 DEF Simple
  <2>5. CASE r = 6
    <3>0. 8 - r + 1 = 3
      BY <2>5
    <3>1. Now(f, r) = Var!Va("vmeasure", "ap")
      BY <2>1, <2>2, <3>0
    <3>2. Now(f, r).op = "vmeasure" /\ Now(f, r).l = "ap"
      BY <3>1 DEF Var!Va
    <3> QED BY <1>9, <2>5, <3>2 DEF Simple
  <2>6. CASE r = 5
    <3>0. 8 - r + 1 = 4
      BY <2>6
    <3>1. Now(f, r) = Var!Va("end", "ap")
      BY <2>1, <2>2, <3>0
    <3>2. Now(f, r).op = "end" /\ Now(f, r).l = "ap"
      BY <3>1 DEF Var!Va
    <3> QED BY <1>9, <2>6, <3>2 DEF Simple
  <2>7. CASE r = 4
    <3>0. 8 - r + 1 = 5
      BY <2>7
    <3>1. Now(f, r) = Var!Va("if_negative", "none")
      BY <2>1, <2>2, <3>0
    <3>2. Now(f, r).op = "if_negative" /\ Now(f, r).l = "none"
      BY <3>1 DEF Var!Va
    <3> QED BY <1>9, <2>7, <3>2 DEF Simple
  <2>8. CASE r = 3
    <3>0. 8 - r + 1 = 6
      BY <2>8
    <3>1. Now(f, r) = Var!Va("malloc", "none")
      BY <2>1, <2>2, <3>0
    <3>2. Now(f, r).op = "malloc" /\ Now(f, r).l = "none"
      BY <3>1 DEF Var!Va
    <3> QED BY <1>9, <2>8, <3>2 DEF Simple
  <2>9. CASE r = 2
    <3>0. 8 - r + 1 = 7
      BY <2>9
    <3>1. Now(f, r) = Var!Va("vsnprintf", "ap2")
      BY <2>1, <2>2, <3>0
    <3>2. Now(f, r).op = "vsnprintf" /\ Now(f, r).l = "ap2"
      BY <3>1 DEF Var!Va
    <3> QED BY <1>9, <2>9, <3>2 DEF Simple
  <2>10. CASE r = 1
    <3>0. 8 - r + 1 = 8
      BY <2>10
    <3>1. Now(f, r) = Var!Va("end", "ap2")
      BY <2>1, <2>2, <3>0
    <3>2. Now(f, r).op = "end" /\ Now(f, r).l = "ap2"
      BY <3>1 DEF Var!Va
    <3> QED BY <1>9, <2>10, <3>2 DEF Simple
  <2>11. r = 1 \/ r = 2 \/ r = 3 \/ r = 4 \/ r = 5 \/ r = 6 \/ r = 7 \/ r = 8
    BY <2>1
  <2> QED BY <2>11, <2>3, <2>4, <2>5, <2>6, <2>7, <2>8, <2>9, <2>10
<1> QED BY <1>1, <1>2, <1>3, <1>4, <1>5, <1>6, <1>7, <1>8, <1>9 DEF Function, Simple

-----------------------------------------------------------------------------
\* The function and its arguments.
Passed == var_fn \in Function /\ var_args \in Arguments

\* What is left of the function are its last operations, however it got there.
Place ==
    /\ Len(var_todo) \in 0 .. Length(var_fn)
    /\ var_todo = Remaining(var_fn, Len(var_todo))

\* The values of the two lists with r operations left: off, before the first
\* argument, or anywhere.
InAp(f, r) ==
    IF f = "join" THEN IF r \in {7, 4, 3, 0} THEN {Var!Off} ELSE IF r \in {6, 2} THEN {0} ELSE Nat
    ELSE IF f = "stats" THEN IF r \in {6, 2, 1, 0} THEN {Var!Off} ELSE IF r \in {5, 4} THEN {0} ELSE Nat
    ELSE IF f = "fmt_alloc"
         THEN IF r \in {8, 4, 3, 2, 1, 0} THEN {Var!Off} ELSE IF r \in {7, 6} THEN {0} ELSE Nat
    ELSE IF r \in {3, 0} THEN {Var!Off} ELSE IF r = 2 THEN {0} ELSE Nat

InAp2(f, r) ==
    IF f = "stats" THEN IF r \in {6, 5, 0} THEN {Var!Off} ELSE IF r = 1 THEN Nat ELSE {0}
    ELSE IF f = "fmt_alloc" THEN IF r \in {8, 7, 0} THEN {Var!Off} ELSE IF r = 1 THEN Nat ELSE {0}
    ELSE {Var!Off}

ListsAt(r) ==
    /\ var_bad = FALSE /\ var_ap \in [Var!Lists -> Int]
    /\ var_ap["ap"] \in InAp(var_fn, r) /\ var_ap["ap2"] \in InAp2(var_fn, r)

\* What stats has computed.
CountsAt(r) ==
    /\ var_fn = "stats" /\ r <= 3 => var_total = Var!lengths
    /\ var_fn = "stats" /\ r <= 1 =>
         var_variance = Len(var_args) * Len(var_args) * Squares - Len(var_args) * Var!lengths * Var!lengths

\* The buffer holds all of the text, or there is none.
Full == var_room = Var!lengths + 1 /\ var_out = Var!text
Without == var_room = 0 /\ var_failed = TRUE /\ var_out = <<>>
\* Or there is one that the failed vsnprintf did not write.
Spoilt == var_failed = TRUE /\ var_out = Var!Garbage

JoinAt(r) ==
    /\ r >= 4 => var_room = 0
    /\ r >= 2 => var_out = <<>>
    /\ r \in {4, 5} => var_total = 1 + Var!lengths
    /\ r \in {2, 3} => var_room = 1 + Var!lengths
    /\ r = 1 => Full
    /\ r = 0 => Full \/ Without

FormatAt(r) ==
    /\ r >= 3 => var_room = 0
    /\ r >= 2 => var_out = <<>>
    /\ r \in {4, 5} => var_total = Var!lengths + 1 \/ (var_total = -1 /\ var_failed = TRUE)
    /\ r = 3 => var_total = Var!lengths + 1
    /\ r = 2 => var_room = Var!lengths + 1 \/ (var_room = 0 /\ var_failed = TRUE)
    /\ r <= 1 => Full \/ Without \/ (Spoilt /\ var_room = Var!lengths + 1)

\* As much of a text as log_msg's buffer holds.
Fitting(t) == SubSeq(t, 1, Var!Min({Len(t), LOGSZ - 1}))

LogAt(r) ==
    /\ var_room = LOGSZ
    /\ r >= 2 => var_out = <<>>
    /\ r <= 1 => IF LOGSZ = 0 THEN var_out = <<>> ELSE Spoilt \/ var_out = Fitting(Var!text)

BufferAt(r) ==
    /\ var_fn \notin {"join", "fmt_alloc", "log_msg"} => var_out = <<>>
    /\ var_fn = "join" => JoinAt(r)
    /\ var_fn = "fmt_alloc" => FormatAt(r)
    /\ var_fn = "log_msg" => LogAt(r)

VarInv ==
    /\ Passed /\ Place
    /\ ListsAt(Len(var_todo)) /\ CountsAt(Len(var_todo)) /\ BufferAt(Len(var_todo))

\* A function of the arguments is the same as long as they are.
LengthsOf(a) == Var!FoldLeft(LAMBDA acc, x : acc + Len(x), 0, a)
SquaresOf(a) == Var!FoldLeft(LAMBDA acc, x : acc + Len(x) * Len(x), 0, a)
TextOf(a) == Var!FlattenSeq(a)

\* What is computed from the arguments stays as they do.
LEMMA SameArguments ==
    ASSUME UNCHANGED var_args
    PROVE  Var!lengths' = Var!lengths /\ Squares' = Squares /\ Var!text' = Var!text
<1>1. Var!lengths = LengthsOf(var_args) /\ Var!lengths' = LengthsOf(var_args')
  BY DEF Var!lengths, LengthsOf, Var!FoldLeft, Var!MapThenFoldSet
<1>2. Squares = SquaresOf(var_args) /\ Squares' = SquaresOf(var_args')
  BY DEF Squares, SquaresOf, Var!FoldLeft, Var!MapThenFoldSet
<1>3. Var!text = TextOf(var_args) /\ Var!text' = TextOf(var_args')
  BY DEF Var!text, TextOf
<1> QED BY <1>1, <1>2, <1>3

\* The operation that is due, and the place after it.
LEMMA Due ==
    ASSUME Passed, Place, var_todo # <<>>
    PROVE  /\ Len(var_todo) \in 1 .. Length(var_fn) /\ Length(var_fn) \in Nat
           /\ Head(var_todo) = Now(var_fn, Len(var_todo))
           /\ Tail(var_todo) = Remaining(var_fn, Len(var_todo) - 1)
           /\ Len(Tail(var_todo)) = Len(var_todo) - 1
<1> DEFINE r == Len(var_todo)
<1>1. /\ var_fn \in Function /\ r \in 0 .. Length(var_fn)
      /\ var_todo = Remaining(var_fn, r)
  BY DEF Passed, Place
<1>2. Length(var_fn) \in Nat
  BY DEF Length
<1> HIDE DEF r
<1>3. r # 0
  BY <1>1, RestStep
<1>4. Head(var_todo) = Now(var_fn, r) /\ Tail(var_todo) = Remaining(var_fn, r - 1)
  BY <1>1, <1>3, RestStep
<1>5. r - 1 \in 0 .. Length(var_fn)
  BY <1>1, <1>2, <1>3
<1>6. Len(Tail(var_todo)) = r - 1
  BY <1>1, <1>4, <1>5, RestStep
<1> QED BY <1>1, <1>2, <1>3, <1>4, <1>6 DEF r

\* Going on to the next operation.
LEMMA Stepped ==
    ASSUME Passed, Place, var_todo # <<>>, var_todo' = Tail(var_todo), UNCHANGED <<var_fn, var_args>>
    PROVE  Passed' /\ Place' /\ Len(var_todo') = Len(var_todo) - 1
<1>1. /\ Len(var_todo) \in 1 .. Length(var_fn) /\ Length(var_fn) \in Nat
      /\ Tail(var_todo) = Remaining(var_fn, Len(var_todo) - 1) /\ Len(Tail(var_todo)) = Len(var_todo) - 1
  BY Due
<1>2. Len(var_todo') \in 0 .. Length(var_fn)
  BY <1>1
<1>3. Passed'
  BY DEF Passed
<1> QED BY <1>1, <1>2, <1>3 DEF Place

\* Returning early.
LEMMA Returned ==
    ASSUME Passed, var_todo' = <<>>, UNCHANGED <<var_fn, var_args>>
    PROVE  Passed' /\ Place' /\ Len(var_todo') = 0
<1>1. Len(var_todo') = 0 /\ Length(var_fn) \in Nat
  BY DEF Length
<1>2. Remaining(var_fn, 0) = <<>>
  BY <1>1, RestStep DEF Passed
<1> QED BY <1>1, <1>2 DEF Passed, Place

\* va_start, va_copy and va_end find their list as they need it.
LEMMA ListStep ==
    ASSUME VarInv, Var!va_start \/ Var!va_copy \/ Var!va_end
    PROVE  VarInv'
<1> DEFINE r == Len(var_todo)
           f == var_fn
           l == Now(f, r).l
           o == Now(f, r).op
<1>1. /\ var_todo # <<>> /\ var_todo' = Tail(var_todo)
      /\ UNCHANGED <<var_fn, var_args, var_total, var_variance, var_room, var_out,
                     var_failed>>
  BY DEF Var!va_start, Var!va_copy, Var!va_end, Var!is, Var!step
<1>2. /\ Passed /\ Place /\ ListsAt(r) /\ CountsAt(r) /\ BufferAt(r)
  BY DEF VarInv
<1>3. /\ r \in 1 .. Length(f) /\ Length(f) \in Nat /\ Head(var_todo) = Now(f, r) /\ f \in Function
  BY <1>1, <1>2, Due DEF Passed
<1>4. Passed' /\ Place' /\ Len(var_todo') = r - 1
  BY <1>1, <1>2, Stepped
<1>5. Var!lengths' = Var!lengths /\ Squares' = Squares /\ Var!text' = Var!text
  BY <1>1, SameArguments
<1>6. \/ o = "start" /\ var_bad' = (var_bad \/ var_ap[l] # Var!Off) /\ var_ap' = [var_ap EXCEPT ![l] = 0]
      \/ /\ o = "copy" /\ var_bad' = (var_bad \/ var_ap["ap"] = Var!Off \/ var_ap[l] # Var!Off)
         /\ var_ap' = [var_ap EXCEPT ![l] = var_ap["ap"]]
      \/ o = "end" /\ var_bad' = (var_bad \/ var_ap[l] = Var!Off) /\ var_ap' = [var_ap EXCEPT ![l] = Var!Off]
  BY <1>3 DEF Var!va_start, Var!va_copy, Var!va_end, Var!is, Var!list
<1>7. /\ o = "start" => \/ l = "ap" /\ f \in Simple /\ r = 3
                        \/ l = "ap" /\ f = "join" /\ r \in {7, 3}
                        \/ l = "ap" /\ f = "stats" /\ r = 6
                        \/ l = "ap" /\ f = "fmt_alloc" /\ r = 8
      /\ o = "copy" => \/ l = "ap2" /\ f = "stats" /\ r = 5
                       \/ l = "ap2" /\ f = "fmt_alloc" /\ r = 7
      /\ o = "end" => \/ l = "ap" /\ f \in Simple /\ r = 1
                      \/ l = "ap" /\ f = "join" /\ r \in {5, 1}
                      \/ l = "ap" /\ f = "stats" /\ r = 3
                      \/ l = "ap" /\ f = "fmt_alloc" /\ r = 5
                      \/ l = "ap2" /\ f = "stats" /\ r = 1
                      \/ l = "ap2" /\ f = "fmt_alloc" /\ r = 1
  BY <1>3, Where
<1>8. r \in Int /\ f' = f
  BY <1>1, <1>3
<1> HIDE DEF o, l, r, f
<1>9. o \in {"start", "copy", "end"}
  BY <1>6
<1>10. CountsAt(Len(var_todo))'
  <2>1. f = "stats" => r # 4 /\ r # 2
    BY <1>7, <1>9 DEF Simple
  <2>2. f \in Var!Sentinel => r # 2
    BY <1>7, <1>9 DEF Simple, Var!Sentinel
  <2> QED BY <1>1, <1>2, <1>4, <1>5, <1>8, <2>1, <2>2 DEF CountsAt, f
<1>11. BufferAt(Len(var_todo))'
  <2>1. f = "join" => r \in {7, 5, 3, 1}
    BY <1>7, <1>9 DEF Simple
  <2>2. f = "fmt_alloc" => r \in {8, 7, 5, 1}
    BY <1>7, <1>9 DEF Simple
  <2>3. f = "log_msg" => r \in {3, 1}
    BY <1>7, <1>9 DEF Simple
  <2>4. (Full => Full') /\ (Without => Without')
    BY <1>1, <1>5 DEF Full, Without
  <2>5. f = "join" => JoinAt(Len(var_todo))'
    <3> SUFFICES ASSUME f = "join" PROVE JoinAt(Len(var_todo))'
      OBVIOUS
    <3>1. JoinAt(r)
      BY <1>2 DEF BufferAt, f
    <3>0. var_room' = var_room /\ var_out' = var_out /\ var_total' = var_total
      BY <1>1
    <3>2. CASE r = 7
      <4>1. var_room = 0 /\ var_out = <<>>
        BY <3>1, <3>2 DEF JoinAt
      <4>2. Len(var_todo') = 6
        BY <1>4, <3>2
      <4> QED BY <3>0, <4>1, <4>2 DEF JoinAt
    <3>3. CASE r = 5
      <4>1. var_room = 0 /\ var_out = <<>> /\ var_total = 1 + Var!lengths
        BY <3>1, <3>3 DEF JoinAt
      <4>2. Len(var_todo') = 4
        BY <1>4, <3>3
      <4> QED BY <3>0, <1>5, <4>1, <4>2 DEF JoinAt
    <3>4. CASE r = 3
      <4>1. var_out = <<>> /\ var_room = 1 + Var!lengths
        BY <3>1, <3>4 DEF JoinAt
      <4>2. Len(var_todo') = 2
        BY <1>4, <3>4
      <4> QED BY <3>0, <1>5, <4>1, <4>2 DEF JoinAt
    <3>5. CASE r = 1
      <4>1. Full'
        BY <2>4, <3>1, <3>5 DEF JoinAt
      <4>2. Len(var_todo') = 0
        BY <1>4, <3>5
      <4> QED BY <4>1, <4>2 DEF JoinAt
    <3> QED BY <2>1, <3>2, <3>3, <3>4, <3>5
  <2>6. f = "fmt_alloc" => FormatAt(Len(var_todo))'
    <3> SUFFICES ASSUME f = "fmt_alloc" PROVE FormatAt(Len(var_todo))'
      OBVIOUS
    <3>0. /\ var_room' = var_room /\ var_out' = var_out /\ var_total' = var_total
          /\ var_failed' = var_failed
      BY <1>1
    <3>1. FormatAt(r)
      BY <1>2 DEF BufferAt, f
    <3>2. CASE r = 8
      <4>1. var_room = 0 /\ var_out = <<>>
        BY <3>1, <3>2 DEF FormatAt
      <4>2. Len(var_todo') = 7
        BY <1>4, <3>2
      <4>3. var_room' = 0 /\ var_out' = <<>>
        BY <3>0, <4>1
      <4> QED BY <4>2, <4>3 DEF FormatAt
    <3>5. CASE r = 7
      <4>1. var_room = 0 /\ var_out = <<>>
        BY <3>1, <3>5 DEF FormatAt
      <4>2. Len(var_todo') = 6
        BY <1>4, <3>5
      <4>3. var_room' = 0 /\ var_out' = <<>>
        BY <3>0, <4>1
      <4> QED BY <4>2, <4>3 DEF FormatAt
    <3>3. CASE r = 5
      <4>1. /\ var_room = 0 /\ var_out = <<>>
            /\ var_total = Var!lengths + 1 \/ (var_total = -1 /\ var_failed = TRUE)
        BY <3>1, <3>3 DEF FormatAt
      <4>2. Len(var_todo') = 4
        BY <1>4, <3>3
      <4> QED BY <1>5, <3>0, <4>1, <4>2 DEF FormatAt
    <3>4. CASE r = 1
      <4>1. Full' \/ Without' \/ (Spoilt' /\ var_room' = Var!lengths' + 1)
        <5>1. Spoilt /\ var_room = Var!lengths + 1 => Spoilt' /\ var_room' = Var!lengths' + 1
          BY <1>5, <3>0 DEF Spoilt
        <5> QED BY <2>4, <3>1, <3>4, <5>1 DEF FormatAt
      <4>2. Len(var_todo') = 0
        BY <1>4, <3>4
      <4> QED BY <4>1, <4>2 DEF FormatAt
    <3> QED BY <2>2, <3>2, <3>3, <3>4, <3>5
  <2>7. f = "log_msg" => LogAt(Len(var_todo))'
    BY <1>1, <1>2, <1>4, <1>5, <1>8, <2>3 DEF BufferAt, LogAt, Spoilt, f
  <2> QED BY <1>1, <1>2, <2>5, <2>6, <2>7 DEF BufferAt, f
<1>12. ListsAt(Len(var_todo))'
  <2>1. /\ var_bad = FALSE /\ var_ap \in [{"ap", "ap2"} -> Int]
        /\ var_ap["ap"] \in InAp(f, r) /\ var_ap["ap2"] \in InAp2(f, r)
    BY <1>2 DEF ListsAt, Var!Lists, f
  <2>2. Var!Off = -1
    BY DEF Var!Off
  <2>3. CASE o = "start"
    <3>1. /\ l = "ap" /\ InAp(f, r) = {Var!Off} /\ InAp(f, r - 1) = {0}
          /\ InAp2(f, r - 1) = InAp2(f, r)
      BY <1>7, <2>3 DEF InAp, InAp2, Simple
    <3>2. var_bad' = (var_bad \/ var_ap["ap"] # Var!Off) /\ var_ap' = [var_ap EXCEPT !["ap"] = 0]
      BY <1>6, <2>3, <3>1
    <3>3. var_ap["ap"] = Var!Off
      BY <2>1, <3>1
    <3>4. var_bad' = FALSE
      BY <2>1, <3>2, <3>3
    <3> QED BY <1>4, <1>8, <2>1, <3>1, <3>2, <3>4 DEF ListsAt, Var!Lists, f
  <2>4. CASE o = "copy"
    <3>1. /\ l = "ap2" /\ InAp(f, r) = {0} /\ InAp(f, r - 1) = {0}
          /\ InAp2(f, r) = {Var!Off} /\ InAp2(f, r - 1) = {0}
      BY <1>7, <2>4 DEF InAp, InAp2
    <3>2. /\ var_bad' = (var_bad \/ var_ap["ap"] = Var!Off \/ var_ap["ap2"] # Var!Off)
          /\ var_ap' = [var_ap EXCEPT !["ap2"] = var_ap["ap"]]
      BY <1>6, <2>4, <3>1
    <3>3. var_ap["ap"] = 0 /\ var_ap["ap"] # Var!Off /\ var_ap["ap2"] = Var!Off
      BY <2>1, <2>2, <3>1
    <3>4. var_bad' = FALSE
      BY <2>1, <3>2, <3>3
    <3> QED BY <1>4, <1>8, <2>1, <3>1, <3>2, <3>3, <3>4 DEF ListsAt, Var!Lists, f
  <2>5. CASE o = "end" /\ l = "ap"
    <3>1. /\ InAp(f, r) = Nat /\ InAp(f, r - 1) = {Var!Off}
          /\ InAp2(f, r - 1) = InAp2(f, r)
      BY <1>7, <2>5 DEF InAp, InAp2, Simple
    <3>2. var_bad' = (var_bad \/ var_ap["ap"] = Var!Off) /\ var_ap' = [var_ap EXCEPT !["ap"] = Var!Off]
      BY <1>6, <2>5
    <3>3. var_ap["ap"] # Var!Off
      BY <2>1, <2>2, <3>1
    <3>4. var_bad' = FALSE
      BY <2>1, <3>2, <3>3
    <3> QED BY <1>4, <1>8, <2>1, <2>2, <3>1, <3>2, <3>4 DEF ListsAt, Var!Lists, f
  <2>6. CASE o = "end" /\ l = "ap2"
    <3>1. /\ InAp2(f, r) = Nat /\ InAp2(f, r - 1) = {Var!Off}
          /\ InAp(f, r - 1) = InAp(f, r)
      BY <1>7, <2>6 DEF InAp, InAp2, Simple
    <3>2. var_bad' = (var_bad \/ var_ap["ap2"] = Var!Off) /\ var_ap' = [var_ap EXCEPT !["ap2"] = Var!Off]
      BY <1>6, <2>6
    <3>3. var_ap["ap2"] # Var!Off
      BY <2>1, <2>2, <3>1
    <3>4. var_bad' = FALSE
      BY <2>1, <3>2, <3>3
    <3> QED BY <1>4, <1>8, <2>1, <2>2, <3>1, <3>2, <3>4 DEF ListsAt, Var!Lists, f
  <2> QED BY <1>7, <1>9, <2>3, <2>4, <2>5, <2>6
<1> QED BY <1>4, <1>10, <1>11, <1>12 DEF VarInv

\* The operations that read the arguments.
Walks == {"sum", "max", "each", "count", "measure", "variance", "vmeasure", "strcat", "vsnprintf"}

\* They find their list before the first argument, and leave the other alone.
LEMMA Walked ==
    ASSUME VarInv, var_todo # <<>>, Head(var_todo).op \in Walks, Var!va_args,
           var_todo' = Tail(var_todo), UNCHANGED <<var_fn, var_args>>
    PROVE  ListsAt(Len(var_todo))'
<1> DEFINE r == Len(var_todo)
           f == var_fn
           l == Now(f, r).l
           o == Now(f, r).op
<1>1. /\ Passed /\ Place /\ ListsAt(r)
  BY DEF VarInv
<1>2. /\ r \in 1 .. Length(f) /\ Length(f) \in Nat /\ Head(var_todo) = Now(f, r) /\ f \in Function
  BY <1>1, Due DEF Passed
<1>3. Len(var_todo') = r - 1
  BY <1>1, Stepped
<1>4. o \in Walks /\ var_bad' = (var_bad \/ var_ap[l] # 0) /\ var_ap' = [var_ap EXCEPT ![l] = Len(var_args)]
  BY <1>2 DEF Var!va_args, Var!list
<1>5. /\ o = "sum" => \/ l = "ap" /\ f = "sum" /\ r = 2
                      \/ l = "ap" /\ f = "stats" /\ r = 4
      /\ o = "max" => l = "ap" /\ f = "maxd" /\ r = 2
      /\ o = "each" => l = "ap" /\ f = "print_vargs" /\ r = 2
      /\ o = "count" => \/ l = "ap" /\ f = "count_args" /\ r = 2
                        \/ l = "ap" /\ f = "print_all" /\ r = 2
      /\ o = "vsnprintf" => \/ l = "ap" /\ f = "log_msg" /\ r = 2
                            \/ l = "ap2" /\ f = "fmt_alloc" /\ r = 2
      /\ o = "measure" => l = "ap" /\ f = "join" /\ r = 6
      /\ o = "strcat" => l = "ap" /\ f = "join" /\ r = 2
      /\ o = "variance" => l = "ap2" /\ f = "stats" /\ r = 2
      /\ o = "vmeasure" => l = "ap" /\ f = "fmt_alloc" /\ r = 6
  BY <1>2, Where
<1>6. r \in Int /\ f' = f /\ Len(var_args) \in Nat
  BY <1>1, <1>2, LenProperties DEF Passed, Arguments
<1>7. /\ var_bad = FALSE /\ var_ap \in [{"ap", "ap2"} -> Int]
      /\ var_ap["ap"] \in InAp(f, r) /\ var_ap["ap2"] \in InAp2(f, r)
  BY <1>1 DEF ListsAt, Var!Lists
<1> HIDE DEF o, l, r, f
<1>8. \/ l = "ap" /\ InAp(f, r) = {0} /\ InAp(f, r - 1) = Nat /\ InAp2(f, r - 1) = InAp2(f, r)
      \/ l = "ap2" /\ InAp2(f, r) = {0} /\ InAp2(f, r - 1) = Nat /\ InAp(f, r - 1) = InAp(f, r)
  BY <1>4, <1>5 DEF InAp, InAp2, Walks
<1>9. var_ap[l] = 0
  BY <1>7, <1>8
<1>10. var_bad' = FALSE
  BY <1>4, <1>7, <1>9
<1>11. CASE l = "ap" /\ InAp(f, r - 1) = Nat /\ InAp2(f, r - 1) = InAp2(f, r)
  BY <1>3, <1>4, <1>6, <1>7, <1>10, <1>11 DEF ListsAt, Var!Lists, f
<1>12. CASE l = "ap2" /\ InAp2(f, r - 1) = Nat /\ InAp(f, r - 1) = InAp(f, r)
  BY <1>3, <1>4, <1>6, <1>7, <1>10, <1>12 DEF ListsAt, Var!Lists, f
<1> QED BY <1>8, <1>11, <1>12

\* What each pass computes, and where it is in which function.
LEMMA NumberStep ==
    ASSUME VarInv, Var!number
    PROVE  VarInv'
<1> DEFINE r == Len(var_todo)
           f == var_fn
           o == Now(f, r).op
           l == Now(f, r).l
<1>1. /\ var_todo # <<>> /\ Head(var_todo).op \in Walks /\ Var!va_args /\ var_todo' = Tail(var_todo)
      /\ UNCHANGED <<var_fn, var_args, var_room, var_out>>
  BY DEF Var!number, Var!is, Var!step, Walks
<1>2. Passed /\ Place /\ CountsAt(r) /\ BufferAt(r)
  BY DEF VarInv
<1>3. /\ r \in 1 .. Length(f) /\ Length(f) \in Nat /\ Head(var_todo) = Now(f, r) /\ f \in Function
  BY <1>1, <1>2, Due DEF Passed
<1>4. Passed' /\ Place' /\ Len(var_todo') = r - 1
  BY <1>1, <1>2, Stepped
<1>5. Var!lengths' = Var!lengths /\ Squares' = Squares /\ Var!text' = Var!text
  BY <1>1, SameArguments
<1>6. ListsAt(Len(var_todo))'
  BY <1>1, Walked
<1>7. \/ o = "sum" /\ var_total' = Var!lengths
      \/ o = "max" \/ o = "each" \/ o = "count"
      \/ o = "measure" /\ var_total' = 1 + Var!lengths
      \/ o = "variance" /\ var_variance' = SecondPass /\ var_total' = var_total
      \/ o = "vmeasure" /\ (var_total' = Var!lengths + 1 \/ (var_total' = -1 /\ var_failed' = TRUE))
  <2>1. o = Head(var_todo).op
    BY <1>3
  <2>2. SecondPass = Var!FoldLeft(LAMBDA acc, a : acc + Var!deviation(a) * Var!deviation(a), 0, var_args)
    BY DEF SecondPass
  <2> HIDE DEF o
  <2> QED BY <2>1, <2>2 DEF Var!number, Var!is
<1>8. /\ o = "sum" => \/ l = "ap" /\ f = "sum" /\ r = 2
                      \/ l = "ap" /\ f = "stats" /\ r = 4
      /\ o = "max" => l = "ap" /\ f = "maxd" /\ r = 2
      /\ o = "each" => l = "ap" /\ f = "print_vargs" /\ r = 2
      /\ o = "count" => \/ l = "ap" /\ f = "count_args" /\ r = 2
                        \/ l = "ap" /\ f = "print_all" /\ r = 2
      /\ o = "measure" => l = "ap" /\ f = "join" /\ r = 6
      /\ o = "variance" => l = "ap2" /\ f = "stats" /\ r = 2
      /\ o = "vmeasure" => l = "ap" /\ f = "fmt_alloc" /\ r = 6
  BY <1>3, Where
<1>9. /\ var_fn' = var_fn /\ var_args' = var_args /\ var_room' = var_room
      /\ var_out' = var_out
  BY <1>1
<1> HIDE DEF o, l, r, f
<1>10. CASE o \in {"sum", "max", "each"}
  <2>1. f \in {"sum", "maxd", "print_vargs"} \/ (f = "stats" /\ r = 4 /\ var_total' = Var!lengths)
    BY <1>7, <1>8, <1>10
  <2>2. f = "stats" => Len(var_todo') = 3
    BY <1>4, <2>1
  <2>3. f \notin {"join", "fmt_alloc", "log_msg", "count_args", "print_all"}
    BY <2>1
  <2>4. var_out = <<>>
    BY <1>2, <2>3 DEF BufferAt, f
  <2>5. CountsAt(Len(var_todo))'
    <3>1. var_fn' = f /\ f \notin Var!Sentinel
      BY <1>9, <2>3 DEF Var!Sentinel, f
    <3>2. CASE f = "stats"
      <4>1. var_total' = Var!lengths' /\ Len(var_todo') = 3
        BY <1>5, <2>1, <2>2, <3>2
      <4> QED BY <3>1, <4>1 DEF CountsAt, Var!Sentinel
    <3>3. CASE f # "stats"
      BY <3>1, <3>3 DEF CountsAt, Var!Sentinel
    <3> QED BY <3>2, <3>3
  <2>6. BufferAt(Len(var_todo))'
    BY <1>9, <2>3, <2>4 DEF BufferAt, f
  <2> QED BY <1>4, <1>6, <2>5, <2>6 DEF VarInv
<1>11. CASE o = "count"
  <2>1. f \in {"count_args", "print_all"}
    BY <1>8, <1>11
  <2>4. var_out = <<>>
    BY <1>2, <2>1 DEF BufferAt, f
  <2>5. CountsAt(Len(var_todo))'
    BY <1>9, <2>1 DEF CountsAt, f
  <2>6. BufferAt(Len(var_todo))'
    BY <1>9, <2>1, <2>4 DEF BufferAt, f
  <2> QED BY <1>4, <1>6, <2>5, <2>6 DEF VarInv
<1>12. CASE o = "measure"
  <2>1. f = "join" /\ r = 6 /\ var_total' = 1 + Var!lengths
    BY <1>7, <1>8, <1>12
  <2>2. Len(var_todo') = 5
    BY <1>4, <2>1
  <2>3. JoinAt(r)
    BY <1>2, <2>1 DEF BufferAt, f
  <2>4. var_room = 0 /\ var_out = <<>>
    BY <2>1, <2>3 DEF JoinAt
  <2>5. JoinAt(Len(var_todo))'
    BY <1>5, <1>9, <2>1, <2>2, <2>4 DEF JoinAt
  <2>6. CountsAt(Len(var_todo))'
    BY <1>9, <2>1 DEF CountsAt, Var!Sentinel, f
  <2>7. BufferAt(Len(var_todo))'
    BY <1>9, <2>1, <2>5 DEF BufferAt, f
  <2> QED BY <1>4, <1>6, <2>6, <2>7 DEF VarInv
<1>13. CASE o = "variance"
  <2>1. f = "stats" /\ r = 2 /\ var_total' = var_total /\ var_variance' = SecondPass
    BY <1>7, <1>8, <1>13
  <2>2. var_total = Var!lengths
    BY <1>2, <2>1 DEF CountsAt, f
  <2>3. SecondPass = Len(var_args) * Len(var_args) * Squares - Len(var_args) * Var!lengths * Var!lengths
    BY <1>2, <2>2, VarianceIdentity DEF Passed
  <2>4. var_out = <<>>
    BY <1>2, <2>1 DEF BufferAt, f
  <2>5. CountsAt(Len(var_todo))'
    BY <1>5, <1>9, <2>1, <2>2, <2>3 DEF CountsAt, Var!Sentinel, f
  <2>6. BufferAt(Len(var_todo))'
    BY <1>9, <2>1, <2>4 DEF BufferAt, f
  <2> QED BY <1>4, <1>6, <2>5, <2>6 DEF VarInv
<1>14. CASE o = "vmeasure"
  <2>1. /\ f = "fmt_alloc" /\ r = 6
        /\ var_total' = Var!lengths + 1 \/ (var_total' = -1 /\ var_failed' = TRUE)
    BY <1>7, <1>8, <1>14
  <2>2. Len(var_todo') = 5
    BY <1>4, <2>1
  <2>3. FormatAt(r)
    BY <1>2, <2>1 DEF BufferAt, f
  <2>4. var_room = 0 /\ var_out = <<>>
    BY <2>1, <2>3 DEF FormatAt
  <2>5. FormatAt(Len(var_todo))'
    BY <1>5, <1>9, <2>1, <2>2, <2>4 DEF FormatAt
  <2>6. CountsAt(Len(var_todo))'
    BY <1>9, <2>1 DEF CountsAt, Var!Sentinel, f
  <2>7. BufferAt(Len(var_todo))'
    BY <1>9, <2>1, <2>5 DEF BufferAt, f
  <2> QED BY <1>4, <1>6, <2>6, <2>7 DEF VarInv
<1> QED BY <1>7, <1>10, <1>11, <1>12, <1>13, <1>14

\* Only fmt_alloc tests the length it was told, and skips to its last va_end.
LEMMA NegativeStep ==
    ASSUME VarInv, Var!if_negative
    PROVE  VarInv'
<1> DEFINE r == Len(var_todo)
           f == var_fn
           o == Now(f, r).op
           l == Now(f, r).l
<1>1. /\ var_todo # <<>> /\ Head(var_todo).op = "if_negative"
      /\ var_todo' = IF var_total < 0 THEN <<Var!Va("end", "ap2")>> ELSE Tail(var_todo)
      /\ UNCHANGED <<var_fn, var_args, var_ap, var_total, var_variance, var_room,
                     var_out, var_failed, var_bad>>
  BY DEF Var!if_negative, Var!is, Var!fmt_alloc_negative
<1>2. Passed /\ Place /\ ListsAt(r) /\ BufferAt(r)
  BY DEF VarInv
<1>3. /\ r \in 1 .. Length(f) /\ Head(var_todo) = Now(f, r) /\ f \in Function
  BY <1>1, <1>2, Due DEF Passed
<1>4. o = "if_negative" => f = "fmt_alloc" /\ r = 4
  BY <1>3, Where
<1>5. f = "fmt_alloc" /\ r = 4
  BY <1>1, <1>3, <1>4
<1>6. Var!lengths' = Var!lengths /\ Var!text' = Var!text
  BY <1>1, SameArguments
<1>7. Passed'
  BY <1>1, <1>2 DEF Passed
<1>8. /\ var_fn' = var_fn /\ var_ap' = var_ap /\ var_total' = var_total /\ var_room' = var_room
      /\ var_out' = var_out /\ var_failed' = var_failed /\ var_bad' = var_bad
  BY <1>1
<1>9. /\ var_room = 0 /\ var_out = <<>>
      /\ var_total = Var!lengths + 1 \/ (var_total = -1 /\ var_failed = TRUE)
  <2>1. FormatAt(4)
    BY <1>2, <1>5 DEF BufferAt
  <2> QED BY <2>1 DEF FormatAt
<1>10. Var!lengths \in Nat
  BY <1>2, TextMeasured DEF Passed
<1>11. /\ var_bad = FALSE /\ var_ap \in [Var!Lists -> Int]
       /\ var_ap["ap"] \in {Var!Off} /\ var_ap["ap2"] \in {0}
  BY <1>2, <1>5 DEF ListsAt, InAp, InAp2
<1>12. var_fn \notin Var!Sentinel \cup {"stats", "join", "log_msg"}
  BY <1>5 DEF Var!Sentinel
<1>13. CASE var_total < 0
  <2>1. var_failed = TRUE
    BY <1>9, <1>10, <1>13
  <2>2. var_todo' = <<Var!Va("end", "ap2")>>
    BY <1>1, <1>13
  <2>3. Len(var_todo') = 1 /\ Length(var_fn) = 8
    BY <1>5, <2>2 DEF Length
  <2>4. Remaining(var_fn, 1) = SubSeq(Var!fmt_alloc, 8, 8)
    BY <1>5 DEF Remaining, Length, Var!Program
  <2>5. /\ Len(Var!fmt_alloc) = 8 /\ Var!fmt_alloc[8] = Var!Va("end", "ap2")
        /\ Var!fmt_alloc \in Seq(Operation)
    BY DEF Var!fmt_alloc, Operation, OpNames
  <2>6. SubSeq(Var!fmt_alloc, 8, 8) = <<Var!fmt_alloc[8]>>
    <3> DEFINE p == Var!fmt_alloc
    <3>1. p \in Seq(Operation) /\ Len(p) = 8
      BY <2>5
    <3> HIDE DEF p
    <3>2. p[8] \in Operation /\ 8 \in Int
      BY <3>1
    <3>3. /\ SubSeq(p, 8, 8) \in Seq(Operation) /\ Len(SubSeq(p, 8, 8)) = 1
          /\ SubSeq(p, 8, 8)[1] = p[8]
      <4>1. \A i \in 8 .. 8 : p[i] \in Operation
        BY <3>2
      <4>2. /\ SubSeq(p, 8, 8) \in Seq(Operation)
            /\ Len(SubSeq(p, 8, 8)) = IF 8 <= 8 THEN 8 - 8 + 1 ELSE 0
            /\ \A i \in 1 .. 8 - 8 + 1 : SubSeq(p, 8, 8)[i] = p[8 + i - 1]
        BY <3>2, <4>1, SubSeqProperties
      <4>3. 1 \in 1 .. 8 - 8 + 1 /\ 8 + 1 - 1 = 8 /\ 8 - 8 + 1 = 1
        OBVIOUS
      <4>4. SubSeq(p, 8, 8)[1] = p[8 + 1 - 1]
        BY <4>2, <4>3
      <4> QED BY <4>2, <4>3, <4>4
    <3>4. SubSeq(p, 8, 8) = <<p[8]>>
      <4> DEFINE s == SubSeq(p, 8, 8)
                 x == p[8]
      <4>1. s \in Seq(Operation) /\ Len(s) = 1 /\ s[1] = x
        BY <3>3
      <4> HIDE DEF s, x
      <4>2. s = <<x>>
        BY <4>1
      <4> QED BY <4>2 DEF s, x
    <3> QED BY <3>4 DEF p
  <2>7. Place'
    BY <1>8, <2>2, <2>3, <2>4, <2>5, <2>6 DEF Place
  <2>8. ListsAt(Len(var_todo))'
    BY <1>5, <1>8, <1>11, <2>3 DEF ListsAt, InAp, InAp2
  <2>9. Without'
    BY <1>8, <1>9, <2>1 DEF Without
  <2>10. FormatAt(Len(var_todo))'
    BY <2>3, <2>9 DEF FormatAt
  <2>11. BufferAt(Len(var_todo))'
    BY <1>5, <1>8, <2>10 DEF BufferAt
  <2>12. CountsAt(Len(var_todo))'
    BY <1>8, <1>12 DEF CountsAt
  <2> QED BY <1>7, <2>7, <2>8, <2>11, <2>12 DEF VarInv
<1>14. CASE ~(var_total < 0)
  <2>1. var_total = Var!lengths + 1
    BY <1>9, <1>10, <1>14
  <2>2. Place' /\ Len(var_todo') = r - 1
    BY <1>1, <1>2, <1>14, Stepped
  <2>3. Len(var_todo') = 3
    BY <1>5, <2>2
  <2>4. ListsAt(Len(var_todo))'
    BY <1>5, <1>8, <1>11, <2>3 DEF ListsAt, InAp, InAp2
  <2>5. FormatAt(Len(var_todo))'
    BY <1>6, <1>8, <1>9, <2>1, <2>3 DEF FormatAt
  <2>6. BufferAt(Len(var_todo))'
    BY <1>5, <1>8, <2>5 DEF BufferAt
  <2>7. CountsAt(Len(var_todo))'
    BY <1>8, <1>12 DEF CountsAt
  <2> QED BY <1>7, <2>2, <2>4, <2>6, <2>7 DEF VarInv
<1> QED BY <1>13, <1>14

\* malloc gives what was measured, or nothing: join returns, fmt_alloc goes on.
LEMMA MallocStep ==
    ASSUME VarInv, Var!malloc
    PROVE  VarInv'
<1> DEFINE r == Len(var_todo)
           f == var_fn
           o == Now(f, r).op
           l == Now(f, r).l
<1>1. /\ var_todo # <<>> /\ Head(var_todo).op = "malloc"
      /\ UNCHANGED <<var_fn, var_args, var_ap, var_total, var_variance, var_out,
                     var_bad>>
      /\ \/ var_room' = var_total /\ var_todo' = Tail(var_todo)
         \/ /\ var_failed' = TRUE /\ var_room' = var_room
            /\ var_todo' = IF var_fn = "join" THEN <<>> ELSE Tail(var_todo)
  BY DEF Var!malloc, Var!is, Var!step
<1>2. Passed /\ Place /\ ListsAt(r) /\ BufferAt(r)
  BY DEF VarInv
<1>3. /\ r \in 1 .. Length(f) /\ Head(var_todo) = Now(f, r) /\ f \in Function
  BY <1>1, <1>2, Due DEF Passed
<1>4. o = "malloc" => \/ f = "join" /\ r = 4
                      \/ f = "fmt_alloc" /\ r = 3
  BY <1>3, Where
<1>5. \/ f = "join" /\ r = 4
      \/ f = "fmt_alloc" /\ r = 3
  BY <1>1, <1>3, <1>4
<1>6. Var!lengths' = Var!lengths /\ Var!text' = Var!text
  BY <1>1, SameArguments
<1>7. /\ var_fn' = var_fn /\ var_args' = var_args /\ var_ap' = var_ap /\ var_total' = var_total
      /\ var_out' = var_out /\ var_bad' = var_bad
  BY <1>1
<1>8. var_fn \notin Var!Sentinel \cup {"stats", "log_msg"}
  BY <1>5 DEF Var!Sentinel
<1>9. CountsAt(Len(var_todo))'
  BY <1>7, <1>8 DEF CountsAt
<1>10. ASSUME var_todo' = Tail(var_todo)
       PROVE  Passed' /\ Place' /\ Len(var_todo') = r - 1
  BY <1>1, <1>2, <1>10, Stepped
<1>11. CASE f = "join"
  <2>1. r = 4
    BY <1>5, <1>11
  <2>2. JoinAt(4)
    BY <1>2, <1>11, <2>1 DEF BufferAt
  <2>3. var_room = 0 /\ var_out = <<>> /\ var_total = 1 + Var!lengths
    BY <2>2 DEF JoinAt
  <2>4. /\ var_bad = FALSE /\ var_ap \in [Var!Lists -> Int]
        /\ var_ap["ap"] \in {Var!Off} /\ var_ap["ap2"] \in {Var!Off}
    BY <1>2, <1>11, <2>1 DEF ListsAt, InAp, InAp2
  <2>5. CASE var_room' = var_total /\ var_todo' = Tail(var_todo)
    <3>1. Passed' /\ Place' /\ Len(var_todo') = 3
      BY <1>10, <2>1, <2>5
    <3>2. ListsAt(Len(var_todo))'
      BY <1>7, <1>11, <2>4, <3>1 DEF ListsAt, InAp, InAp2
    <3>3. JoinAt(Len(var_todo))'
      <4>1. var_out' = <<>> /\ var_room' = 1 + Var!lengths'
        BY <1>6, <1>7, <2>3, <2>5
      <4>2. Len(var_todo') = 3
        BY <3>1
      <4> QED BY <4>1, <4>2 DEF JoinAt
    <3>4. BufferAt(Len(var_todo))'
      BY <1>7, <1>11, <3>3 DEF BufferAt
    <3> QED BY <1>9, <3>1, <3>2, <3>4 DEF VarInv
  <2>6. CASE var_failed' = TRUE /\ var_room' = var_room /\ var_todo' = <<>>
    <3>1. Passed' /\ Place' /\ Len(var_todo') = 0
      BY <1>1, <1>2, <2>6, Returned
    <3>2. ListsAt(Len(var_todo))'
      BY <1>7, <1>11, <2>4, <3>1 DEF ListsAt, InAp, InAp2
    <3>3. Without'
      BY <1>7, <2>3, <2>6 DEF Without
    <3>4. JoinAt(Len(var_todo))'
      BY <3>1, <3>3 DEF JoinAt
    <3>5. BufferAt(Len(var_todo))'
      BY <1>7, <1>11, <3>4 DEF BufferAt
    <3> QED BY <1>9, <3>1, <3>2, <3>5 DEF VarInv
  <2> QED BY <1>1, <1>11, <2>5, <2>6
<1>12. CASE f = "fmt_alloc"
  <2>1. r = 3
    BY <1>5, <1>12
  <2>2. FormatAt(3)
    BY <1>2, <1>12, <2>1 DEF BufferAt
  <2>3. var_room = 0 /\ var_out = <<>> /\ var_total = Var!lengths + 1
    BY <2>2 DEF FormatAt
  <2>4. /\ var_bad = FALSE /\ var_ap \in [Var!Lists -> Int]
        /\ var_ap["ap"] \in {Var!Off} /\ var_ap["ap2"] \in {0}
    BY <1>2, <1>12, <2>1 DEF ListsAt, InAp, InAp2
  <2>5. var_todo' = Tail(var_todo)
    BY <1>1, <1>12
  <2>6. Passed' /\ Place' /\ Len(var_todo') = 2
    BY <1>10, <2>1, <2>5
  <2>7. ListsAt(Len(var_todo))'
    BY <1>7, <1>12, <2>4, <2>6 DEF ListsAt, InAp, InAp2
  <2>8. var_room' = Var!lengths' + 1 \/ (var_room' = 0 /\ var_failed' = TRUE)
    BY <1>1, <1>6, <2>3
  <2>9. FormatAt(Len(var_todo))'
    BY <1>7, <2>3, <2>6, <2>8 DEF FormatAt
  <2>10. BufferAt(Len(var_todo))'
    BY <1>7, <1>12, <2>9 DEF BufferAt
  <2> QED BY <1>9, <2>6, <2>7, <2>10 DEF VarInv
<1> QED BY <1>5, <1>11, <1>12

\* A sequence is a prefix of itself, and so is what fits of it.
LEMMA FittingPart ==
    ASSUME NEW t \in Seq(Int), LOGSZ \in Nat, LOGSZ # 0
    PROVE  /\ Fitting(t) \in Seq(Int) /\ Len(Fitting(t)) < LOGSZ
           /\ Var!IsPrefix(Fitting(t), t)
           /\ Len(t) < LOGSZ => Fitting(t) = t
<1> DEFINE m == Var!Min({Len(t), LOGSZ - 1})
           n == Len(t)
<1>1. n \in Nat /\ LOGSZ - 1 \in Nat
  BY LenProperties
<1>2. m \in {n, LOGSZ - 1} /\ m <= n /\ m <= LOGSZ - 1
  <2>1. \E x \in {n, LOGSZ - 1} : \A y \in {n, LOGSZ - 1} : x =< y
    BY <1>1
  <2> QED BY <2>1 DEF Var!Min
<1>3. m \in Nat /\ m <= n /\ m < LOGSZ /\ (n < LOGSZ => m = n)
  BY <1>1, <1>2
<1>4. Fitting(t) = SubSeq(t, 1, m)
  BY DEF Fitting
<1> HIDE DEF m
<1>5. \A i \in 1 .. m : t[i] \in Int
  BY <1>1, <1>3
<1>6. SubSeq(t, 1, m) \in Seq(Int) /\ Len(SubSeq(t, 1, m)) = m
  BY <1>1, <1>3, <1>5, SubSeqProperties
<1>7. SubSeq(SubSeq(t, 1, m), 1, m) = SubSeq(t, 1, m)
  BY <1>6, SubSeqFull
<1>8. Var!IsPrefix(Fitting(t), t)
  BY <1>3, <1>4, <1>6, <1>7 DEF Var!IsPrefix
<1>9. n < LOGSZ => Fitting(t) = t
  BY <1>3, <1>4, SubSeqFull
<1> QED BY <1>3, <1>4, <1>6, <1>8, <1>9

\* The second pass writes: all of the text, or what fits, or nothing.
LEMMA FillStep ==
    ASSUME VarInv, Var!fill
    PROVE  VarInv'
<1> DEFINE r == Len(var_todo)
           f == var_fn
           o == Now(f, r).op
           l == Now(f, r).l
<1>1. /\ var_todo # <<>> /\ Head(var_todo).op \in {"strcat", "vsnprintf"} /\ var_todo' = Tail(var_todo)
      /\ UNCHANGED <<var_fn, var_args, var_total, var_variance, var_room>>
  BY DEF Var!fill, Var!is, Var!step
<1>2. Passed /\ Place /\ ListsAt(r) /\ BufferAt(r)
  BY DEF VarInv
<1>3. /\ r \in 1 .. Length(f) /\ Head(var_todo) = Now(f, r) /\ f \in Function
  BY <1>1, <1>2, Due DEF Passed
<1>4. /\ o = "vsnprintf" => \/ l = "ap" /\ f = "log_msg" /\ r = 2
                            \/ l = "ap2" /\ f = "fmt_alloc" /\ r = 2
      /\ o = "strcat" => l = "ap" /\ f = "join" /\ r = 2
  BY <1>3, Where
<1>5. Passed' /\ Place' /\ Len(var_todo') = r - 1
  BY <1>1, <1>2, Stepped
<1>6. Var!lengths' = Var!lengths /\ Var!text' = Var!text
  BY <1>1, SameArguments
<1>7. var_fn' = var_fn /\ var_room' = var_room
  BY <1>1
<1>8. Var!va_args => ListsAt(Len(var_todo))'
  BY <1>1, Walked DEF Walks
<1>9. Var!text \in Seq(Int) /\ Len(Var!text) = Var!lengths /\ Var!lengths \in Nat
  BY <1>2, TextMeasured DEF Passed
<1>10. \/ o = "strcat" /\ var_out' = Var!text /\ Var!va_args
       \/ o = "vsnprintf" /\ var_room = 0 /\ UNCHANGED <<var_out, var_ap, var_bad,
                                                         var_failed>>
       \/ /\ o = "vsnprintf" /\ var_room # 0 /\ Var!va_args
          /\ \/ var_out' = SubSeq(Var!text, 1, Var!Min({Len(Var!text), var_room - 1}))
             \/ Spoilt'
  BY <1>3 DEF Var!fill, Var!is, Spoilt
<1> HIDE DEF o, l
<1>11. r = 2 /\ f \in {"join", "fmt_alloc", "log_msg"}
  BY <1>4, <1>10
<1>12. Len(var_todo') = 1
  BY <1>5, <1>11
<1>13. CountsAt(Len(var_todo))'
  <2>1. var_fn \notin Var!Sentinel \cup {"stats"}
    BY <1>11 DEF Var!Sentinel
  <2> QED BY <1>7, <2>1 DEF CountsAt
<1>14. CASE f = "join"
  <2>1. var_out' = Var!text /\ Var!va_args
    BY <1>4, <1>10, <1>14
  <2>2. JoinAt(2)
    BY <1>2, <1>11, <1>14 DEF BufferAt
  <2>3. var_room = 1 + Var!lengths
    BY <2>2 DEF JoinAt
  <2>4. Full'
    BY <1>6, <1>7, <1>9, <2>1, <2>3 DEF Full
  <2>5. JoinAt(Len(var_todo))'
    BY <1>12, <2>4 DEF JoinAt
  <2>6. BufferAt(Len(var_todo))'
    BY <1>7, <1>14, <2>5 DEF BufferAt
  <2> QED BY <1>5, <1>8, <1>13, <2>1, <2>6 DEF VarInv
<1>15. CASE f = "fmt_alloc"
  <2>1. FormatAt(2)
    BY <1>2, <1>11, <1>15 DEF BufferAt
  <2>2. var_out = <<>> /\ (var_room = Var!lengths + 1 \/ (var_room = 0 /\ var_failed = TRUE))
    BY <2>1 DEF FormatAt
  <2>3. o = "vsnprintf"
    BY <1>4, <1>10, <1>15
  <2>4. CASE var_room = 0
    <3>1. /\ var_out' = var_out /\ var_ap' = var_ap /\ var_bad' = var_bad
          /\ var_failed = TRUE /\ var_failed' = TRUE
      BY <1>9, <1>10, <2>2, <2>3, <2>4
    <3>2. Without'
      BY <1>7, <2>2, <2>4, <3>1 DEF Without
    <3>3. FormatAt(Len(var_todo))'
      BY <1>12, <3>2 DEF FormatAt
    <3>4. BufferAt(Len(var_todo))'
      BY <1>7, <1>15, <3>3 DEF BufferAt
    <3>5. /\ var_bad = FALSE /\ var_ap \in [Var!Lists -> Int]
          /\ var_ap["ap"] \in {Var!Off} /\ var_ap["ap2"] \in {0}
      BY <1>2, <1>11, <1>15 DEF ListsAt, InAp, InAp2
    <3>6. ListsAt(Len(var_todo))'
      BY <1>7, <1>12, <1>15, <3>1, <3>5 DEF ListsAt, InAp, InAp2
    <3> QED BY <1>5, <1>13, <3>4, <3>6 DEF VarInv
  <2>5. CASE var_room # 0
    <3>1. /\ var_room = Var!lengths + 1 /\ Var!va_args
          /\ \/ var_out' = SubSeq(Var!text, 1, Var!Min({Len(Var!text), var_room - 1}))
             \/ Spoilt'
      BY <1>10, <2>2, <2>3, <2>5
    <3>2. Var!Min({Len(Var!text), var_room - 1}) = Len(Var!text)
      <4>1. var_room - 1 = Len(Var!text)
        BY <1>9, <3>1
      <4>2. \E x \in {Len(Var!text)} : \A y \in {Len(Var!text)} : x =< y
        BY <1>9
      <4> DEFINE m == Len(Var!text)
      <4>3. Var!Min({m, m}) \in {m, m}
        BY <4>2 DEF Var!Min
      <4> QED BY <4>1, <4>3
    <3>3. var_out' = Var!text \/ Spoilt'
      BY <1>9, <3>1, <3>2, SubSeqFull
    <3>4. Full' \/ (Spoilt' /\ var_room' = Var!lengths' + 1)
      BY <1>6, <1>7, <3>1, <3>3 DEF Full
    <3>5. FormatAt(Len(var_todo))'
      BY <1>12, <3>4 DEF FormatAt
    <3>6. BufferAt(Len(var_todo))'
      BY <1>7, <1>15, <3>5 DEF BufferAt
    <3> QED BY <1>5, <1>8, <1>13, <3>1, <3>6 DEF VarInv
  <2> QED BY <2>4, <2>5
<1>16. CASE f = "log_msg"
  <2>1. LogAt(2)
    BY <1>2, <1>11, <1>16 DEF BufferAt
  <2>2. var_out = <<>> /\ var_room = LOGSZ
    BY <2>1 DEF LogAt
  <2>3. o = "vsnprintf"
    BY <1>4, <1>10, <1>16
  <2>4. IF LOGSZ = 0 THEN var_out' = <<>> ELSE Spoilt' \/ var_out' = Fitting(Var!text')
    BY <1>6, <1>10, <2>2, <2>3 DEF Fitting
  <2>5. LogAt(Len(var_todo))'
    BY <1>7, <1>12, <2>2, <2>4 DEF LogAt
  <2>6. BufferAt(Len(var_todo))'
    BY <1>7, <1>16, <2>5 DEF BufferAt
  <2>7. CASE LOGSZ # 0
    <3>1. Var!va_args
      BY <1>10, <2>2, <2>3, <2>7
    <3> QED BY <1>5, <1>8, <1>13, <2>6, <3>1 DEF VarInv
  <2>8. CASE LOGSZ = 0
    <3>1. var_ap' = var_ap /\ var_bad' = var_bad
      BY <1>10, <2>2, <2>3, <2>8
    <3>2. /\ var_bad = FALSE /\ var_ap \in [Var!Lists -> Int]
          /\ var_ap["ap"] \in {0} /\ var_ap["ap2"] \in {Var!Off}
      BY <1>2, <1>11, <1>16 DEF ListsAt, InAp, InAp2
    <3>3. ListsAt(Len(var_todo))'
      BY <1>7, <1>12, <1>16, <3>1, <3>2 DEF ListsAt, InAp, InAp2
    <3> QED BY <1>5, <1>13, <2>6, <3>3 DEF VarInv
  <2> QED BY <2>7, <2>8
<1> QED BY <1>11, <1>14, <1>15, <1>16

\* It says nothing of anything else.
LEMMA VarKept ==
    ASSUME VarInv, UNCHANGED varVars
    PROVE  VarInv'
<1>1. /\ var_fn' = var_fn /\ var_args' = var_args /\ var_todo' = var_todo /\ var_ap' = var_ap
      /\ var_total' = var_total /\ var_variance' = var_variance /\ var_room' = var_room
      /\ var_out' = var_out /\ var_failed' = var_failed /\ var_bad' = var_bad
  BY DEF varVars
<1>2. Var!lengths' = Var!lengths /\ Squares' = Squares /\ Var!text' = Var!text
  BY <1>1, SameArguments
<1>3. Passed' /\ Place'
  BY <1>1 DEF VarInv, Passed, Place
<1>4. ListsAt(Len(var_todo))'
  BY <1>1 DEF VarInv, ListsAt
<1>5. CountsAt(Len(var_todo))'
  BY <1>1, <1>2 DEF VarInv, CountsAt
<1>6. (Full => Full') /\ (Without => Without') /\ (Spoilt => Spoilt')
  BY <1>1, <1>2 DEF Full, Without, Spoilt
<1> DEFINE r == Len(var_todo)
<1>7. r' = r /\ BufferAt(r)
  BY <1>1 DEF VarInv
<1> HIDE DEF r
<1>8. JoinAt(r) => JoinAt(r)'
  BY <1>1, <1>2, <1>6, <1>7 DEF JoinAt
<1>9. FormatAt(r) => FormatAt(r)'
  BY <1>1, <1>2, <1>6, <1>7 DEF FormatAt
<1>10. LogAt(r) => LogAt(r)'
  BY <1>1, <1>2, <1>6, <1>7 DEF LogAt
<1>11. BufferAt(r)'
  BY <1>1, <1>7, <1>8, <1>9, <1>10 DEF BufferAt
<1> QED BY <1>3, <1>4, <1>5, <1>11 DEF VarInv, r

\* Every step keeps it.
LEMMA VarStep ==
    ASSUME VarInv, [Var!Next]_Var!vars
    PROVE  VarInv'
<1>1. CASE Var!va_start \/ Var!va_copy \/ Var!va_end
  BY <1>1, ListStep
<1>2. CASE Var!number
  BY <1>2, NumberStep
<1>3. CASE Var!if_negative
  BY <1>3, NegativeStep
<1>4. CASE Var!malloc
  BY <1>4, MallocStep
<1>5. CASE Var!fill
  BY <1>5, FillStep
<1>6. CASE UNCHANGED Var!vars
  BY <1>6, VarKept DEF Var!vars, varVars
<1> QED BY <1>1, <1>2, <1>3, <1>4, <1>5, <1>6 DEF Var!Next

\* Before the first operation.
LEMMA VarInit ==
    ASSUME Var!Init
    PROVE  VarInv
<1>1. ArgStrings \subseteq Seq(Nat) /\ LOGSZ \in Nat
  BY VariadicInputs DEF Var!VariadicAssumption
<1>2. /\ var_fn \in Function /\ var_args \in Var!Passed(var_fn)
      /\ var_todo = IF var_fn \in Var!Sentinel /\ var_args[1] = Var!Null THEN <<>> ELSE Var!Program[var_fn]
  BY Functions9 DEF Var!Init
<1>3. /\ var_ap = [x \in Var!Lists |-> Var!Off] /\ var_total = 0 /\ var_variance = 0
      /\ var_room = IF var_fn = "log_msg" THEN LOGSZ ELSE 0
      /\ var_out = <<>> /\ var_failed = FALSE /\ var_bad = FALSE
  BY DEF Var!Init
<1>4. ASSUME NEW a \in Var!Calls
      PROVE  a \in Arguments
  <2>1. PICK n \in Nat : a \in [1 .. n -> ArgStrings]
    BY DEF Var!Calls
  <2>3. a \in Seq(Seq(Int))
    <3>1. ArgStrings \subseteq Seq(Int)
      BY <1>1
    <3> QED BY <2>1, <3>1
  <2> QED BY <2>3 DEF Arguments
<1>5. Passed
  <2>1. CASE var_fn \in Var!Sentinel
    <3>0. var_args \in {Append(a, Var!Null) : a \in Var!Calls}
      <4> DEFINE A == {Append(a, Var!Null) : a \in Var!Calls}
                 C == Var!Calls
      <4>1. Var!Passed(var_fn) = CASE var_fn \in Var!Sentinel -> A
                                   [] var_fn = "maxd" -> C \ {<<>>}
                                   [] OTHER -> C
        BY DEF Var!Passed
      <4>2. var_fn # "maxd"
        BY <2>1 DEF Var!Sentinel
      <4> HIDE DEF A, C
      <4>3. Var!Passed(var_fn) = A
        BY <2>1, <4>1, <4>2
      <4> QED BY <1>2, <4>3 DEF A
    <3>1. PICK a \in Var!Calls : var_args = Append(a, Var!Null)
      BY <3>0
    <3>2. a \in Arguments
      BY <1>4
    <3>3. Var!Null \in Seq(Int)
      BY DEF Var!Null
    <3>4. var_args \in Arguments
      BY <3>1, <3>2, <3>3, AppendProperties DEF Arguments
    <3> QED BY <1>2, <3>4 DEF Passed
  <2>2. CASE var_fn \notin Var!Sentinel
    <3>1. var_args \in Var!Calls
      BY <1>2, <2>2 DEF Var!Passed
    <3> QED BY <1>2, <1>4, <2>2, <3>1 DEF Passed
  <2> QED BY <2>1, <2>2
<1>6. /\ var_ap \in [Var!Lists -> Int] /\ var_ap["ap"] = Var!Off /\ var_ap["ap2"] = Var!Off
  BY <1>3 DEF Var!Lists, Var!Off
<1>7. CASE var_todo = <<>> /\ var_fn \in Var!Sentinel /\ var_args[1] = Var!Null
  <2>1. Len(var_todo) = 0 /\ Length(var_fn) = 3
    BY <1>7 DEF Length, Var!Sentinel
  <2>2. Remaining(var_fn, 0) = <<>>
    BY <1>2, <2>1, RestStep
  <2>3. Place
    BY <1>7, <2>1, <2>2 DEF Place
  <2>5. var_fn \in {"count_args", "print_all"}
    BY <1>7 DEF Var!Sentinel
  <2>6. CountsAt(Len(var_todo))
    BY <2>5 DEF CountsAt
  <2>7. ListsAt(Len(var_todo))
    BY <1>3, <1>6, <2>1, <2>5 DEF ListsAt, InAp, InAp2
  <2>8. BufferAt(Len(var_todo))
    BY <1>3, <2>5 DEF BufferAt
  <2> QED BY <1>5, <2>3, <2>6, <2>7, <2>8 DEF VarInv
<1>8. CASE var_todo = Var!Program[var_fn]
  <2>1. /\ Len(var_todo) = Length(var_fn) /\ var_todo \in Seq(Operation)
        /\ Length(var_fn) \in Nat
    BY <1>2, <1>8, ProgramOf DEF Length
  <2>2. Remaining(var_fn, Length(var_fn)) = SubSeq(var_todo, 1, Len(var_todo))
    <3>1. Length(var_fn) - Length(var_fn) + 1 = 1
      BY <2>1
    <3> QED BY <1>8, <2>1, <3>1 DEF Remaining
  <2>3. Remaining(var_fn, Length(var_fn)) = var_todo
    BY <2>1, <2>2, SubSeqFull
  <2>4. Place
    BY <2>1, <2>3 DEF Place
  <2>5. /\ Length(var_fn) \in {3, 6, 7, 8} /\ (var_fn = "join" <=> Length(var_fn) = 7)
        /\ var_fn = "stats" <=> Length(var_fn) = 6
        /\ var_fn = "fmt_alloc" <=> Length(var_fn) = 8
    BY DEF Length
  <2>6. CountsAt(Len(var_todo))
    <3>1. ~(Len(var_todo) <= 1) /\ (var_fn = "stats" => ~(Len(var_todo) <= 3))
      BY <2>1, <2>5
    <3> QED BY <3>1 DEF CountsAt
  <2>7. ListsAt(Len(var_todo))
    BY <1>3, <1>6, <2>1, <2>5 DEF ListsAt, InAp, InAp2
  <2>8. var_fn = "join" => JoinAt(Len(var_todo))
    BY <1>3, <2>1, <2>5 DEF JoinAt
  <2>9. var_fn = "fmt_alloc" => FormatAt(Len(var_todo))
    BY <1>3, <2>1, <2>5 DEF FormatAt
  <2>10. var_fn = "log_msg" => LogAt(Len(var_todo))
    BY <1>3, <2>1, <2>5 DEF LogAt
  <2>11. BufferAt(Len(var_todo))
    BY <1>3, <2>8, <2>9, <2>10 DEF BufferAt
  <2> QED BY <1>5, <2>4, <2>6, <2>7, <2>11 DEF VarInv
<1> QED BY <1>2, <1>7, <1>8

\* It is all that is promised.
LEMMA VarEnds ==
    ASSUME VarInv
    PROVE  Var!ListsPaired /\ Var!BufferExact /\ Var!SecondPassRight
<1> DEFINE r == Len(var_todo)
<1>1. Passed /\ Place /\ ListsAt(r) /\ CountsAt(r) /\ BufferAt(r)
  BY DEF VarInv
<1>2. var_fn \in Function /\ r \in 0 .. Length(var_fn) /\ Length(var_fn) \in Nat
  BY <1>1 DEF Passed, Place, Length
<1>3. var_todo = <<>> => r = 0
  OBVIOUS
<1>4. LOGSZ \in Nat
  BY VariadicInputs DEF Var!VariadicAssumption
<1>5. Var!text \in Seq(Int) /\ Len(Var!text) = Var!lengths /\ Var!lengths \in Nat
  BY <1>1, TextMeasured DEF Passed
<1> HIDE DEF r
<1>6. Var!ListsPaired
  <2>1. var_bad = FALSE
    BY <1>1 DEF ListsAt
  <2>2. r = 0 => InAp(var_fn, r) = {Var!Off} /\ InAp2(var_fn, r) = {Var!Off}
    BY DEF InAp, InAp2
  <2>3. r = 0 => \A x \in Var!Lists : var_ap[x] = Var!Off
    BY <1>1, <2>2 DEF ListsAt, Var!Lists
  <2> QED BY <1>3, <2>1, <2>3 DEF Var!ListsPaired
<1>7. Var!SecondPassRight
  <2>2. r = 0 /\ var_fn = "stats" =>
          var_variance = Len(var_args) * Len(var_args) * Squares - Len(var_args) * Var!lengths * Var!lengths
    BY <1>1 DEF CountsAt
  <2>3. Squares = Var!FoldLeft(LAMBDA acc, a : acc + Len(a) * Len(a), 0, var_args)
    BY DEF Squares
  <2> QED BY <1>3, <2>2, <2>3 DEF Var!SecondPassRight
<1>8. ASSUME Full PROVE Len(var_out) < var_room /\ var_room # 0 /\ var_out = Var!text
  BY <1>5, <1>8 DEF Full
<1>9. Var!BufferExact
  <2>1. CASE var_fn = "join"
    <3>1. JoinAt(r)
      BY <1>1, <2>1 DEF BufferAt
    <3>2. Full \/ var_out = <<>>
      BY <1>2, <3>1 DEF JoinAt, Without
    <3>3. r = 0 => IF var_room = 0 THEN var_failed ELSE var_out = Var!text
      BY <1>8, <3>1 DEF JoinAt, Without
    <3> QED BY <1>3, <1>8, <2>1, <3>2, <3>3 DEF Var!BufferExact
  <2>2. CASE var_fn = "fmt_alloc"
    <3>1. FormatAt(r)
      BY <1>1, <2>2 DEF BufferAt
    <3>2. Full \/ var_out = <<>> \/ Spoilt
      BY <1>2, <3>1 DEF FormatAt, Without
    <3>3. r = 0 => IF var_room = 0 THEN var_failed ELSE var_out = Var!text \/ Spoilt
      BY <1>5, <1>8, <3>1 DEF FormatAt, Without
    <3> QED BY <1>3, <1>8, <2>2, <3>2, <3>3 DEF Var!BufferExact, Spoilt
  <2>3. CASE var_fn = "log_msg"
    <3>1. LogAt(r)
      BY <1>1, <2>3 DEF BufferAt
    <3>2. Len(var_out) < var_room \/ var_out = <<>> \/ Spoilt
      BY <1>2, <1>4, <1>5, <3>1, FittingPart DEF LogAt
    <3>3. r = 0 => Spoilt \/ (Var!IsPrefix(var_out, Var!text) /\ (Len(Var!text) < LOGSZ => var_out = Var!text))
      <4>1. CASE LOGSZ # 0
        BY <1>4, <1>5, <3>1, <4>1, FittingPart DEF LogAt
      <4>2. CASE LOGSZ = 0
        <5>1. SubSeq(<<>>, 1, 0) = SubSeq(Var!text, 1, 0) /\ Len(<<>>) = 0
          BY <1>5
        <5> QED BY <1>5, <3>1, <4>2, <5>1 DEF LogAt, Var!IsPrefix
      <4> QED BY <4>1, <4>2
    <3> QED BY <1>3, <2>3, <3>2, <3>3 DEF Var!BufferExact, Spoilt
  <2>4. CASE var_fn \notin {"join", "fmt_alloc", "log_msg"}
    <3>1. var_out = <<>>
      BY <1>1, <2>4 DEF BufferAt
    <3> QED BY <2>4, <3>1 DEF Var!BufferExact
  <2> QED BY <2>1, <2>2, <2>3, <2>4
<1> QED BY <1>6, <1>7, <1>9

-----------------------------------------------------------------------------
\* Exercise 16: the strings of brackets_balanced, and how deep they are.
Brackets == Seq(Apps!Chars)

\* One character at a time.
LEMMA DepthStep ==
    ASSUME NEW t \in Brackets, NEW k \in 1 .. Len(t)
    PROVE  /\ t[k] \in Apps!Openers => Apps!Depth(t, k) = Apps!Depth(t, k - 1) + 1
           /\ t[k] \in Apps!Closers => Apps!Depth(t, k) = Apps!Depth(t, k - 1) - 1
           /\ t[k] \notin Apps!Openers \cup Apps!Closers => Apps!Depth(t, k) = Apps!Depth(t, k - 1)
<1> DEFINE Up(m) == {j \in 1 .. m : t[j] \in Apps!Openers}
           Down(m) == {j \in 1 .. m : t[j] \in Apps!Closers}
<1>1. Len(t) \in Nat
  BY LenProperties DEF Brackets
<1>2. k \in Nat /\ k - 1 \in Nat /\ k # 0
  BY <1>1
<1>3. IsFiniteSet(Up(k - 1)) /\ IsFiniteSet(Down(k - 1))
  <2>1. IsFiniteSet(1 .. k - 1)
    BY <1>2, FS_Interval
  <2> QED BY <2>1, FS_Subset
<1>4. /\ t[k] \in Apps!Openers => Up(k) = Up(k - 1) \cup {k}
      /\ t[k] \notin Apps!Openers => Up(k) = Up(k - 1)
      /\ t[k] \in Apps!Closers => Down(k) = Down(k - 1) \cup {k}
      /\ t[k] \notin Apps!Closers => Down(k) = Down(k - 1)
  BY <1>2
<1>5. k \notin Up(k - 1) /\ k \notin Down(k - 1)
  BY <1>2
<1>6. \A m : Apps!Depth(t, m) = Cardinality(Up(m)) - Cardinality(Down(m))
  BY DEF Apps!Depth, Apps!Cardinality, Cardinality, Apps!IsFiniteSet, IsFiniteSet
<1> HIDE DEF Up, Down
<1>7. Cardinality(Up(k - 1)) \in Nat /\ Cardinality(Down(k - 1)) \in Nat
  BY <1>3, FS_CardinalityType
<1>8. /\ t[k] \in Apps!Openers => Cardinality(Up(k)) = Cardinality(Up(k - 1)) + 1
      /\ t[k] \notin Apps!Openers => Cardinality(Up(k)) = Cardinality(Up(k - 1))
      /\ t[k] \in Apps!Closers => Cardinality(Down(k)) = Cardinality(Down(k - 1)) + 1
      /\ t[k] \notin Apps!Closers => Cardinality(Down(k)) = Cardinality(Down(k - 1))
  BY <1>3, <1>4, <1>5, FS_AddElement
<1>9. \A c \in Apps!Openers : c \notin Apps!Closers
  BY DEF Apps!Openers, Apps!Closers
<1>10. ASSUME NEW u \in Nat, NEW d \in Nat
       PROVE  (u + 1) - d = (u - d) + 1 /\ u - (d + 1) = (u - d) - 1
  OBVIOUS
<1> QED BY <1>6, <1>7, <1>8, <1>9, <1>10

\* Nothing is open at first, and never more than was read.
LEMMA DepthBounds ==
    ASSUME NEW t \in Brackets, NEW k \in 0 .. Len(t)
    PROVE  Apps!Depth(t, k) \in Int /\ Apps!Depth(t, k) <= Len(t) /\ Apps!Depth(t, 0) = 0
<1> DEFINE Up(m) == {j \in 1 .. m : t[j] \in Apps!Openers}
           Down(m) == {j \in 1 .. m : t[j] \in Apps!Closers}
<1>1. Len(t) \in Nat
  BY LenProperties DEF Brackets
<1>2. \A m : Apps!Depth(t, m) = Cardinality(Up(m)) - Cardinality(Down(m))
  BY DEF Apps!Depth, Apps!Cardinality, Cardinality, Apps!IsFiniteSet, IsFiniteSet
<1>3. IsFiniteSet(1 .. k) /\ Cardinality(1 .. k) = k
  <2>1. k \in Int /\ k >= 0
    BY <1>1
  <2>2. IsFiniteSet(1 .. k) /\ Cardinality(1 .. k) = IF 1 > k THEN 0 ELSE k - 1 + 1
    BY <2>1, FS_Interval
  <2> QED BY <2>1, <2>2
<1>4. Up(k) \in SUBSET (1 .. k) /\ Down(k) \in SUBSET (1 .. k)
  OBVIOUS
<1>5. Up(0) = {} /\ Down(0) = {}
  OBVIOUS
<1> HIDE DEF Up, Down
<1>6. IsFiniteSet(Up(k)) /\ Cardinality(Up(k)) <= k /\ IsFiniteSet(Down(k))
  BY <1>3, <1>4, FS_Subset
<1>7. Cardinality(Up(k)) \in Nat /\ Cardinality(Down(k)) \in Nat
  BY <1>6, FS_CardinalityType
<1>8. Apps!Depth(t, 0) = 0
  BY <1>2, <1>5, FS_EmptySet
<1>9. k <= Len(t)
  BY <1>1
<1>10. Apps!Depth(t, k) = Cardinality(Up(k)) - Cardinality(Down(k))
  BY <1>2
<1> HIDE DEF Brackets
<1>11. Apps!Depth(t, k) \in Int
  BY <1>7, <1>10
<1>12. Apps!Depth(t, k) <= Len(t)
  BY <1>1, <1>6, <1>7, <1>9, <1>10
<1> QED BY <1>8, <1>11, <1>12

\* A pair of brackets that closes what it opened.
Pair(t, a, b) ==
    /\ a < b /\ t[a] \in Apps!Openers /\ t[b] \in Apps!Closers
    /\ Apps!Depth(t, b) = Apps!Depth(t, a - 1)
    /\ \A k \in a .. b - 1 : Apps!Depth(t, k) >= Apps!Depth(t, a)

\* The opener at a is the d-th that is still open after k characters.
OpenAt(t, d, k, a) ==
    /\ a \in 1 .. k /\ Apps!Depth(t, a - 1) = d - 1 /\ t[a] \in Apps!Openers
    /\ \A j \in a .. k : Apps!Depth(t, j) >= d

\* The stack st holds what is open after k characters, and all pairs so far match.
Scan(t, st, k) ==
    /\ Len(st) = Apps!Depth(t, k)
    /\ \A j \in 0 .. k : Apps!Depth(t, j) \in 0 .. CAPACITY
    /\ \A d \in 1 .. Len(st) : \E a : OpenAt(t, d, k, a) /\ t[a] = st[d]
    /\ \A a, b \in 1 .. k : Pair(t, a, b) => Apps!Match(t[a], t[b])

\* A balanced string that fits is one with these three properties.
LEMMA BalancedFits ==
    ASSUME NEW t \in Brackets, CAPACITY \in Nat
    PROVE  Apps!Balanced(t) /\ Apps!Deepest(t) <= CAPACITY
             <=> /\ \A k \in 0 .. Len(t) : Apps!Depth(t, k) \in 0 .. CAPACITY
                 /\ Apps!Depth(t, Len(t)) = 0
                 /\ \A a, b \in 1 .. Len(t) : Pair(t, a, b) => Apps!Match(t[a], t[b])
<1> DEFINE S == {Apps!Depth(t, k) : k \in 0 .. Len(t)}
           P == \A a, b \in 1 .. Len(t) : Pair(t, a, b) => Apps!Match(t[a], t[b])
<1>1. Len(t) \in Nat
  BY LenProperties DEF Brackets
<1>2. \A k \in 0 .. Len(t) : Apps!Depth(t, k) \in Int /\ Apps!Depth(t, k) <= Len(t)
  BY DepthBounds
<1>3. Apps!Balanced(t) <=> /\ \A k \in 0 .. Len(t) : Apps!Depth(t, k) >= 0
                           /\ Apps!Depth(t, Len(t)) = 0 /\ P
  BY DEF Apps!Balanced, Pair
<1>4. Apps!Deepest(t) = Apps!Max(S)
  BY DEF Apps!Deepest
<1> HIDE DEF P
<1>5. S # {}
  BY <1>1
<1>6. ASSUME \A k \in 0 .. Len(t) : Apps!Depth(t, k) >= 0
      PROVE  Apps!Max(S) \in S /\ \A y \in S : Apps!Max(S) >= y
  <2>1. S \in SUBSET (0 .. Len(t))
    BY <1>2, <1>6
  <2> HIDE DEF S
  <2>2. \E x \in S : \A y \in S : y <= x
    BY <1>1, <1>5, <2>1, GreatestNumber
  <2>3. \E x \in S : \A y \in S : x >= y
    BY <2>2
  <2> QED BY <2>3 DEF Apps!Max
<1>7. ASSUME \A k \in 0 .. Len(t) : Apps!Depth(t, k) >= 0
      PROVE  Apps!Max(S) <= CAPACITY <=> \A k \in 0 .. Len(t) : Apps!Depth(t, k) <= CAPACITY
  <2>1. Apps!Max(S) \in S /\ \A y \in S : Apps!Max(S) >= y
    BY <1>6, <1>7
  <2>2. PICK m \in 0 .. Len(t) : Apps!Max(S) = Apps!Depth(t, m)
    BY <2>1
  <2>3. \A k \in 0 .. Len(t) : Apps!Depth(t, m) >= Apps!Depth(t, k)
    BY <2>1, <2>2
  <2>4. Apps!Depth(t, m) \in Int
    BY <1>2
  <2> HIDE DEF S
  <2> QED BY <1>2, <2>2, <2>3, <2>4
<1> HIDE DEF S
<1>8. (\A k \in 0 .. Len(t) : Apps!Depth(t, k) \in 0 .. CAPACITY)
        <=> /\ \A k \in 0 .. Len(t) : Apps!Depth(t, k) >= 0
            /\ \A k \in 0 .. Len(t) : Apps!Depth(t, k) <= CAPACITY
  BY <1>2
<1> QED BY <1>3, <1>4, <1>7, <1>8 DEF P

\* Nothing was read.
LEMMA ScanNone ==
    ASSUME NEW t \in Brackets, CAPACITY \in Nat
    PROVE  Scan(t, <<>>, 0)
<1>1. Apps!Depth(t, 0) = 0
  BY DepthBounds, LenProperties DEF Brackets
<1>2. 0 .. 0 = {0} /\ 1 .. 0 = {} /\ Len(<<>>) = 0
  OBVIOUS
<1> QED BY <1>1, <1>2 DEF Scan

\* An opener is pushed.
LEMMA ScanPush ==
    ASSUME NEW t \in Brackets, NEW st \in Seq(Apps!Openers), NEW k \in Nat, k < Len(t), CAPACITY \in Nat,
           Scan(t, st, k), t[k + 1] \in Apps!Openers, Len(st) < CAPACITY
    PROVE  Scan(t, Append(st, t[k + 1]), k + 1)
<1> DEFINE e == k + 1
           n == Len(st)
           st2 == Append(st, t[e])
           D(m) == Apps!Depth(t, m)
<1>1. Len(t) \in Nat /\ n \in Nat /\ e \in 1 .. Len(t) /\ e - 1 = k
  BY LenProperties DEF Brackets
<1>2. D(e) = D(k) + 1
  BY <1>1, DepthStep
<1>3. /\ n = D(k) /\ \A j \in 0 .. k : D(j) \in 0 .. CAPACITY
      /\ \A d \in 1 .. n : \E a : OpenAt(t, d, k, a) /\ t[a] = st[d]
      /\ \A a, b \in 1 .. k : Pair(t, a, b) => Apps!Match(t[a], t[b])
  BY DEF Scan
<1>4. Len(st2) = n + 1 /\ st2[n + 1] = t[e] /\ \A d \in 1 .. n : st2[d] = st[d]
  BY <1>1, AppendProperties
<1>5. t[e] \notin Apps!Closers
  BY DEF Apps!Openers, Apps!Closers
<1> HIDE DEF st2, n, e, D
<1>6. D(e) = n + 1 /\ e \in Nat /\ k = e - 1
  BY <1>1, <1>2, <1>3 DEF e
<1>7. \A j \in 0 .. e : D(j) \in 0 .. CAPACITY
  <2>1. n + 1 \in 0 .. CAPACITY
    BY <1>1 DEF n
  <2> QED BY <1>3, <1>6, <2>1
<1>8. ASSUME NEW d \in 1 .. n + 1 PROVE \E a : OpenAt(t, d, e, a) /\ t[a] = st2[d]
  <2>1. CASE d = n + 1
    <3>1. D(e - 1) = d - 1 /\ \A j \in e .. e : D(j) >= d
      BY SMTT(30), <1>1, <1>3, <1>6, <2>1
    <3>2. e \in 1 .. e
      BY <1>1
    <3>3. OpenAt(t, d, e, e)
      BY <3>1, <3>2 DEF OpenAt, D, e
    <3> QED BY <1>4, <2>1, <3>3
  <2>2. CASE d \in 1 .. n
    <3>1. PICK a : OpenAt(t, d, k, a) /\ t[a] = st[d]
      BY <1>3, <2>2
    <3>2. a \in 1 .. k /\ D(a - 1) = d - 1 /\ t[a] \in Apps!Openers /\ \A j \in a .. k : D(j) >= d
      BY <3>1 DEF OpenAt, D
    <3>3. a \in 1 .. e /\ \A j \in a .. e : j \in a .. k \/ j = e
      BY <1>6, <3>2
    <3>4. D(e) >= d
      BY <1>1, <1>6, <2>2
    <3>5. \A j \in a .. e : D(j) >= d
      BY <3>2, <3>3, <3>4
    <3>6. OpenAt(t, d, e, a)
      BY <3>2, <3>3, <3>5 DEF OpenAt, D
    <3> QED BY <1>4, <2>2, <3>1, <3>6
  <2> QED BY <1>1, <2>1, <2>2
<1>9. ASSUME NEW a \in 1 .. e, NEW b \in 1 .. e, Pair(t, a, b) PROVE Apps!Match(t[a], t[b])
  <2>1. b # e /\ a < b
    BY <1>5, <1>9 DEF Pair
  <2>2. a \in 1 .. k /\ b \in 1 .. k
    BY <1>6, <2>1
  <2> QED BY <1>3, <1>9, <2>2
<1>10. Scan(t, st2, e)
  BY SMTT(30), <1>4, <1>6, <1>7, <1>8, <1>9 DEF Scan, D
<1> QED BY <1>10 DEF st2, e

\* Anything else is skipped.
LEMMA ScanSkip ==
    ASSUME NEW t \in Brackets, NEW st \in Seq(Apps!Openers), NEW k \in Nat, k < Len(t), CAPACITY \in Nat,
           Scan(t, st, k), t[k + 1] \notin Apps!Openers \cup Apps!Closers
    PROVE  Scan(t, st, k + 1)
<1> DEFINE e == k + 1
           n == Len(st)
           D(m) == Apps!Depth(t, m)
<1>1. Len(t) \in Nat /\ n \in Nat /\ e \in 1 .. Len(t) /\ e - 1 = k
  BY LenProperties DEF Brackets
<1>2. D(e) = D(k)
  BY <1>1, DepthStep
<1>3. /\ n = D(k) /\ \A j \in 0 .. k : D(j) \in 0 .. CAPACITY
      /\ \A d \in 1 .. n : \E a : OpenAt(t, d, k, a) /\ t[a] = st[d]
      /\ \A a, b \in 1 .. k : Pair(t, a, b) => Apps!Match(t[a], t[b])
  BY DEF Scan
<1> HIDE DEF n, e, D
<1>6. D(e) = n /\ e \in Nat /\ k = e - 1
  BY <1>1, <1>2, <1>3 DEF e
<1>7. \A j \in 0 .. e : D(j) \in 0 .. CAPACITY
  <2>1. D(e) \in 0 .. CAPACITY
    BY <1>2, <1>3
  <2> QED BY <1>3, <1>6, <2>1
<1>8. ASSUME NEW d \in 1 .. n PROVE \E a : OpenAt(t, d, e, a) /\ t[a] = st[d]
  <2>1. PICK a : OpenAt(t, d, k, a) /\ t[a] = st[d]
    BY <1>3
  <2>2. a \in 1 .. k /\ D(a - 1) = d - 1 /\ t[a] \in Apps!Openers /\ \A j \in a .. k : D(j) >= d
    BY <2>1 DEF OpenAt, D
  <2>3. a \in 1 .. e /\ \A j \in a .. e : j \in a .. k \/ j = e
    BY <1>6, <2>2
  <2>4. D(e) >= d
    BY <1>1, <1>6
  <2>5. \A j \in a .. e : D(j) >= d
    BY <2>2, <2>3, <2>4
  <2>6. OpenAt(t, d, e, a)
    BY <2>2, <2>3, <2>5 DEF OpenAt, D
  <2> QED BY <2>1, <2>6
<1>9. ASSUME NEW a \in 1 .. e, NEW b \in 1 .. e, Pair(t, a, b) PROVE Apps!Match(t[a], t[b])
  <2>1. b # e /\ a < b
    BY <1>9 DEF Pair, e
  <2>2. a \in 1 .. k /\ b \in 1 .. k
    BY <1>6, <2>1
  <2> QED BY <1>3, <1>9, <2>2
<1>10. Scan(t, st, e)
  BY <1>6, <1>7, <1>8, <1>9 DEF Scan, D, n
<1> QED BY <1>10 DEF e

\* The pair that a closer makes is with the opener on top of the stack.
LEMMA TopOpener ==
    ASSUME NEW t \in Brackets, NEW st \in Seq(Apps!Openers), NEW k \in Nat, k < Len(t), CAPACITY \in Nat,
           Scan(t, st, k), t[k + 1] \in Apps!Closers, st # <<>>
    PROVE  \E a \in 1 .. k : /\ Pair(t, a, k + 1) /\ t[a] = st[Len(st)]
                             /\ \A c \in 1 .. k : Pair(t, c, k + 1) => c = a
<1> DEFINE e == k + 1
           n == Len(st)
           D(m) == Apps!Depth(t, m)
<1>1. Len(t) \in Nat /\ n \in Nat /\ n # 0 /\ e \in 1 .. Len(t) /\ e - 1 = k
  BY LenProperties, EmptySeq DEF Brackets
<1>2. D(e) = D(k) - 1
  BY <1>1, DepthStep
<1>3. /\ n = D(k)
      /\ \A d \in 1 .. n : \E a : OpenAt(t, d, k, a) /\ t[a] = st[d]
  BY DEF Scan
<1> HIDE DEF n, e, D
<1>4. n \in 1 .. n
  BY <1>1
<1>5. PICK a : OpenAt(t, n, k, a) /\ t[a] = st[n]
  BY <1>3, <1>4
<1>6. a \in 1 .. k /\ D(a - 1) = n - 1 /\ t[a] \in Apps!Openers /\ \A j \in a .. k : D(j) >= n
  BY <1>5 DEF OpenAt, D
<1>7. ASSUME NEW c \in 1 .. k, t[c] \in Apps!Openers PROVE D(c) = D(c - 1) + 1 /\ D(c - 1) \in Int
  <2>1. c \in 1 .. Len(t) /\ c - 1 \in 0 .. Len(t)
    BY <1>1
  <2> QED BY <1>7, <2>1, DepthStep, DepthBounds DEF D
<1>8. Pair(t, a, e)
  <2>1. a < e /\ e - 1 = k /\ t[e] \in Apps!Closers
    BY <1>1, <1>6 DEF e
  <2>2. D(e) = D(a - 1)
    BY <1>2, <1>3, <1>6
  <2>3. D(a) = n
    BY <1>1, <1>6, <1>7
  <2>4. \A j \in a .. e - 1 : D(j) >= D(a)
    BY <1>6, <2>1, <2>3
  <2> QED BY <1>6, <2>1, <2>2, <2>4 DEF Pair, D
<1>9. ASSUME NEW c \in 1 .. k, Pair(t, c, e) PROVE c = a
  <2>1. t[c] \in Apps!Openers /\ D(e) = D(c - 1) /\ \A j \in c .. e - 1 : D(j) >= D(c)
    BY <1>9 DEF Pair, D
  <2>2. D(c - 1) = n - 1 /\ D(c) = n
    BY <1>1, <1>2, <1>3, <1>7, <2>1
  <2>3. ~(c < a)
    <3> SUFFICES ASSUME c < a PROVE FALSE
      OBVIOUS
    <3>1. a - 1 \in c .. e - 1
      BY <1>1, <1>6
    <3>2. D(a - 1) >= n
      BY <2>1, <2>2, <3>1
    <3> QED BY <1>1, <1>6, <3>2
  <2>4. ~(a < c)
    <3> SUFFICES ASSUME a < c PROVE FALSE
      OBVIOUS
    <3>1. c - 1 \in a .. k
      BY <1>6
    <3>2. D(c - 1) >= n
      BY <1>6, <3>1
    <3> QED BY <1>1, <2>2, <3>2
  <2> QED BY <1>6, <2>3, <2>4
<1> QED BY <1>5, <1>6, <1>8, <1>9 DEF n, e

\* A closer takes the opener it matches off the stack.
LEMMA ScanPop ==
    ASSUME NEW t \in Brackets, NEW st \in Seq(Apps!Openers), NEW k \in Nat, k < Len(t), CAPACITY \in Nat,
           Scan(t, st, k), t[k + 1] \in Apps!Closers, st # <<>>, Apps!Match(st[Len(st)], t[k + 1])
    PROVE  Scan(t, Apps!Front(st), k + 1)
<1> DEFINE e == k + 1
           n == Len(st)
           st2 == Apps!Front(st)
           D(m) == Apps!Depth(t, m)
<1>0. PICK x \in 1 .. k : t[x] = st[Len(st)] /\ \A c \in 1 .. k : Pair(t, c, k + 1) => c = x
  BY TopOpener
<1>1. Len(t) \in Nat /\ n \in Nat /\ n # 0 /\ e \in 1 .. Len(t) /\ e - 1 = k
  BY LenProperties, EmptySeq DEF Brackets
<1>2. D(e) = D(k) - 1
  BY <1>1, DepthStep
<1>3. /\ n = D(k) /\ \A j \in 0 .. k : D(j) \in 0 .. CAPACITY
      /\ \A d \in 1 .. n : \E a : OpenAt(t, d, k, a) /\ t[a] = st[d]
      /\ \A a, b \in 1 .. k : Pair(t, a, b) => Apps!Match(t[a], t[b])
  BY DEF Scan
<1>4. Len(st2) = n - 1 /\ \A d \in 1 .. n - 1 : st2[d] = st[d]
  <2>1. st2 = SubSeq(st, 1, n - 1)
    BY DEF Apps!Front
  <2>2. \A i \in 1 .. n - 1 : st[i] \in Apps!Openers
    <3> SUFFICES ASSUME NEW i \in 1 .. n - 1 PROVE st[i] \in Apps!Openers
      OBVIOUS
    <3>1. i \in 1 .. Len(st)
      BY <1>1
    <3> QED BY <3>1, ElementOfSeq
  <2> HIDE DEF st2, n
  <2>3. 1 \in Int /\ n - 1 \in Int
    BY <1>1
  <2>4. /\ Len(st2) = IF 1 <= n - 1 THEN n - 1 - 1 + 1 ELSE 0
        /\ \A i \in 1 .. n - 1 - 1 + 1 : st2[i] = st[1 + i - 1]
    BY <2>1, <2>2, <2>3, SubSeqProperties
  <2>5. Len(st2) = n - 1
    BY <1>1, <2>4
  <2>6. ASSUME NEW d \in 1 .. n - 1 PROVE st2[d] = st[d]
    <3>1. d \in 1 .. n - 1 - 1 + 1 /\ 1 + d - 1 = d
      BY <1>1
    <3> QED BY <2>4, <3>1
  <2> QED BY <2>5, <2>6
<1> HIDE DEF st2, n, e, D
<1>6. D(e) = n - 1 /\ e \in Nat /\ k = e - 1
  BY <1>1, <1>2, <1>3 DEF e
<1>7. \A j \in 0 .. e : D(j) \in 0 .. CAPACITY
  <2>1. n \in 0 .. CAPACITY
    BY <1>3
  <2>2. n - 1 \in 0 .. CAPACITY
    BY <1>1, <2>1
  <2> QED BY <1>3, <1>6, <2>2
<1>8. ASSUME NEW d \in 1 .. n - 1 PROVE \E a : OpenAt(t, d, e, a) /\ t[a] = st2[d]
  <2>0. d \in 1 .. n
    BY <1>1
  <2>1. PICK a : OpenAt(t, d, k, a) /\ t[a] = st[d]
    BY <1>3, <2>0
  <2>2. a \in 1 .. k /\ D(a - 1) = d - 1 /\ t[a] \in Apps!Openers /\ \A j \in a .. k : D(j) >= d
    BY <2>1 DEF OpenAt, D
  <2>3. a \in 1 .. e /\ \A j \in a .. e : j \in a .. k \/ j = e
    BY <1>6, <2>2
  <2>4. D(e) >= d
    BY <1>1, <1>6
  <2>5. \A j \in a .. e : D(j) >= d
    BY <2>2, <2>3, <2>4
  <2>6. OpenAt(t, d, e, a)
    BY <2>2, <2>3, <2>5 DEF OpenAt, D
  <2> QED BY <1>4, <2>1, <2>6
<1>9. ASSUME NEW a \in 1 .. e, NEW b \in 1 .. e, Pair(t, a, b) PROVE Apps!Match(t[a], t[b])
  <2>1. a < b
    BY <1>9 DEF Pair
  <2>2. a \in 1 .. k
    BY <1>6, <2>1
  <2>3. CASE b = e
    <3>1. a = x
      BY <1>0, <1>9, <2>2, <2>3 DEF e
    <3> QED BY <1>0, <2>3, <3>1 DEF e
  <2>4. CASE b # e
    <3>1. b \in 1 .. k
      BY <1>6, <2>4
    <3> QED BY <1>3, <1>9, <2>2, <3>1
  <2> QED BY <2>3, <2>4
<1>10. Scan(t, st2, e)
  BY <1>4, <1>6, <1>7, <1>8, <1>9 DEF Scan, D
<1> QED BY <1>10 DEF st2, e

\* Where the loop says no, the string is not balanced or does not fit.
LEMMA ScanRefuses ==
    ASSUME NEW t \in Brackets, NEW st \in Seq(Apps!Openers), NEW k \in Nat, k < Len(t), CAPACITY \in Nat,
           Scan(t, st, k),
           \/ t[k + 1] \in Apps!Openers /\ Len(st) >= CAPACITY
           \/ t[k + 1] \in Apps!Closers /\ st = <<>>
           \/ t[k + 1] \in Apps!Closers /\ st # <<>> /\ ~Apps!Match(st[Len(st)], t[k + 1])
    PROVE  ~(Apps!Balanced(t) /\ Apps!Deepest(t) <= CAPACITY)
<1> SUFFICES ASSUME Apps!Balanced(t) /\ Apps!Deepest(t) <= CAPACITY PROVE FALSE
  OBVIOUS
<1> DEFINE e == k + 1
           n == Len(st)
           D(m) == Apps!Depth(t, m)
<1>1. /\ Len(t) \in Nat /\ n \in Nat /\ e \in 1 .. Len(t) /\ e - 1 = k
      /\ e \in 0 .. Len(t)
  BY LenProperties DEF Brackets
<1>2. /\ D(e) \in 0 .. CAPACITY
      /\ \A a, b \in 1 .. Len(t) : Pair(t, a, b) => Apps!Match(t[a], t[b])
  BY <1>1, BalancedFits
<1>3. n = D(k)
  BY DEF Scan
<1>4. (t[e] \in Apps!Openers => D(e) = D(k) + 1) /\ (t[e] \in Apps!Closers => D(e) = D(k) - 1)
  BY <1>1, DepthStep
<1>5. CASE t[k + 1] \in Apps!Openers /\ Len(st) >= CAPACITY
  <2>1. D(e) = n + 1 /\ n >= CAPACITY
    BY <1>3, <1>4, <1>5
  <2> HIDE DEF D, n, e
  <2> QED BY <1>1, <1>2, <2>1
<1>6. CASE t[k + 1] \in Apps!Closers /\ st = <<>>
  <2>1. D(e) = n - 1 /\ n = 0
    BY <1>3, <1>4, <1>6
  <2> HIDE DEF D, n, e
  <2> QED BY <1>2, <2>1
<1>7. CASE t[k + 1] \in Apps!Closers /\ st # <<>> /\ ~Apps!Match(st[Len(st)], t[k + 1])
  <2>1. PICK a \in 1 .. k : Pair(t, a, k + 1) /\ t[a] = st[Len(st)]
    BY <1>7, TopOpener
  <2>2. a \in 1 .. Len(t)
    BY <1>1
  <2> QED BY <1>1, <1>2, <1>7, <2>1, <2>2
<1> QED BY <1>5, <1>6, <1>7

\* At the end of the string the stack decides.
LEMMA ScanEnds ==
    ASSUME NEW t \in Brackets, NEW st \in Seq(Apps!Openers), CAPACITY \in Nat, Scan(t, st, Len(t))
    PROVE  st = <<>> <=> Apps!Balanced(t) /\ Apps!Deepest(t) <= CAPACITY
<1>1. st = <<>> <=> Len(st) = 0
  BY EmptySeq
<1>2. /\ Len(st) = Apps!Depth(t, Len(t))
      /\ \A k \in 0 .. Len(t) : Apps!Depth(t, k) \in 0 .. CAPACITY
      /\ \A a, b \in 1 .. Len(t) : Pair(t, a, b) => Apps!Match(t[a], t[b])
  BY DEF Scan
<1> QED BY <1>1, <1>2, BalancedFits

\* What brackets_balanced knows after each character, and says at the end.
BracketInv ==
    /\ app_s \in Brackets /\ app_i \in 1 .. Len(app_s) + 1
    /\ app_result \in {"none", "yes", "no"}
    /\ app_stk \in Seq(Apps!Openers) /\ Len(app_stk) <= CAPACITY
    /\ app_result = "none" => Scan(app_s, app_stk, app_i - 1)
    /\ Apps!BracketsCorrect

\* Before the first character nothing is open.
LEMMA BracketInit ==
    ASSUME Apps!Init
    PROVE  BracketInv
<1>1. CAPACITY \in Nat
  BY AppInputs DEF Apps!AppsAssumption
<1>2. app_i = 1 /\ app_stk = <<>> /\ app_result = "none"
  BY DEF Apps!Init
<1>3. app_s \in Brackets
  <2>1. app_s \in Apps!BoundedSeq(Apps!Chars, MaxWord) \/ app_s = <<>>
    BY DEF Apps!Init
  <2>2. CASE app_s = <<>>
    BY <2>2 DEF Brackets
  <2>3. CASE app_s \in Apps!BoundedSeq(Apps!Chars, MaxWord)
    <3>1. PICK m \in 0 .. MaxWord : app_s \in [1 .. m -> Apps!Chars]
      BY <2>3 DEF Apps!BoundedSeq, Apps!SeqOf
    <3>2. m \in Nat
      BY <3>1, AppInputs DEF Apps!AppsAssumption
    <3> QED BY <3>1, <3>2 DEF Brackets
  <2> QED BY <2>1, <2>2, <2>3
<1>4. Scan(app_s, <<>>, 0)
  BY <1>1, <1>3, ScanNone
<1>5. Len(app_s) \in Nat
  BY <1>3, LenProperties DEF Brackets
<1>6. app_i \in 1 .. Len(app_s) + 1 /\ app_i - 1 = 0
  BY <1>2, <1>5
<1>7. app_stk \in Seq(Apps!Openers) /\ Len(app_stk) <= CAPACITY
  BY <1>1, <1>2
<1>8. Apps!BracketsCorrect
  BY <1>2 DEF Apps!BracketsCorrect
<1> QED BY <1>2, <1>3, <1>4, <1>6, <1>7, <1>8 DEF BracketInv

\* A character, or the end of the string.
LEMMA BracketStep ==
    ASSUME BracketInv, Apps!brackets_balanced
    PROVE  BracketInv'
<1> DEFINE t == app_s
           k == app_i - 1
           Fits == Apps!Balanced(t) /\ Apps!Deepest(t) <= CAPACITY
<1>1. CAPACITY \in Nat
  BY AppInputs DEF Apps!AppsAssumption
<1>2. /\ t \in Brackets /\ app_i \in 1 .. Len(t) + 1 /\ app_stk \in Seq(Apps!Openers)
      /\ Len(app_stk) <= CAPACITY
  BY DEF BracketInv
<1>3. Len(t) \in Nat /\ Len(app_stk) \in Nat /\ k \in Nat /\ app_i = k + 1
  BY <1>2, LenProperties DEF Brackets
<1>4. app_result = "none" /\ app_s' = app_s
  BY DEF Apps!brackets_balanced, Apps!scan, Apps!finish
<1>5. Scan(t, app_stk, k)
  BY <1>4 DEF BracketInv
<1>6. Apps!BracketsCorrect' <=> (app_result' # "none" => (app_result' = "yes" <=> Fits))
  BY <1>4 DEF Apps!BracketsCorrect, Apps!Balanced, Apps!Deepest
<1> HIDE DEF Fits
<1>7. CASE Apps!scan
  <2>1. k < Len(t) /\ app_i' = app_i + 1
    BY <1>3, <1>7 DEF Apps!scan
  <2>2. app_i' \in 1 .. Len(t) + 1 /\ app_i' - 1 = k + 1
    BY <1>3, <2>1
  <2>3. \/ t[k + 1] \in Apps!Openers /\ Len(app_stk) >= CAPACITY /\ app_result' = "no" /\ app_stk' = app_stk
        \/ /\ t[k + 1] \in Apps!Openers /\ ~(Len(app_stk) >= CAPACITY)
           /\ app_stk' = Append(app_stk, t[k + 1]) /\ app_result' = app_result
        \/ t[k + 1] \in Apps!Closers /\ app_stk = <<>> /\ app_result' = "no" /\ app_stk' = app_stk
        \/ /\ t[k + 1] \in Apps!Closers /\ app_stk # <<>> /\ app_stk' = Apps!Front(app_stk)
           /\ app_result' = IF ~Apps!Match(app_stk[Len(app_stk)], t[k + 1]) THEN "no" ELSE "none"
        \/ /\ t[k + 1] \notin Apps!Openers \cup Apps!Closers
           /\ app_stk' = app_stk /\ app_result' = app_result
    BY <1>3, <1>7 DEF Apps!scan, Apps!stack_full, Apps!mismatch, Apps!Last
  <2> HIDE DEF k, t
  <2>4. ASSUME app_result' = "no", app_stk' \in Seq(Apps!Openers), Len(app_stk') <= CAPACITY, ~Fits
        PROVE  BracketInv'
    <3>1. Apps!BracketsCorrect'
      BY <1>6, <2>4
    <3> QED BY <1>2, <1>4, <2>2, <2>4, <3>1 DEF BracketInv, t
  <2>5. ASSUME app_result' = "none", app_stk' \in Seq(Apps!Openers), Len(app_stk') <= CAPACITY,
               Scan(t, app_stk', k + 1)
        PROVE  BracketInv'
    <3>1. Apps!BracketsCorrect'
      BY <1>6, <2>5
    <3>2. Scan(app_s', app_stk', app_i' - 1)
      BY <1>4, <2>2, <2>5 DEF t
    <3>3. Scan(app_s, app_stk, app_i - 1)'
      BY <3>2 DEF Scan
    <3> QED BY <1>2, <1>4, <2>2, <2>5, <3>1, <3>3 DEF BracketInv, t
  <2>6. CASE t[k + 1] \in Apps!Openers /\ Len(app_stk) >= CAPACITY /\ app_result' = "no" /\ app_stk' = app_stk
    <3>1. ~Fits
      BY <1>1, <1>2, <1>3, <1>5, <2>1, <2>6, ScanRefuses DEF Fits
    <3> QED BY <1>2, <2>4, <2>6, <3>1
  <2>7. CASE /\ t[k + 1] \in Apps!Openers /\ ~(Len(app_stk) >= CAPACITY)
             /\ app_stk' = Append(app_stk, t[k + 1]) /\ app_result' = app_result
    <3>1. Len(app_stk) < CAPACITY
      BY <1>1, <1>3, <2>7
    <3>2. Scan(t, app_stk', k + 1)
      BY <1>1, <1>2, <1>3, <1>5, <2>1, <2>7, <3>1, ScanPush
    <3>3. app_stk' \in Seq(Apps!Openers) /\ Len(app_stk') = Len(app_stk) + 1
      BY <1>2, <2>7, AppendProperties
    <3>4. Len(app_stk') <= CAPACITY
      BY <1>1, <1>3, <3>1, <3>3
    <3> QED BY <1>4, <2>5, <2>7, <3>2, <3>3, <3>4
  <2>8. CASE t[k + 1] \in Apps!Closers /\ app_stk = <<>> /\ app_result' = "no" /\ app_stk' = app_stk
    <3>1. ~Fits
      BY <1>1, <1>2, <1>3, <1>5, <2>1, <2>8, ScanRefuses DEF Fits
    <3> QED BY <1>2, <2>4, <2>8, <3>1
  <2>9. CASE /\ t[k + 1] \in Apps!Closers /\ app_stk # <<>> /\ app_stk' = Apps!Front(app_stk)
             /\ app_result' = IF ~Apps!Match(app_stk[Len(app_stk)], t[k + 1]) THEN "no" ELSE "none"
    <3>1. app_stk' \in Seq(Apps!Openers) /\ Len(app_stk') <= CAPACITY
      <4> DEFINE st == app_stk
                 n == Len(app_stk)
      <4>1. /\ n \in Nat /\ n # 0 /\ n <= CAPACITY /\ st \in Seq(Apps!Openers)
            /\ n = Len(st)
        BY <1>2, <1>3, <2>9, EmptySeq
      <4>2. app_stk' = SubSeq(st, 1, n - 1)
        BY <2>9 DEF Apps!Front
      <4> HIDE DEF st, n
      <4>3. \A i \in 1 .. n - 1 : st[i] \in Apps!Openers
        <5> SUFFICES ASSUME NEW i \in 1 .. n - 1 PROVE st[i] \in Apps!Openers
          OBVIOUS
        <5>1. i \in 1 .. Len(st)
          BY <4>1
        <5> QED BY <4>1, <5>1, ElementOfSeq
      <4>4. 1 \in Int /\ n - 1 \in Int
        BY <4>1
      <4>5. /\ SubSeq(st, 1, n - 1) \in Seq(Apps!Openers)
            /\ Len(SubSeq(st, 1, n - 1)) = IF 1 <= n - 1 THEN n - 1 - 1 + 1 ELSE 0
        BY <4>3, <4>4, SubSeqProperties
      <4> QED BY <1>1, <4>1, <4>2, <4>5
    <3>2. CASE Apps!Match(app_stk[Len(app_stk)], t[k + 1])
      <4>1. Scan(t, app_stk', k + 1)
        BY <1>1, <1>2, <1>3, <1>5, <2>1, <2>9, <3>2, ScanPop
      <4> QED BY <2>5, <2>9, <3>1, <3>2, <4>1
    <3>3. CASE ~Apps!Match(app_stk[Len(app_stk)], t[k + 1])
      <4>1. ~Fits
        BY <1>1, <1>2, <1>3, <1>5, <2>1, <2>9, <3>3, ScanRefuses DEF Fits
      <4> QED BY <2>4, <2>9, <3>1, <3>3, <4>1
    <3> QED BY <3>2, <3>3
  <2>10. CASE /\ t[k + 1] \notin Apps!Openers \cup Apps!Closers
              /\ app_stk' = app_stk /\ app_result' = app_result
    <3>1. Scan(t, app_stk', k + 1)
      BY <1>1, <1>2, <1>3, <1>5, <2>1, <2>10, ScanSkip
    <3> QED BY <1>2, <1>4, <2>5, <2>10, <3>1
  <2> QED BY <2>3, <2>6, <2>7, <2>8, <2>9, <2>10
<1>8. CASE Apps!finish
  <2>1. k = Len(t) /\ app_i' = app_i /\ app_stk' = app_stk
    BY <1>2, <1>3, <1>8 DEF Apps!finish
  <2>2. app_result' = IF app_stk = <<>> THEN "yes" ELSE "no"
    BY <1>8 DEF Apps!finish
  <2>3. app_stk = <<>> <=> Fits
    BY <1>1, <1>2, <1>5, <2>1, ScanEnds DEF Fits
  <2>4. Apps!BracketsCorrect'
    BY <1>6, <2>2, <2>3
  <2> QED BY <1>2, <1>4, <2>1, <2>2, <2>4 DEF BracketInv
<1> QED BY <1>7, <1>8 DEF Apps!brackets_balanced

\* Nothing else touches what brackets_balanced uses.
LEMMA BracketKept ==
    ASSUME BracketInv, UNCHANGED <<app_s, app_i, app_stk, app_result>>
    PROVE  BracketInv'
<1>1. /\ app_s' = app_s /\ app_i' = app_i /\ app_stk' = app_stk
      /\ app_result' = app_result
  OBVIOUS
<1>2. Apps!BracketsCorrect' <=> Apps!BracketsCorrect
  BY <1>1 DEF Apps!BracketsCorrect, Apps!Balanced, Apps!Deepest
<1>3. Scan(app_s, app_stk, app_i - 1)' <=> Scan(app_s, app_stk, app_i - 1)
  BY <1>1 DEF Scan
<1> QED BY <1>1, <1>2, <1>3 DEF BracketInv

-----------------------------------------------------------------------------
\* b consecutive nodes after a.
Run(a, b) == [k \in 1 .. b |-> a + k]

\* A run is a sequence of numbers, its length and its elements known.
LEMMA RunSeq ==
    ASSUME NEW a \in Nat, NEW b \in Nat
    PROVE  /\ Run(a, b) \in Seq(Nat) /\ Len(Run(a, b)) = b
           /\ \A k \in 1 .. b : Run(a, b)[k] = a + k
           /\ Run(a, b) = <<>> <=> b = 0
           /\ b # 0 => Head(Run(a, b)) = a + 1 /\ Tail(Run(a, b)) = Run(a + 1, b - 1)
<1> DEFINE s == Run(a, b)
<1>1. s \in Seq(Nat) /\ Len(s) = b /\ \A k \in 1 .. b : s[k] = a + k
  BY DEF Run
<1> HIDE DEF s
<1>2. s = <<>> <=> b = 0
  BY <1>1, EmptySeq
<1>3. ASSUME b # 0 PROVE Head(s) = a + 1 /\ Tail(s) = Run(a + 1, b - 1)
  <2>1. s # <<>> /\ 1 \in 1 .. b
    BY <1>2, <1>3
  <2>2. Head(s) = s[1]
    BY <1>1, <2>1
  <2>3. /\ Tail(s) \in Seq(Nat) /\ Len(Tail(s)) = b - 1
        /\ \A k \in 1 .. b - 1 : Tail(s)[k] = s[k + 1]
    BY <1>1, <2>1, HeadTailProperties
  <2>4. \A k \in 1 .. b - 1 : Tail(s)[k] = (a + 1) + k
    <3> SUFFICES ASSUME NEW k \in 1 .. b - 1 PROVE Tail(s)[k] = (a + 1) + k
      OBVIOUS
    <3>1. k + 1 \in 1 .. b /\ a + (k + 1) = (a + 1) + k
      OBVIOUS
    <3>2. Tail(s)[k] = a + (k + 1)
      BY <1>1, <2>3, <3>1
    <3> QED BY <3>1, <3>2
  <2>5. Run(a + 1, b - 1) \in Seq(Nat) /\ Len(Run(a + 1, b - 1)) = b - 1
        /\ \A k \in 1 .. b - 1 : Run(a + 1, b - 1)[k] = (a + 1) + k
    BY <1>3 DEF Run
  <2>6. Tail(s) = Run(a + 1, b - 1)
    <3> DEFINE u == Tail(s)
               w == Run(a + 1, b - 1)
    <3>1. u \in Seq(Nat) /\ w \in Seq(Nat) /\ Len(u) = b - 1 /\ Len(w) = b - 1
      BY <2>3, <2>5
    <3>2. \A k \in 1 .. b - 1 : u[k] = w[k]
      BY <2>4, <2>5
    <3> HIDE DEF u, w
    <3>3. u = w
      BY <3>1, <3>2, SeqEqual
    <3> QED BY <3>3 DEF u, w
  <2> QED BY <1>1, <2>1, <2>2, <2>6
<1> QED BY <1>1, <1>2, <1>3 DEF s

\* A run goes on where it ended.
LEMMA RunJoin ==
    ASSUME NEW a \in Nat, NEW b \in Nat, NEW c \in Nat
    PROVE  Run(a, b) \o Run(a + b, c) = Run(a, b + c)
<1> DEFINE s == Run(a, b)
           u == Run(a + b, c)
           w == Run(a, b + c)
<1>1. /\ s \in Seq(Nat) /\ Len(s) = b /\ \A k \in 1 .. b : s[k] = a + k
      /\ u \in Seq(Nat) /\ Len(u) = c /\ \A k \in 1 .. c : u[k] = (a + b) + k
      /\ w \in Seq(Nat) /\ Len(w) = b + c /\ \A k \in 1 .. b + c : w[k] = a + k
  <2>1. a + b \in Nat /\ b + c \in Nat
    OBVIOUS
  <2>2. s \in Seq(Nat) /\ Len(s) = b /\ \A k \in 1 .. b : s[k] = a + k
    BY RunSeq
  <2>3. u \in Seq(Nat) /\ Len(u) = c /\ \A k \in 1 .. c : u[k] = (a + b) + k
    BY <2>1, RunSeq
  <2>4. w \in Seq(Nat) /\ Len(w) = b + c /\ \A k \in 1 .. b + c : w[k] = a + k
    BY <2>1, RunSeq
  <2> QED BY <2>2, <2>3, <2>4
<1> HIDE DEF s, u, w
<1>2. /\ s \o u \in Seq(Nat) /\ Len(s \o u) = b + c
      /\ \A k \in 1 .. b + c : (s \o u)[k] = IF k <= b THEN s[k] ELSE u[k - b]
  <2>1. /\ s \o u \in Seq(Nat) /\ Len(s \o u) = Len(s) + Len(u)
        /\ \A k \in 1 .. Len(s) + Len(u) :
             (s \o u)[k] = IF k <= Len(s) THEN s[k] ELSE u[k - Len(s)]
    BY <1>1, ConcatProperties, Zenon
  <2>2. Len(s) = b /\ Len(u) = c
    BY <1>1
  <2> QED BY <2>1, <2>2
<1>3. \A k \in 1 .. b + c : (s \o u)[k] = w[k]
  <2> SUFFICES ASSUME NEW k \in 1 .. b + c PROVE (s \o u)[k] = w[k]
    OBVIOUS
  <2>1. CASE k <= b
    <3>1. k \in 1 .. b
      BY <2>1
    <3> QED BY <1>1, <1>2, <2>1, <3>1
  <2>2. CASE ~(k <= b)
    <3>1. k - b \in 1 .. c /\ (a + b) + (k - b) = a + k
      BY <2>2
    <3>2. u[k - b] = (a + b) + (k - b)
      BY <1>1, <3>1
    <3>3. w[k] = a + k /\ (s \o u)[k] = u[k - b]
      BY <1>1, <1>2, <2>2
    <3> QED BY <3>1, <3>2, <3>3
  <2> QED BY <2>1, <2>2
<1>4. s \o u = w
  BY <1>1, <1>2, <1>3, SeqEqual
<1> QED BY <1>4 DEF s, u, w

\* The first nodes of the lines are those of the definition.
FirstNodes(b, f) == f = [d \in 0 .. b |-> IF d = 0 THEN 1 ELSE 2 * f[d - 1]]

\* The recursion that gives the first node of each line is well-founded.
LEMMA FirstNodesExist ==
    ASSUME NEW n \in Nat
    PROVE  \E f : FirstNodes(n, f)
<1> DEFINE T == {b \in Nat : ~ \E f : FirstNodes(b, f)}
<1> SUFFICES ASSUME T # {} PROVE FALSE
  OBVIOUS
<1>1. PICK b \in T : \A y \in T : b <= y
  BY LeastNumber
<1>2. CASE b = 0
  <2> DEFINE f == [d \in 0 .. 0 |-> 1]
  <2>1. FirstNodes(0, f)
    BY DEF FirstNodes
  <2> QED BY <1>1, <1>2, <2>1
<1>3. CASE b # 0
  <2>1. b \in Nat /\ b - 1 \in Nat /\ b - 1 \notin T
    BY <1>1, <1>3
  <2>2. PICK f : FirstNodes(b - 1, f)
    BY <2>1
  <2> DEFINE h == [d \in 0 .. b |-> IF d < b THEN f[d] ELSE 2 * f[d - 1]]
             value(d) == IF d = 0 THEN 1 ELSE 2 * h[d - 1]
  <2>3. \A d \in 0 .. b - 1 : f[d] = IF d = 0 THEN 1 ELSE 2 * f[d - 1]
    BY <2>2 DEF FirstNodes
  <2>4. ASSUME NEW d \in 0 .. b PROVE h[d] = value(d)
    <3>1. d = 0 \/ (d - 1 \in 0 .. b /\ d - 1 < b)
      BY <2>1
    <3>2. d # 0 => h[d - 1] = f[d - 1]
      BY <3>1
    <3>3. CASE d < b
      <4>1. d \in 0 .. b - 1 /\ h[d] = f[d]
        BY <2>1, <3>3
      <4> QED BY <2>3, <3>2, <4>1
    <3>4. CASE d = b
      <4>1. h[d] = 2 * f[d - 1]
        BY <2>1, <3>4
      <4> QED BY <1>3, <3>2, <3>4, <4>1
    <3> QED BY <2>1, <3>3, <3>4
  <2>5. h = [d \in 0 .. b |-> value(d)]
    <3>1. h = [d \in 0 .. b |-> h[d]]
      OBVIOUS
    <3> HIDE DEF h
    <3> QED BY <2>4, <3>1
  <2> HIDE DEF h
  <2>6. FirstNodes(b, h)
    BY <2>5 DEF FirstNodes
  <2> QED BY <1>1, <2>6
<1> QED BY <1>2, <1>3

\* Each line starts at twice the number at which the one above starts.
LEMMA FirstNodeStep ==
    ASSUME NEW d \in 0 .. MaxNodes
    PROVE  Apps!FirstNode[d] = IF d = 0 THEN 1 ELSE 2 * Apps!FirstNode[d - 1]
<1> DEFINE Eq(f) == f = [e \in 0 .. MaxNodes |-> IF e = 0 THEN 1 ELSE 2 * f[e - 1]]
<1>1. MaxNodes \in Nat
  BY AppInputs DEF Apps!AppsAssumption
<1>2. \E f : Eq(f)
  BY <1>1, FirstNodesExist DEF FirstNodes
<1>3. Apps!FirstNode = CHOOSE f : Eq(f)
  BY DEF Apps!FirstNode
<1>4. Eq(Apps!FirstNode)
  <2> HIDE DEF Eq
  <2> QED BY <1>2, <1>3
<1> DEFINE g == Apps!FirstNode
<1>5. Eq(g)
  BY <1>4
<1> HIDE DEF g
<1>6. g[d] = IF d = 0 THEN 1 ELSE 2 * g[d - 1]
  BY <1>5
<1> QED BY <1>6 DEF g

-----------------------------------------------------------------------------
\* Of n nodes, those that are or were in the queue, after m of them were printed.
Known(m, n) == IF 2 * m + 1 <= n THEN 2 * m + 1 ELSE n

\* The last node of a line that begins with p.
LastNode(p, n) == IF 2 * p - 1 <= n THEN 2 * p - 1 ELSE n

\* How many nodes bfs_order goes through: the root is one of them whatever n is.
Size == IF app_n >= 1 THEN app_n ELSE 1

\* The nodes were printed in order, each on its line, and those known wait.
TreeInv ==
    /\ app_app \in {"brackets", "bfs"} /\ app_n \in -MaxNodes .. MaxNodes
    /\ app_order \in Seq(Nat) /\ app_levels \in Seq(Nat) /\ Len(app_levels) = Len(app_order)
    /\ \A k \in 1 .. Len(app_order) : app_order[k] = k /\ Apps!OnLevel(k, app_levels[k])
    /\ app_app = "bfs" =>
         /\ Len(app_order) <= Size
         /\ app_queue = Run(Len(app_order), Known(Len(app_order), Size) - Len(app_order))
         /\ app_level \in 0 .. MaxNodes /\ app_printed \in Nat
         /\ Apps!FirstNode[app_level] \in Nat
         /\ app_level < Apps!FirstNode[app_level] /\ Apps!FirstNode[app_level] <= Size
         /\ Len(app_order) = Apps!FirstNode[app_level] - 1 + app_printed
         /\ app_in_level = LastNode(Apps!FirstNode[app_level], Size) - Apps!FirstNode[app_level] + 1
         /\ app_printed <= app_in_level
         /\ app_printed = app_in_level => Len(app_order) = Size

\* Before the first iteration the root waits.
LEMMA TreeInit ==
    ASSUME Apps!Init
    PROVE  TreeInv
<1>1. MaxNodes \in Nat /\ MaxNodes >= 1
  BY AppInputs DEF Apps!AppsAssumption
<1>2. /\ app_app \in {"brackets", "bfs"} /\ app_n \in IF app_app = "bfs" THEN -MaxNodes .. MaxNodes ELSE {0}
      /\ app_queue = <<1>> /\ app_order = <<>> /\ app_levels = <<>>
      /\ app_level = 0 /\ app_in_level = 1 /\ app_printed = 0
  BY DEF Apps!Init
<1>3. Apps!FirstNode[0] = 1
  BY <1>1, FirstNodeStep
<1>4. /\ Len(app_order) = 0 /\ Len(app_levels) = 0 /\ app_order \in Seq(Nat)
      /\ app_levels \in Seq(Nat)
  BY <1>2
<1>5. app_n \in -MaxNodes .. MaxNodes
  BY <1>1, <1>2
<1>6. CASE app_app = "bfs"
  <2>1. Size \in Nat /\ Size >= 1
    BY <1>1, <1>5 DEF Size
  <2>2. Known(0, Size) = 1 /\ LastNode(1, Size) = 1
    BY <2>1 DEF Known, LastNode
  <2>3. Run(0, 1) = <<1>>
    BY DEF Run
  <2>4. app_queue = Run(Len(app_order), Known(Len(app_order), Size) - Len(app_order))
    BY <1>2, <1>4, <2>2, <2>3
  <2> QED BY <1>1, <1>2, <1>3, <1>4, <1>5, <2>1, <2>2, <2>4 DEF TreeInv
<1>7. CASE app_app # "bfs"
  BY <1>2, <1>4, <1>5, <1>7 DEF TreeInv
<1> QED BY <1>6, <1>7

\* A node's children are the nodes after the last one known.
LEMMA ChildrenRun ==
    ASSUME NEW m \in Nat, app_n \in Int, m < Size
    PROVE  /\ Apps!children(m + 1) = Run(Known(m, Size), Known(m + 1, Size) - Known(m, Size))
           /\ Known(m, Size) \in Nat /\ Known(m + 1, Size) \in Nat /\ Known(m + 1, Size) >= Known(m, Size) /\ Known(m, Size) >= m + 1
<1> DEFINE n == Size
           two == 2 * (m + 1)
<1>0. /\ two = 2 * m + 2 /\ two + 1 = 2 * m + 3 /\ 2 * (m + 1) + 1 = 2 * m + 3
      /\ two \in Nat /\ two >= 2 /\ Size \in Nat
  BY DEF Size
<1>1. Apps!children(m + 1) = (IF two <= n THEN <<two>> ELSE <<>>) \o (IF two + 1 <= n THEN <<two + 1>> ELSE <<>>)
  <2>1. (two <= app_n <=> two <= n) /\ (two + 1 <= app_n <=> two + 1 <= n)
    BY <1>0 DEF Size
  <2> QED BY <2>1 DEF Apps!children
<1>2. /\ Known(m, Size) = IF 2 * m + 1 <= n THEN 2 * m + 1 ELSE n
      /\ Known(m + 1, Size) = IF 2 * m + 3 <= n THEN 2 * m + 3 ELSE n
  BY <1>0 DEF Known
<1>3. /\ Known(m, Size) \in Nat /\ Known(m + 1, Size) \in Nat
      /\ Known(m + 1, Size) >= Known(m, Size) /\ Known(m, Size) >= m + 1
  BY <1>0, <1>2
<1> HIDE DEF n, two
<1>4. n \in Nat
  BY <1>0 DEF n
<1>5. CASE two + 1 <= n
  <2>1. /\ Known(m, Size) = 2 * m + 1 /\ Known(m + 1, Size) - Known(m, Size) = 2
        /\ two <= n
    BY <1>0, <1>2, <1>4, <1>5
  <2>2. Apps!children(m + 1) = <<two, two + 1>>
    BY <1>1, <1>5, <2>1
  <2>3. Run(Known(m, Size), 2) = <<two, two + 1>>
    <3> DEFINE w == Run(Known(m, Size), 2)
    <3>1. w \in Seq(Nat) /\ Len(w) = 2 /\ \A k \in 1 .. 2 : w[k] = Known(m, Size) + k
      BY <1>3, RunSeq
    <3>2. w[1] = two /\ w[2] = two + 1
      BY <1>0, <2>1, <3>1
    <3> HIDE DEF w
    <3>3. w = <<two, two + 1>>
      BY <3>1, <3>2
    <3> QED BY <3>3 DEF w
  <2> QED BY <1>3, <2>1, <2>2, <2>3
<1>6. CASE two <= n /\ ~(two + 1 <= n)
  <2>1. Known(m, Size) = 2 * m + 1 /\ Known(m + 1, Size) - Known(m, Size) = 1
    BY <1>0, <1>2, <1>4, <1>6
  <2>2. Apps!children(m + 1) = <<two>>
    BY <1>1, <1>6, <2>1
  <2>3. Run(Known(m, Size), 1) = <<two>>
    <3> DEFINE w == Run(Known(m, Size), 1)
    <3>1. w \in Seq(Nat) /\ Len(w) = 1 /\ \A k \in 1 .. 1 : w[k] = Known(m, Size) + k
      BY <1>3, RunSeq
    <3>2. w[1] = two
      BY <1>0, <2>1, <3>1
    <3> HIDE DEF w
    <3>3. w = <<two>>
      BY <3>1, <3>2
    <3> QED BY <3>3 DEF w
  <2> QED BY <1>3, <2>1, <2>2, <2>3
<1>7. CASE ~(two <= n)
  <2>1. Known(m + 1, Size) - Known(m, Size) = 0 /\ ~(two + 1 <= n)
    BY <1>0, <1>2, <1>4, <1>7
  <2>2. Apps!children(m + 1) = <<>>
    BY <1>1, <1>7, <2>1
  <2>3. Run(Known(m, Size), 0) = <<>>
    BY <1>3, RunSeq
  <2> QED BY <1>3, <2>1, <2>2, <2>3
<1> QED BY <1>5, <1>6, <1>7

\* A node is printed, and its children are known.
LEMMA TreeStep ==
    ASSUME TreeInv, Apps!bfs_order
    PROVE  TreeInv'
<1> DEFINE m == Len(app_order)
           p == Apps!FirstNode[app_level]
           q == Tail(app_queue) \o Apps!children(Head(app_queue))
<1>1. MaxNodes \in Nat \ {0}
  BY AppInputs DEF Apps!AppsAssumption
<1>2. /\ app_app = "bfs" /\ app_queue # <<>> /\ app_order' = Append(app_order, Head(app_queue))
      /\ app_levels' = Append(app_levels, app_level) /\ app_queue' = q
      /\ IF app_printed + 1 = app_in_level /\ q # <<>>
         THEN app_in_level' = Len(q) /\ app_level' = app_level + 1 /\ app_printed' = 0
         ELSE app_printed' = app_printed + 1 /\ app_in_level' = app_in_level /\ app_level' = app_level
      /\ app_app' = app_app /\ app_n' = app_n
  BY DEF Apps!bfs_order, Apps!next_level
<1>3. /\ app_n \in -MaxNodes .. MaxNodes
      /\ app_order \in Seq(Nat) /\ app_levels \in Seq(Nat) /\ Len(app_levels) = m
      /\ \A k \in 1 .. m : app_order[k] = k /\ Apps!OnLevel(k, app_levels[k])
  BY DEF TreeInv
<1>4. /\ m <= Size
      /\ app_queue = Run(m, Known(m, Size) - m)
      /\ app_level \in 0 .. MaxNodes /\ app_printed \in Nat /\ p \in Nat
      /\ app_level < p /\ p <= Size
      /\ m = p - 1 + app_printed
      /\ app_in_level = LastNode(p, Size) - p + 1
      /\ app_printed <= app_in_level
      /\ app_printed = app_in_level => m = Size
  BY <1>2 DEF TreeInv
<1>5. /\ m \in Nat /\ Size \in 1 .. MaxNodes /\ Size \in Nat /\ app_n \in Int
      /\ Size' = Size
  BY <1>1, <1>2, <1>3, LenProperties DEF Size
<1> HIDE DEF m, p, q
<1>6. Known(m, Size) \in Nat /\ Known(m, Size) >= m /\ Known(m, Size) <= Size
  BY <1>4, <1>5 DEF Known
<1>7. Known(m, Size) - m \in Nat /\ Known(m, Size) - m # 0
  <2>1. Known(m, Size) - m \in Nat
    BY <1>5, <1>6
  <2> QED BY <1>2, <1>4, <1>5, <2>1, RunSeq
<1>8. m < Size
  BY <1>5, <1>6, <1>7
<1>9. /\ Head(app_queue) = m + 1
      /\ Tail(app_queue) = Run(m + 1, Known(m, Size) - m - 1)
  BY <1>4, <1>5, <1>7, RunSeq
<1>10. /\ Apps!children(m + 1) = Run(Known(m, Size), Known(m + 1, Size) - Known(m, Size))
       /\ Known(m + 1, Size) \in Nat /\ Known(m + 1, Size) >= Known(m, Size) /\ Known(m, Size) >= m + 1
  BY <1>5, <1>8, ChildrenRun
<1>11. q = Run(m + 1, Known(m + 1, Size) - (m + 1))
  <2> DEFINE b == Known(m, Size) - m - 1
             c == Known(m + 1, Size) - Known(m, Size)
  <2>1. /\ b \in Nat /\ c \in Nat /\ (m + 1) + b = Known(m, Size)
        /\ b + c = Known(m + 1, Size) - (m + 1) /\ m + 1 \in Nat
    BY <1>5, <1>6, <1>10
  <2>2. q = Run(m + 1, b) \o Run(Known(m, Size), c)
    BY <1>9, <1>10 DEF q
  <2> HIDE DEF b, c
  <2>3. Run(m + 1, b) \o Run((m + 1) + b, c) = Run(m + 1, b + c)
    BY <2>1, RunJoin
  <2> QED BY <2>1, <2>2, <2>3
<1>12. Len(q) = Known(m + 1, Size) - (m + 1) /\ (q = <<>> <=> Known(m + 1, Size) - (m + 1) = 0)
  <2>1. Known(m + 1, Size) - (m + 1) \in Nat /\ m + 1 \in Nat
    BY <1>5, <1>6, <1>10
  <2> QED BY <1>11, <2>1, RunSeq
<1>13. Known(m + 1, Size) = IF 2 * m + 3 <= Size THEN 2 * m + 3 ELSE Size
  BY <1>5 DEF Known
<1>14. LastNode(p, Size) = IF 2 * p - 1 <= Size THEN 2 * p - 1 ELSE Size
  BY DEF LastNode
<1>15. /\ app_order' \in Seq(Nat) /\ Len(app_order') = m + 1 /\ app_order'[m + 1] = m + 1
       /\ \A k \in 1 .. m : app_order'[k] = app_order[k]
  BY <1>2, <1>3, <1>5, <1>9, AppendProperties DEF m
<1>16. /\ app_levels' \in Seq(Nat) /\ Len(app_levels') = m + 1 /\ app_levels'[m + 1] = app_level
       /\ \A k \in 1 .. m : app_levels'[k] = app_levels[k]
  <2>1. app_level \in Nat
    BY <1>1, <1>4
  <2> QED BY <1>2, <1>3, <1>5, <2>1, AppendProperties
<1>17. app_printed < app_in_level /\ app_in_level <= p /\ app_in_level \in Nat
  BY <1>4, <1>5, <1>8, <1>14
<1>18. Apps!OnLevel(m + 1, app_level)
  <2>1. p <= m + 1 /\ m + 1 < 2 * p
    BY <1>4, <1>5, <1>17
  <2> QED BY <1>4, <2>1 DEF Apps!OnLevel, p
<1>19. \A k \in 1 .. m + 1 : app_order'[k] = k /\ Apps!OnLevel(k, app_levels'[k])
  <2> SUFFICES ASSUME NEW k \in 1 .. m + 1 PROVE app_order'[k] = k /\ Apps!OnLevel(k, app_levels'[k])
    OBVIOUS
  <2>1. CASE k = m + 1
    BY <1>15, <1>16, <1>18, <2>1
  <2>2. CASE k \in 1 .. m
    BY <1>3, <1>15, <1>16, <2>2
  <2> QED BY <1>5, <2>1, <2>2
<1>20. /\ app_app' = "bfs" /\ app_n' = app_n /\ Size' = Size /\ Len(app_order') = m + 1
       /\ app_n' \in -MaxNodes .. MaxNodes /\ m + 1 <= Size' /\ Len(app_levels') = m + 1
       /\ app_queue' = Run(Len(app_order'), Known(Len(app_order'), Size') - Len(app_order'))
  BY <1>2, <1>3, <1>4, <1>5, <1>8, <1>11, <1>15, <1>16
<1>21. CASE ~(app_printed + 1 = app_in_level /\ q # <<>>)
  <2>1. /\ app_printed' = app_printed + 1 /\ app_in_level' = app_in_level
        /\ app_level' = app_level
    BY <1>2, <1>21
  <2>2. Apps!FirstNode[app_level'] = p
    BY <2>1 DEF p
  <2>3. /\ m + 1 = p - 1 + app_printed' /\ app_printed' \in Nat /\ app_printed' <= app_in_level'
        /\ app_in_level' = LastNode(p, Size') - p + 1
    BY <1>4, <1>5, <1>17, <1>20, <2>1
  <2>4. app_printed' = app_in_level' => m + 1 = Size'
    <3> SUFFICES ASSUME app_printed' = app_in_level' PROVE m + 1 = Size
      BY <1>20
    <3>1. q = <<>>
      BY <1>21, <2>1
    <3>2. Known(m + 1, Size) = m + 1
      BY <1>5, <1>10, <1>12, <3>1
    <3> QED BY <1>5, <1>13, <3>2
  <2> QED BY <1>4, <1>15, <1>16, <1>19, <1>20, <2>1, <2>2, <2>3, <2>4 DEF TreeInv
<1>22. CASE app_printed + 1 = app_in_level /\ q # <<>>
  <2>1. /\ app_in_level' = Known(m + 1, Size) - (m + 1)
        /\ app_level' = app_level + 1 /\ app_printed' = 0
    BY <1>2, <1>12, <1>22
  <2>2. Known(m + 1, Size) # m + 1
    BY <1>5, <1>12, <1>22
  <2>3. m + 1 = LastNode(p, Size)
    BY <1>4, <1>5, <1>14, <1>22
  <2>4. m + 1 = 2 * p - 1 /\ 2 * p <= Size
    BY <1>4, <1>5, <1>10, <1>13, <1>14, <2>2, <2>3
  <2>5. app_level' \in 0 .. MaxNodes /\ app_level' # 0 /\ app_level' - 1 = app_level
    BY <1>1, <1>4, <1>5, <2>1, <2>4
  <2>6. Apps!FirstNode[app_level'] = 2 * p
    BY <2>5, FirstNodeStep DEF p
  <2>7. LastNode(2 * p, Size) = IF 4 * p - 1 <= Size THEN 4 * p - 1 ELSE Size
    BY <1>4 DEF LastNode
  <2>8. app_in_level' = LastNode(2 * p, Size) - 2 * p + 1
    BY <1>4, <1>5, <1>13, <2>1, <2>4, <2>7
  <2>9. /\ app_level' < 2 * p /\ 2 * p \in Nat /\ m + 1 = 2 * p - 1 + app_printed'
        /\ app_printed' \in Nat
    BY <1>1, <1>4, <2>1, <2>4
  <2>10. app_printed' < app_in_level'
    BY <1>4, <1>5, <2>1, <2>4, <2>7, <2>8
  <2>11. app_printed' <= app_in_level' /\ app_printed' # app_in_level'
    BY <1>4, <1>5, <2>1, <2>7, <2>8, <2>10
  <2> QED BY <1>15, <1>16, <1>19, <1>20, <2>4, <2>5, <2>6, <2>8, <2>9, <2>11
             DEF TreeInv
<1> QED BY <1>21, <1>22

\* Nothing else touches what bfs_order uses.
LEMMA TreeKept ==
    ASSUME TreeInv, UNCHANGED <<app_app, app_n, app_queue, app_order, app_level,
                                app_in_level, app_printed, app_levels>>
    PROVE  TreeInv'
BY DEF TreeInv, Size

\* When the queue is empty everything known was printed.
LEMMA TreeEnds ==
    ASSUME TreeInv
    PROVE  Apps!LevelOrder /\ Apps!AllVisited
<1> DEFINE m == Len(app_order)
<1>1. /\ app_n \in -MaxNodes .. MaxNodes /\ app_order \in Seq(Nat)
      /\ \A k \in 1 .. m : app_order[k] = k /\ Apps!OnLevel(k, app_levels[k])
  BY DEF TreeInv
<1>2. MaxNodes \in Nat
  BY AppInputs DEF Apps!AppsAssumption
<1>3. m \in Nat /\ DOMAIN app_order = 1 .. m /\ Size \in Nat /\ app_n \in Int
  BY <1>1, <1>2, LenProperties DEF Size
<1>4. Apps!LevelOrder
  BY <1>1, <1>3 DEF Apps!LevelOrder
<1>5. ASSUME app_app = "bfs", app_queue = <<>> PROVE m = Size
  <2>1. m <= Size /\ app_queue = Run(m, Known(m, Size) - m)
    BY <1>5 DEF TreeInv
  <2> HIDE DEF m
  <2>2. Known(m, Size) - m \in Nat
    BY <1>3, <2>1 DEF Known
  <2>3. Known(m, Size) - m = 0
    BY <1>3, <1>5, <2>1, <2>2, RunSeq
  <2> QED BY <1>3, <2>1, <2>3 DEF Known
<1>6. Apps!AllVisited
  <2> SUFFICES ASSUME app_app = "bfs", app_queue = <<>>
               PROVE  IF app_n >= 1 THEN m = app_n ELSE m <= 1
    BY DEF Apps!AllVisited
  <2>1. m = Size
    BY <1>5
  <2> HIDE DEF m
  <2>2. CASE app_n >= 1
    BY <2>1, <2>2 DEF Size
  <2>3. CASE ~(app_n >= 1)
    BY <2>1, <2>3 DEF Size
  <2> QED BY <2>2, <2>3
<1> QED BY <1>4, <1>6

-----------------------------------------------------------------------------
\* Every step of either application keeps both invariants.
LEMMA AppsStep ==
    ASSUME BracketInv, TreeInv, [Apps!Next]_Apps!vars
    PROVE  BracketInv' /\ TreeInv'
<1>1. CASE Apps!brackets_balanced
  <2>1. UNCHANGED <<app_app, app_n, app_queue, app_order, app_level, app_in_level,
                    app_printed, app_levels>>
    BY <1>1 DEF Apps!brackets_balanced, Apps!scan, Apps!finish, Apps!qvars
  <2> QED BY <1>1, <2>1, BracketStep, TreeKept
<1>2. CASE Apps!bfs_order
  <2>1. UNCHANGED <<app_s, app_i, app_stk, app_result>>
    BY <1>2 DEF Apps!bfs_order, Apps!bvars
  <2> QED BY <1>2, <2>1, BracketKept, TreeStep
<1>3. CASE UNCHANGED Apps!vars
  BY <1>3, BracketKept, TreeKept DEF Apps!vars
<1> QED BY <1>1, <1>2, <1>3 DEF Apps!Next

(***************************************************************************)
(* Exercise 16, for strings of any length, a stack of any size and any n:  *)
(* brackets_balanced says yes for exactly the balanced strings that fit    *)
(* its stack and never writes past its end; bfs_order prints all n nodes,  *)
(* in order, each on its level's line, and for n below 1 at most the root. *)
(***************************************************************************)
THEOREM StackApplications == MCSpec => []AppsCorrect
<1>1. MCInit => BracketInv /\ TreeInv
  BY BracketInit, TreeInit DEF MCInit
<1>2. BracketInv /\ TreeInv /\ [MCNext]_mcVars => (BracketInv /\ TreeInv)'
  <2> SUFFICES ASSUME BracketInv, TreeInv, [MCNext]_mcVars PROVE BracketInv' /\ TreeInv'
    OBVIOUS
  <2>1. Apps!Next \/ UNCHANGED appVars
    BY DEF MCNext, mcVars
  <2>2. CASE UNCHANGED appVars
    BY <2>2, BracketKept, TreeKept DEF appVars
  <2> QED BY <2>1, <2>2, AppsStep
<1>3. BracketInv /\ TreeInv => AppsCorrect
  <2>1. BracketInv => Apps!StackInBounds /\ Apps!BracketsCorrect
    BY DEF BracketInv, Apps!StackInBounds
  <2> QED BY <2>1, TreeEnds DEF AppsCorrect
<1> QED BY <1>1, <1>2, <1>3, PTL DEF MCSpec

-----------------------------------------------------------------------------
(***************************************************************************)
(* Exercises 22 and 32.  For any strings passed, any number of them and    *)
(* any size of log_msg's buffer: every va_list is ended exactly once and   *)
(* read once, what is written is what was measured unless a vsnprintf      *)
(* failed, and stats' variance is that of its arguments.  For texts of any *)
(* length: the two search loops find every match once, and every compiled  *)
(* pattern is freed.                                                       *)
(***************************************************************************)
THEOREM TextExercises == MCSpec => []TextRight
<1>1. MCInit => VarInv /\ ReInv
  BY VarInit, ReInit DEF MCInit
<1>2. VarInv /\ ReInv /\ [MCNext]_mcVars => (VarInv /\ ReInv)'
  <2> SUFFICES ASSUME VarInv, ReInv, [MCNext]_mcVars PROVE VarInv' /\ ReInv'
    OBVIOUS
  <2>1. VarInv'
    <3>1. Var!Next \/ UNCHANGED varVars
      BY DEF MCNext, mcVars
    <3> QED BY <3>1, VarStep, VarKept
  <2>2. ReInv'
    <3>1. Re!Next \/ UNCHANGED reVars
      BY DEF MCNext, mcVars
    <3>2. CASE UNCHANGED reVars
      BY <3>2, ReKept DEF reVars
    <3> QED BY <3>1, <3>2, ReStep
  <2> QED BY <2>1, <2>2
<1>3. VarInv /\ ReInv => TextRight
  BY VarEnds, ReEnds DEF TextRight
<1> QED BY <1>1, <1>2, <1>3, PTL DEF MCSpec
=============================================================================
