---------------------------- MODULE ErrorHandling ----------------------------
(***************************************************************************)
(* Exercise 20: errors reported through return values, errno, goto cleanup *)
(* and longjmp.  Every library call may fail.  A string handed to strtol   *)
(* is the numeral it starts with (None: there is none) and what follows    *)
(* it.  Integers keep their width: an int ends at INT_MAX, a long at       *)
(* LONG_MAX, and each begins one below the opposite.                       *)
(***************************************************************************)
EXTENDS Integers, Sequences

CONSTANTS Numerals, None, NULL, INT_MAX, LONG_MAX

\* An int holds every percentage, and a long is no shorter.
ErrorAssumption ==
    /\ Numerals \subseteq Int /\ None \notin Int
    /\ INT_MAX \in Nat /\ LONG_MAX \in Nat /\ 100 <= INT_MAX /\ INT_MAX <= LONG_MAX

VARIABLES pc, errno,
          str,              \* the argument of the parsers, NULL among them
          rc, out,          \* a call's result and its out-parameter
          file, buf,        \* process_file's stream and buffer: held or not
          path,             \* which file it works on
          why,              \* the error that made process_file fail
          g_err_ctx,        \* the frame setjmp saved
          frame,            \* the section that is running
          call,             \* the next risky call of that section
          caught,           \* the error setjmp returned
          wild              \* a longjmp to a frame that is gone

parsing == <<str, rc, out>>
cleanup == <<file, buf, path, why>>
jumping == <<g_err_ctx, frame, call, caught, wild>>
vars == <<pc, errno, parsing, cleanup, jumping>>

Strings == {NULL} \cup [num : Numerals \cup {None}, rest : {"", "%", "x", "%x"}]
Untouched == None

Init ==
    /\ pc = "parse_int" /\ errno = "0"
    /\ str = NULL /\ rc = 0 /\ out = Untouched
    /\ file = FALSE /\ buf = FALSE /\ path = "tmp" /\ why = "0"
    /\ g_err_ctx = "none" /\ frame = "none" /\ call = 1 /\ caught = 0 /\ wild = FALSE

-----------------------------------------------------------------------------
LONG_MIN == -LONG_MAX - 1
INT_MIN == -INT_MAX - 1

\* (int)val keeps the low bits.
int(val) == ((val - INT_MIN) % (INT_MAX - INT_MIN + 1)) + INT_MIN

strtol(s) ==
    IF s.num = None THEN [val |-> 0, erange |-> FALSE]
    ELSE IF s.num > LONG_MAX THEN [val |-> LONG_MAX, erange |-> TRUE]
    ELSE IF s.num < LONG_MIN THEN [val |-> LONG_MIN, erange |-> TRUE]
    ELSE [val |-> s.num, erange |-> FALSE]

Empty(s) == s # NULL /\ s.num = None /\ s.rest = ""

strtol_failed(s) == strtol(s).erange

parse_int ==
    /\ pc = "parse_int" /\ pc' = "process_file"
    /\ \E s \in Strings :
        /\ str' = s
        /\ \/ /\ (s = NULL \/ Empty(s))
              /\ rc' = -1 /\ errno' = "EINVAL" /\ out' = Untouched
           \/ /\ s # NULL /\ ~Empty(s)
              /\ \/ /\ strtol_failed(s)
                    /\ rc' = -1 /\ errno' = "ERANGE" /\ out' = Untouched
                 \/ /\ ~strtol_failed(s)
                    /\ s.num = None \/ s.rest # ""     \* *end is not '\0'
                    /\ rc' = -1 /\ errno' = "EINVAL" /\ out' = Untouched
                 \/ /\ ~strtol_failed(s) /\ s.num # None /\ s.rest = ""
                    /\ rc' = 0 /\ errno' = "0" /\ out' = int(strtol(s).val)
    /\ UNCHANGED <<cleanup, jumping>>

out_of_range(val) == val < 0 \/ val > 100

\* An ErrCode; errno is set to 0 and by strtol only.
parse_percent ==
    /\ pc = "parse_percent" /\ pc' = "done"
    /\ \E s \in Strings :
        /\ str' = s
        /\ IF s = NULL
           THEN rc' = "ERR_NULL_ARG" /\ out' = Untouched /\ UNCHANGED errno
           ELSE /\ errno' = IF strtol_failed(s) THEN "ERANGE" ELSE "0"
                /\ \/ /\ strtol_failed(s) \/ s.num = None \/ s.rest # "%"
                      /\ rc' = "ERR_PARSE" /\ out' = Untouched
                   \/ /\ ~(strtol_failed(s) \/ s.num = None \/ s.rest # "%")
                      /\ IF out_of_range(strtol(s).val)
                         THEN rc' = "ERR_RANGE" /\ out' = Untouched
                         ELSE rc' = "OK" /\ out' = int(strtol(s).val)
    /\ UNCHANGED <<cleanup, jumping>>

-----------------------------------------------------------------------------
\* goto cleanup with errno set to e
fail(e) == pc' = "cleanup" /\ errno' = e /\ why' = e

process_file ==
    /\ \/ /\ pc = "process_file"
          /\ rc' = -1
          /\ \/ fail("ENOENT") /\ UNCHANGED file
             \/ path = "tmp" /\ file' = TRUE /\ pc' = "malloc" /\ UNCHANGED <<errno, why>>
          /\ UNCHANGED buf
       \/ /\ pc = "malloc"
          /\ \/ fail("ENOMEM") /\ UNCHANGED buf
             \/ buf' = TRUE /\ pc' = "fgets" /\ UNCHANGED <<errno, why>>
          /\ UNCHANGED <<file, rc>>
       \/ /\ pc = "fgets"
          /\ \/ fail("EIO") /\ UNCHANGED rc
             \/ rc' = 0 /\ pc' = "cleanup" /\ UNCHANGED <<errno, why>>
          /\ UNCHANGED <<file, buf>>
    /\ UNCHANGED <<str, out, path, jumping>>

\* Wrong: the stream is closed on success only.
release_file_ok == file' = (file /\ rc # 0)
release_file == file' = FALSE

\* free(buf), fclose(in), which may change errno, and the return.
cleanup_block ==
    /\ pc = "cleanup" /\ pc' = "returned"
    /\ buf' = FALSE
    /\ release_file
    /\ errno' \in IF file THEN {errno, "other"} ELSE {errno}
    /\ UNCHANGED <<str, rc, out, path, why, jumping>>

\* The caller prints strerror(errno), tries the missing file, goes on.
section_goto_cleanup ==
    /\ pc = "returned"
    /\ why' = "0"
    /\ \/ path = "tmp" /\ path' = "missing" /\ pc' = "process_file"
       \/ path = "missing" /\ path' = "tmp" /\ pc' = "setjmp"
    /\ UNCHANGED <<errno, parsing, file, buf, jumping>>

-----------------------------------------------------------------------------
ERR_DIV_ZERO == 1
ERR_NEG_SQRT == 2

\* The risky calls of a section: what each would longjmp with, 0 for nothing.
RiskyCalls == [setjmp     |-> << <<10, 2>>, <<144>>, <<7, 0>> >>,
               setjmp_neg |-> << <<25>>, <<-4>> >>]

risky(args) ==
    IF Len(args) = 2 THEN IF args[2] = 0 THEN ERR_DIV_ZERO ELSE 0
                     ELSE IF args[1] < 0 THEN ERR_NEG_SQRT ELSE 0

save_context(section) == g_err_ctx' = section

setjmp(section) ==
    /\ pc = section /\ pc' = "risky"
    /\ save_context(section)
    /\ frame' = section /\ call' = 1 /\ caught' = 0
    /\ UNCHANGED <<errno, parsing, cleanup, wild>>

AfterFrame == IF frame = "setjmp" THEN "setjmp_neg" ELSE "parse_percent"

\* One risky call: it returns, or it jumps to the frame g_err_ctx names,
\* which prints what it caught and returns.
risky_call ==
    /\ pc = "risky"
    /\ LET code == risky(RiskyCalls[frame][call])
       IN \/ /\ code = 0
             /\ IF call < Len(RiskyCalls[frame])
                THEN call' = call + 1 /\ UNCHANGED <<pc, frame>>
                ELSE pc' = AfterFrame /\ frame' = "none" /\ UNCHANGED call
             /\ UNCHANGED <<caught, wild>>
          \/ /\ code # 0
             /\ wild' = (g_err_ctx # frame)
             /\ caught' = code
             /\ pc' = AfterFrame /\ frame' = "none"
             /\ UNCHANGED call
    /\ UNCHANGED <<errno, parsing, cleanup, g_err_ctx>>

-----------------------------------------------------------------------------
Next ==
    \/ parse_int
    \/ process_file \/ cleanup_block \/ section_goto_cleanup
    \/ setjmp("setjmp") \/ setjmp("setjmp_neg") \/ risky_call
    \/ parse_percent
    \/ pc = "done" /\ UNCHANGED vars

Spec == Init /\ [][Next]_vars

-----------------------------------------------------------------------------
(***************************************************************************)
(* parse_int accepts nothing but one numeral inside the range of long; it  *)
(* accepts every numeral without a sign that an int holds; a number an int *)
(* holds is delivered as it was written; and a rejected string leaves a    *)
(* fresh errno and the out-parameter alone.  What it delivers for numerals *)
(* between the ranges of int and long is the business of ParseIntFaithful. *)
(***************************************************************************)
ParseIntSound ==
    pc = "process_file" /\ path = "tmp" =>
        LET numeral == str # NULL /\ str.num # None /\ str.rest = ""
        IN /\ rc = 0 => numeral /\ str.num \in LONG_MIN .. LONG_MAX
           /\ numeral /\ str.num \in 0 .. INT_MAX => rc = 0
           /\ rc = 0 /\ str.num \in INT_MIN .. INT_MAX => out = str.num
           /\ rc = -1 => errno # "0" /\ out = Untouched

(***************************************************************************)
(* parse_percent: OK for a numeral from 0 to 100 followed by % alone, with *)
(* that number; out of range only for well-formed percentages.             *)
(***************************************************************************)
ParsePercentExact ==
    pc = "done" =>
        LET wellformed == str # NULL /\ str.num # None /\ str.rest = "%"
                          /\ str.num \in LONG_MIN .. LONG_MAX
        IN /\ rc = "OK" <=> (wellformed /\ str.num \in 0 .. 100)
           /\ rc = "OK" => out = str.num
           /\ rc = "ERR_RANGE" <=> (wellformed /\ str.num \notin 0 .. 100)

(***************************************************************************)
(* goto cleanup: whichever step failed, process_file returns holding       *)
(* neither the buffer nor the stream, and reports failure exactly then.    *)
(***************************************************************************)
CleanupComplete ==
    pc = "returned" => ~file /\ ~buf /\ (rc = 0 <=> why = "0")

\* A longjmp never targets a frame that has returned.
ContextAlive == ~wild

\* What setjmp returns tells the handler which call failed.
CaughtMatches ==
    /\ pc = "setjmp_neg" => caught = ERR_DIV_ZERO
    /\ pc = "parse_percent" => caught = ERR_NEG_SQRT

(***************************************************************************)
(* Whichever library call fails, process_file releases what it holds and   *)
(* says so; a longjmp lands in a live frame with the right code;           *)
(* parse_percent accepts exactly the percentages from 0 to 100 and         *)
(* parse_int, of what an int holds, delivers the number written; a string  *)
(* either rejects leaves the out-parameter alone.                          *)
(***************************************************************************)
ErrorPathsClean ==
    CleanupComplete /\ ContextAlive /\ CaughtMatches /\ ParseIntSound /\ ParsePercentExact

(***************************************************************************)
(* parse_int's comments: 0 is success, and overflow or underflow returns   *)
(* -1; so a success delivers the number that was written.                  *)
(***************************************************************************)
ParseIntFaithful == pc = "process_file" /\ path = "tmp" /\ rc = 0 => out = str.num
=============================================================================
