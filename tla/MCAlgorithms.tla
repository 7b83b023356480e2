------------------------------ MODULE MCAlgorithms ------------------------------
(***************************************************************************)
(* The instance of the sequential exercises (13, 16, 17, 20, 22, 32, 34)   *)
(* that TLC checks: one of the five sorts on every short array, the two    *)
(* applications of stack and queue, the error paths with every library     *)
(* call able to fail, the connection state machine with every sequence of  *)
(* events, every word of 8 bits, every short argument list or every short  *)
(* text. An int has 8 bits and a long 16, and the numerals lie around each *)
(* bound.                                                                  *)
(***************************************************************************)
EXTENDS Integers, ConnState

CONSTANTS Algs, Keys, MaxLen,     \* of the sorts
          Numerals, None, NULL,   \* of the error paths
          INT_MAX, LONG_MAX,
          CAPACITY, MaxWord, MaxNodes,   \* of the stack's and the queue's applications
          ArgStrings, MaxArgs, LOGSZ,       \* of the variadic functions
          MaxText                        \* of the regex loops

MCNumerals == {-40000, -32769, -32768, -129, -128, -1, 0, 1, 42, 100, 101, 127,
               128, 256, 300, 32767, 32768, 40000}

\* An empty string, and texts below, at and above log_msg's buffer of 4.
MCStrings == {<<>>, <<1>>, <<2, 1>>}

VARIABLES demo, app_app, app_s, app_i, app_stk, app_result, app_n, app_queue,
          app_order, app_level, app_in_level, app_printed, app_levels,
          err_pc, err_errno, err_str, err_rc, err_out, err_file, err_buf,
          err_path, err_why, err_g_err_ctx, err_frame, err_call, err_caught,
          err_wild, sort_alg, sort_n, sort_arr0, sort_arr, sort_pc, sort_i, sort_j,
          sort_k, sort_flag, sort_held, sort_tmp, sort_calls, bit_flags, bit_on,
          var_fn, var_args, var_todo, var_ap, var_total, var_variance, var_room, var_out, var_failed, var_bad,
          re_todo, re_re, re_execs, re_text, re_cursor, re_notbol, re_found,
          re_status

Apps == INSTANCE StackApps WITH
    MaxLen <- MaxWord, MaxN <- MaxNodes, app <- app_app, s <- app_s,
    i <- app_i, stk <- app_stk, result <- app_result, n <- app_n,
    queue <- app_queue, order <- app_order, level <- app_level,
    in_level <- app_in_level, printed <- app_printed, levels <- app_levels

ASSUME AppInputs == Apps!AppsAssumption

Err == INSTANCE ErrorHandling WITH
    pc <- err_pc, errno <- err_errno, str <- err_str,
    rc <- err_rc, out <- err_out, file <- err_file, buf <- err_buf,
    path <- err_path, why <- err_why, g_err_ctx <- err_g_err_ctx,
    frame <- err_frame, call <- err_call, caught <- err_caught,
    wild <- err_wild

\* The widths are ones a compiler can choose.
ASSUME ErrorWidths == Err!ErrorAssumption

Sort == INSTANCE Sorting WITH
    alg <- sort_alg, n <- sort_n, arr0 <- sort_arr0, arr <- sort_arr,
    pc <- sort_pc, i <- sort_i, j <- sort_j, k <- sort_k, flag <- sort_flag,
    held <- sort_held, tmp <- sort_tmp, calls <- sort_calls

\* The keys and lengths given in the configuration are ones a caller can have.
ASSUME SortInputs == Sort!SortAssumption

Bit == INSTANCE Bits WITH BITS <- 8, flags <- bit_flags, on <- bit_on

Var == INSTANCE Variadic WITH
    Strings <- ArgStrings, fn <- var_fn, args <- var_args, todo <- var_todo, ap <- var_ap,
    total <- var_total, variance <- var_variance, room <- var_room, out <- var_out,
    failed <- var_failed, bad <- var_bad

ASSUME VariadicInputs == Var!VariadicAssumption

Re == INSTANCE Regex WITH
    todo <- re_todo, re <- re_re, execs <- re_execs,
    text <- re_text, cursor <- re_cursor, notbol <- re_notbol,
    found <- re_found, status <- re_status

ASSUME RegexInputs == Re!RegexAssumption

appVars == <<app_app, app_s, app_i, app_stk, app_result, app_n, app_queue,
            app_order, app_level, app_in_level, app_printed, app_levels>>
errVars == <<err_pc, err_errno, err_str, err_rc, err_out, err_file, err_buf,
            err_path, err_why, err_g_err_ctx, err_frame, err_call,
            err_caught, err_wild>>
sortVars == <<sort_alg, sort_n, sort_arr0, sort_arr, sort_pc, sort_i, sort_j,
             sort_k, sort_flag, sort_held, sort_tmp, sort_calls>>
bitVars == <<bit_flags, bit_on>>
varVars == <<var_fn, var_args, var_todo, var_ap, var_total, var_variance,
            var_room, var_out, var_failed, var_bad>>
reVars == <<re_todo, re_re, re_execs, re_text, re_cursor, re_notbol, re_found,
           re_status>>
mcVars == <<demo, vars, appVars, errVars, sortVars, bitVars, varVars, reVars>>

MCInit ==
    /\ demo \in {"sort", "apps", "errors", "conn", "bits", "variadic", "regex"}
    /\ sort_alg \in IF demo = "sort" THEN Algs ELSE {"bubble"}
    /\ sort_n \in IF demo = "sort" THEN 0 .. MaxLen ELSE {0}
    /\ app_app \in IF demo = "apps" THEN {"brackets", "bfs"} ELSE {"bfs"}
    /\ app_n \in IF app_app = "brackets" THEN {0}
                 ELSE IF demo = "apps" THEN -MaxNodes .. MaxNodes ELSE {1}
    /\ var_fn \in IF demo = "variadic" THEN DOMAIN Var!Program ELSE {"sum"}
    /\ var_args \in IF demo = "variadic" THEN Var!Passed(var_fn) ELSE {<<>>}
    /\ Init /\ Sort!Init /\ Apps!Init /\ Err!Init /\ Bit!Init /\ Var!Init /\ Re!Init

MCNext ==
    \/ demo = "sort" /\ Sort!Next
       /\ UNCHANGED <<demo, vars, appVars, errVars, bitVars, varVars, reVars>>
    \/ demo = "apps" /\ Apps!Next
       /\ UNCHANGED <<demo, vars, errVars, sortVars, bitVars, varVars, reVars>>
    \/ demo = "errors" /\ Err!Next
       /\ UNCHANGED <<demo, vars, appVars, sortVars, bitVars, varVars, reVars>>
    \/ demo = "conn" /\ Next
       /\ UNCHANGED <<demo, sortVars, appVars, errVars, bitVars, varVars, reVars>>
    \/ demo = "bits" /\ Bit!Next
       /\ UNCHANGED <<demo, vars, appVars, errVars, sortVars, varVars, reVars>>
    \/ demo = "variadic" /\ Var!Next
       /\ UNCHANGED <<demo, vars, appVars, errVars, sortVars, bitVars, reVars>>
    \/ demo = "regex" /\ Re!Next
       /\ UNCHANGED <<demo, vars, appVars, errVars, sortVars, bitVars, varVars>>

\* A sort is not interrupted.
MCSpec == MCInit /\ [][MCNext]_mcVars /\ WF_sortVars(demo = "sort" /\ Sort!Next)

-----------------------------------------------------------------------------
(***************************************************************************)
(* Every sort leaves an ordered permutation of its input, the three that   *)
(* claim it are stable, and quicksort's unguarded scans never leave their  *)
(* partition.                                                              *)
(***************************************************************************)
SortsCorrectly == Sort!Sorted /\ Sort!Stable /\ Sort!ScansInBounds

(***************************************************************************)
(* brackets_balanced accepts exactly the balanced strings that fit its     *)
(* stack, and bfs_order prints every node, in order, on its level's line.  *)
(***************************************************************************)
AppsCorrect ==
    /\ Apps!BracketsCorrect /\ Apps!StackInBounds
    /\ Apps!LevelOrder /\ Apps!AllVisited

(***************************************************************************)
(* Whichever library call fails, process_file releases what it holds and   *)
(* says so; a longjmp lands in a live frame with the right code;           *)
(* parse_percent accepts exactly the percentages from 0 to 100 and         *)
(* parse_int, of what an int holds, delivers the number written; a string  *)
(* either rejects leaves the out-parameter alone.                          *)
(***************************************************************************)
ErrorPathsClean == Err!ErrorPathsClean


(***************************************************************************)
(* The variadic functions end every list they start, on the failing paths  *)
(* too, never read one twice, and write what they measured unless          *)
(* vsnprintf failed; the regex loops find each match of a text once and    *)
(* whole, and every pattern that was compiled is freed.                    *)
(***************************************************************************)
TextRight ==
    /\ demo = "variadic" => Var!ListsPaired /\ Var!BufferExact /\ Var!SecondPassRight
    /\ demo = "regex" => Re!AllFound /\ Re!Freed

\* Every sort finishes on every input.
Finishes == demo = "sort" ~> sort_pc = "done"
=============================================================================
