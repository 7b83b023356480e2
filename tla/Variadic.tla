------------------------------- MODULE Variadic -------------------------------
(***************************************************************************)
(* Exercise 22: functions that walk their variable arguments, some of them *)
(* twice.  A function is the sequence of its va_list calls and of what it  *)
(* does with the arguments; a list is off or stands before one of them.    *)
(* An argument is a short string, or the number that is its length; what a *)
(* format produces is its arguments one after the other.                   *)
(***************************************************************************)
EXTENDS Integers, Sequences, SequencesExt, FiniteSetsExt

CONSTANTS Strings,    \* the strings that are passed
          MaxArgs,
          LOGSZ       \* log_msg's buffer (512)

\* Characters are natural numbers, so that no string is Null.
VariadicAssumption == Strings \subseteq Seq(Nat) /\ MaxArgs \in Nat /\ LOGSZ \in Nat

Lists == {"ap", "ap2"}
Off == -1
Null == <<-1>>        \* no string; ends the arguments of a sentinel function
Garbage == <<-2>>     \* what a vsnprintf that failed leaves in a fresh buffer

Va(op, l) == [op |-> op, l |-> l]

sum == <<Va("start", "ap"), Va("sum", "ap"), Va("end", "ap")>>
maxd == <<Va("start", "ap"), Va("max", "ap"), Va("end", "ap")>>
print_vargs == <<Va("start", "ap"), Va("each", "ap"), Va("end", "ap")>>

\* The first argument is a parameter; the list holds those after it.
count_args == <<Va("start", "ap"), Va("count", "ap"), Va("end", "ap")>>
print_all == <<Va("start", "ap"), Va("count", "ap"), Va("end", "ap")>>

\* Two passes, each with its own va_start.
join == <<Va("start", "ap"), Va("measure", "ap"), Va("end", "ap"), Va("malloc", "none"),
          Va("start", "ap"), Va("strcat", "ap"), Va("end", "ap")>>

\* Two passes over one va_start: the second needs the copy.
stats == <<Va("start", "ap"), Va("copy", "ap2"), Va("sum", "ap"), Va("end", "ap"),
           Va("variance", "ap2"), Va("end", "ap2")>>

log_msg == <<Va("start", "ap"), Va("vsnprintf", "ap"), Va("end", "ap")>>

\* Wrong: the copy is not ended when there was nothing to measure.
fmt_alloc_negative_early == <<>>
fmt_alloc_negative == <<Va("end", "ap2")>>
fmt_alloc == <<Va("start", "ap"), Va("copy", "ap2"), Va("vmeasure", "ap"), Va("end", "ap"),
               Va("if_negative", "none"), Va("malloc", "none"), Va("vsnprintf", "ap2"),
               Va("end", "ap2")>>

Program == [sum |-> sum, maxd |-> maxd, print_vargs |-> print_vargs,
            count_args |-> count_args, print_all |-> print_all, join |-> join,
            stats |-> stats, log_msg |-> log_msg, fmt_alloc |-> fmt_alloc]
Sentinel == {"count_args", "print_all"}

VARIABLES fn, args,   \* the call
          todo,       \* what is left of the function
          ap,         \* the lists: Off, or arguments already taken
          total,      \* the number it has computed, -1 for a failed vsnprintf
          variance,   \* n * n * n times the variance of stats
          room, out,  \* the buffer's size (0 for Null) and what is in it
          failed,     \* malloc or vsnprintf failed
          bad         \* a list was used that is off or already consumed

vars == <<fn, args, todo, ap, total, variance, room, out, failed, bad>>

Calls == UNION {[1 .. n -> Strings] : n \in 0 .. MaxArgs}

\* A sentinel function's arguments end with Null; maxd has at least one.
Passed(f) ==
    CASE f \in Sentinel -> {Append(a, Null) : a \in Calls}
      [] f = "maxd" -> Calls \ {<<>>}
      [] OTHER -> Calls

Init ==
    /\ fn \in DOMAIN Program
    /\ args \in Passed(fn)
    /\ todo = IF fn \in Sentinel /\ args[1] = Null THEN <<>> ELSE Program[fn]
    /\ ap = [l \in Lists |-> Off]
    /\ total = 0 /\ variance = 0
    /\ room = IF fn = "log_msg" THEN LOGSZ ELSE 0
    /\ out = <<>>
    /\ failed = FALSE /\ bad = FALSE

is(op) == todo # <<>> /\ Head(todo).op = op
list == Head(todo).l
step == todo' = Tail(todo)

va_start ==
    /\ is("start") /\ step
    /\ bad' = (bad \/ ap[list] # Off)
    /\ ap' = [ap EXCEPT ![list] = 0]
    /\ UNCHANGED <<fn, args, total, variance, room, out, failed>>

va_copy ==
    /\ is("copy") /\ step
    /\ bad' = (bad \/ ap["ap"] = Off \/ ap[list] # Off)
    /\ ap' = [ap EXCEPT ![list] = ap["ap"]]
    /\ UNCHANGED <<fn, args, total, variance, room, out, failed>>

va_end ==
    /\ is("end") /\ step
    /\ bad' = (bad \/ ap[list] = Off)
    /\ ap' = [ap EXCEPT ![list] = Off]
    /\ UNCHANGED <<fn, args, total, variance, room, out, failed>>

\* A loop of va_arg over all the arguments, or vsnprintf, which does the same.
va_args ==
    /\ bad' = (bad \/ ap[list] # 0)
    /\ ap' = [ap EXCEPT ![list] = Len(args)]

lengths == FoldLeft(LAMBDA acc, a : acc + Len(a), 0, args)
deviation(a) == Len(args) * Len(a) - total
text == FlattenSeq(args)

number ==
    /\ \/ /\ \/ is("sum") /\ total' = lengths
             \/ is("max") /\ total' = Max({Len(args[i]) : i \in DOMAIN args})
             \/ is("each") /\ total' = Len(args)
             \/ is("count") /\ total' = SelectInSeq(args, LAMBDA a : a = Null) - 1
             \/ is("measure") /\ total' = 1 + lengths
          /\ UNCHANGED <<variance, failed>>
       \/ /\ is("variance")
          /\ variance' = FoldLeft(LAMBDA acc, a : acc + deviation(a) * deviation(a), 0, args)
          /\ UNCHANGED <<total, failed>>
       \/ /\ is("vmeasure") /\ UNCHANGED variance
          /\ \/ total' = lengths + 1 /\ UNCHANGED failed
             \/ total' = -1 /\ failed' = TRUE
    /\ va_args /\ step
    /\ UNCHANGED <<fn, args, room, out>>

if_negative ==
    /\ is("if_negative")
    /\ todo' = IF total < 0 THEN fmt_alloc_negative ELSE Tail(todo)
    /\ UNCHANGED <<fn, args, ap, total, variance, room, out, failed, bad>>

\* join returns at once when malloc fails, fmt_alloc goes on without a buffer.
malloc ==
    /\ is("malloc")
    /\ \/ room' = total /\ step /\ UNCHANGED failed
       \/ /\ failed' = TRUE
          /\ todo' = IF fn = "join" THEN <<>> ELSE Tail(todo)
          /\ UNCHANGED room
    /\ UNCHANGED <<fn, args, ap, total, variance, out, bad>>

\* strcat looks at no size, vsnprintf stops at the buffer's.  Neither caller
\* looks at what this vsnprintf returns.
fill ==
    /\ \/ is("strcat") /\ out' = text /\ va_args /\ UNCHANGED failed
       \/ is("vsnprintf") /\ room = 0 /\ UNCHANGED <<out, ap, bad, failed>>
       \/ /\ is("vsnprintf") /\ room # 0 /\ va_args
          /\ \/ out' = SubSeq(text, 1, Min({Len(text), room - 1})) /\ UNCHANGED failed
             \/ out' = Garbage /\ failed' = TRUE
    /\ step
    /\ UNCHANGED <<fn, args, total, variance, room>>

Next ==
    \/ va_start \/ va_copy \/ va_end \/ number \/ if_negative \/ malloc \/ fill
    \/ todo = <<>> /\ UNCHANGED vars

Spec == Init /\ [][Next]_vars

-----------------------------------------------------------------------------
\* Every va_start and va_copy meets its va_end on every path, failures too, and
\* no list is read twice or after its end.
ListsPaired == ~bad /\ (todo = <<>> => \A l \in Lists : ap[l] = Off)

(***************************************************************************)
(* What is written fits the buffer that was measured and is all of it, and *)
(* what log_msg prints is as much of its text as its buffer holds.  The    *)
(* exception is a vsnprintf that fails where its result is not looked at:  *)
(* then fmt_alloc returns, and log_msg prints, a buffer never written.     *)
(***************************************************************************)
BufferExact ==
    LET spoilt == failed /\ out = Garbage
    IN /\ Len(out) < room \/ out = <<>> \/ spoilt
       /\ todo = <<>> /\ fn = "join" => IF room = 0 THEN failed ELSE out = text
       /\ todo = <<>> /\ fn = "fmt_alloc"
            => IF room = 0 THEN failed ELSE out = text \/ spoilt
       /\ todo = <<>> /\ fn = "log_msg"
            => spoilt \/ (IsPrefix(out, text) /\ (Len(text) < LOGSZ => out = text))

\* stats' second pass sees what the first saw.
SecondPassRight ==
    LET squares == FoldLeft(LAMBDA acc, a : acc + Len(a) * Len(a), 0, args)
        n == Len(args)
    IN todo = <<>> /\ fn = "stats" => variance = n * n * squares - n * lengths * lengths
===============================================================================
