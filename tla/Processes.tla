------------------------------ MODULE Processes ------------------------------
(***************************************************************************)
(* Exercise 25: fork, exit status, exec, pipes, popen and descriptor       *)
(* inheritance.  main runs its sections one after the other and has at     *)
(* most one child at a time; each section is the sequence of system calls  *)
(* its parent makes, and each fork carries the calls its child makes.      *)
(*                                                                         *)
(* A pipe reaches end of file when no process holds its write end, a write *)
(* with no reader kills the writer, and a child inherits every end and the *)
(* unflushed output of its parent.                                         *)
(***************************************************************************)
EXTENDS Integers, Sequences, FiniteSets

CONSTANT ForkMayFail    \* fork may return -1

ASSUME ForkAssumption == ForkMayFail \in BOOLEAN

Op(o, a) == [op |-> o, arg |-> a]
Pipe(p) == Op("pipe", p)
R(p) == <<p, "r">>
W(p) == <<p, "w">>
Close(e) == Op("close", e)
Write(p) == Op("write", p)
Read(p) == Op("read", p)
Exit(n) == Op("exit", n)
Fork(s) == Op("fork", s)

\* A fork whose failure is noticed: the n calls that follow are skipped.
ForkOr(s, n) == [op |-> "fork", arg |-> s, skip |-> n]
Flush == Op("flush", "stdout")
Partial == Op("print", "partial line")
PrintLine == Op("println", "line")
WaitAny == Op("wait", "any")
WaitPid == Op("wait", "pid")

section_fork == <<Flush, ForkOr(<<PrintLine, Exit(0)>>, 2), PrintLine, WaitPid>>

check_status == <<PrintLine>>

section_status ==
    <<Flush, Fork(<<Exit(42)>>), WaitAny, Partial>> \o check_status \o
    <<Flush, Fork(<<Exit(0)>>), WaitAny, Partial>> \o check_status \o
    <<Flush, Fork(<<Op("pause", ""), Exit(0)>>), Op("kill", "SIGTERM"), WaitPid,
      Partial>> \o check_status

\* execvp of a program that exists ends in that program's exit status; of one
\* that does not, in the exit(127) after it.
section_exec ==
    <<Flush, Fork(<<Op("exec", TRUE), Exit(127)>>), WaitPid, PrintLine,
      Flush, Fork(<<Op("exec", FALSE), Exit(127)>>), WaitPid, PrintLine>>

one_way ==
    <<Pipe("p"), Flush,
      Fork(<<Close(W("p")), Read("p"), PrintLine, Close(R("p")), Exit(0)>>),
      Close(R("p")), Write("p"), Close(W("p")), WaitPid>>

\* Wrong: the parent reads the answer before it has written the request.
two_way_read_first ==
    <<Pipe("to_child"), Pipe("to_parent"), Flush,
      Fork(<<Close(W("to_child")), Close(R("to_parent")),
             Read("to_child"), Write("to_parent"),
             Close(R("to_child")), Close(W("to_parent")), Exit(0)>>),
      Close(R("to_child")), Close(W("to_parent")),
      Read("to_parent"), Write("to_child"), Close(W("to_child")), PrintLine,
      Close(R("to_parent")), WaitPid>>

two_way ==
    <<Pipe("to_child"), Pipe("to_parent"), Flush,
      Fork(<<Close(W("to_child")), Close(R("to_parent")),
             Read("to_child"), Write("to_parent"),
             Close(R("to_child")), Close(W("to_parent")), Exit(0)>>),
      Close(R("to_child")), Close(W("to_parent")), Write("to_child"),
      Close(W("to_child")), Read("to_parent"), PrintLine,
      Close(R("to_parent")), WaitPid>>

section_pipe == one_way \o two_way

\* popen is pipe, fork and exec of a shell; the reading loop of the first call
\* runs to end of file, and pclose closes the parent's end before it waits.
\* When popen fails the section returns: popen has closed its pipe.
popen_r(rest) ==
    <<Pipe("fp"),
      ForkOr(<<Close(R("fp")), Write("fp"), Close(W("fp")), Op("exec", TRUE)>>,
             6 + Len(rest)),
      Close(W("fp")), Read("fp"), Read("fp"), PrintLine, Close(R("fp")), WaitPid>>

\* Wrong: pclose waits for the command with its own write end still open.
popen_w_wait_first ==
    <<Pipe("fp"),
      ForkOr(<<Close(W("fp")), Read("fp"), Read("fp"), Close(R("fp")),
               Op("exec", TRUE)>>, 4),
      Close(R("fp")), Write("fp"), WaitPid, Close(W("fp"))>>

popen_w ==
    <<Pipe("fp"),
      ForkOr(<<Close(W("fp")), Read("fp"), Read("fp"), Close(R("fp")),
               Op("exec", TRUE)>>, 4),
      Close(R("fp")), Write("fp"), Close(W("fp")), WaitPid>>

section_popen == popen_r(popen_w) \o popen_w

section_pitfalls ==
    <<Flush, Fork(<<Exit(0)>>), WaitPid, PrintLine,
      Pipe("fd"), Close(R("fd")), Close(W("fd")), PrintLine>>

main == section_fork \o section_status \o section_exec \o section_pipe \o
        section_popen \o section_pitfalls

-----------------------------------------------------------------------------
VARIABLES todo,       \* todo[p]: the calls process p has still to make
          state,      \* "unborn", "run", "zombie", "reaped"; the child's life
          pid,        \* the parent's pid variable: 0 none, 1 its child, -1
          held,       \* held[p]: the pipe ends p has open
          content,    \* content[p]: unread data in pipe p
          read_ok,    \* data reads and end-of-file reads, per process
          pending,    \* unflushed partial output of each process
          dups,       \* output that was written twice
          no_child,   \* some fork failed
          stray,      \* a signal went to something that is not the child
          status      \* exit status of the child, "killed", or "none"

Pids == {"parent", "child"}
PipeNames == {"p", "to_child", "to_parent", "fp", "fd"}

vars == <<todo, state, pid, held, content, read_ok, pending, dups, no_child, stray, status>>

Init ==
    /\ todo = [parent |-> main, child |-> <<>>]
    /\ state = "unborn" /\ pid = 0
    /\ held = [q \in Pids |-> {}]
    /\ content = [p \in PipeNames |-> 0]
    /\ read_ok = <<>>
    /\ pending = [q \in Pids |-> 0]
    /\ dups = 0 /\ no_child = FALSE /\ stray = FALSE /\ status = "none"

runs(q) == todo[q] # <<>> /\ (q = "child" => state = "run")
now(q) == Head(todo[q])
is(q, op) == runs(q) /\ now(q).op = op
advance(q) == todo' = [todo EXCEPT ![q] = Tail(@)]

Writers(p) == {q \in Pids : W(p) \in held[q]}
Readers(p) == {q \in Pids : R(p) \in held[q]}

\* The child ends: its descriptors close, what it had not flushed is written.
Die(st) ==
    /\ state' = "zombie" /\ status' = st
    /\ todo' = [todo EXCEPT !["child"] = <<>>]
    /\ held' = [held EXCEPT !["child"] = {}]

pipe(q) ==
    /\ is(q, "pipe") /\ advance(q)
    /\ held' = [held EXCEPT ![q] = @ \cup {R(now(q).arg), W(now(q).arg)}]
    /\ content' = [content EXCEPT ![now(q).arg] = 0]
    /\ UNCHANGED <<state, pid, read_ok, pending, dups, no_child, stray, status>>

close(q) ==
    /\ is(q, "close") /\ advance(q)
    /\ held' = [held EXCEPT ![q] = @ \ {now(q).arg}]
    /\ UNCHANGED <<state, pid, content, read_ok, pending, dups, no_child, stray,
                   status>>

fork ==
    /\ is("parent", "fork")
    /\ todo' = [parent |-> Tail(todo["parent"]), child |-> now("parent").arg]
    /\ state' = "run" /\ pid' = 1 /\ status' = "none"
    /\ held' = [held EXCEPT !["child"] = held["parent"]]
    /\ pending' = [pending EXCEPT !["child"] = pending["parent"]]
    /\ UNCHANGED <<content, read_ok, dups, no_child, stray>>

\* fork returns -1: most callers go on as if there were a child.
fork_fails ==
    /\ ForkMayFail
    /\ is("parent", "fork")
    /\ pid' = -1 /\ no_child' = TRUE
    /\ IF "skip" \in DOMAIN now("parent")
       THEN /\ todo' = [todo EXCEPT !["parent"] =
                          SubSeq(@, now("parent").skip + 2, Len(@))]
            /\ held' = [held EXCEPT !["parent"] = {}]
       ELSE /\ advance("parent")
            /\ UNCHANGED held
    /\ UNCHANGED <<state, content, read_ok, pending, dups, stray, status>>

\* exit() flushes; output inherited unflushed from the parent appears twice.
exit ==
    /\ is("child", "exit")
    /\ Die(now("child").arg)
    /\ dups' = dups + pending["child"]
    /\ pending' = [pending EXCEPT !["child"] = 0]
    /\ UNCHANGED <<pid, content, read_ok, no_child, stray>>

\* execvp: the new program exits with 0, or execvp returns.
execvp ==
    /\ is("child", "exec")
    /\ IF now("child").arg THEN Die(0) ELSE advance("child") /\ UNCHANGED <<state,
                                                                            status,
                                                                            held>>
    /\ UNCHANGED <<pid, content, read_ok, pending, dups, no_child, stray>>

\* pause() returns only through the signal, whose default action kills.
kill ==
    /\ is("parent", "kill")
    /\ IF pid = 1
       THEN /\ IF state = "run"
               THEN /\ state' = "zombie" /\ status' = "killed"
                    /\ todo' = [parent |-> Tail(todo["parent"]), child |-> <<>>]
                    /\ held' = [held EXCEPT !["child"] = {}]
               ELSE advance("parent") /\ UNCHANGED <<state, status, held>>
            /\ UNCHANGED stray
       ELSE /\ stray' = TRUE
            /\ advance("parent")
            /\ UNCHANGED <<state, status, held>>
    /\ UNCHANGED <<pid, content, read_ok, pending, dups, no_child>>

\* waitpid: blocks for the child; with no child (or pid -1 and none) fails.
wait ==
    /\ is("parent", "wait")
    /\ state # "run"
    /\ advance("parent")
    /\ state' = IF state = "zombie" THEN "reaped" ELSE state
    /\ UNCHANGED <<pid, held, content, read_ok, pending, dups, no_child, stray,
                   status>>

\* SIGPIPE ends the whole program.
parent_killed ==
    /\ todo' = [todo EXCEPT !["parent"] = <<>>]
    /\ held' = [held EXCEPT !["parent"] = {}]
    /\ UNCHANGED <<state, status>>

write(q) ==
    /\ is(q, "write")
    /\ LET p == now(q).arg
       IN IF Readers(p) # {} /\ W(p) \in held[q]
          THEN /\ content' = [content EXCEPT ![p] = 1]
               /\ advance(q)
               /\ UNCHANGED <<state, status, held>>
          ELSE /\ IF q = "child" THEN Die("killed") ELSE parent_killed
               /\ UNCHANGED content
    /\ UNCHANGED <<pid, read_ok, pending, dups, no_child, stray>>

\* read: all the data, else end of file once nobody can write any more.
read(q) ==
    /\ is(q, "read")
    /\ LET p == now(q).arg
       IN /\ content[p] = 1 \/ Writers(p) = {} \/ R(p) \notin held[q]
          /\ content' = [content EXCEPT ![p] = 0]
          /\ read_ok' = Append(read_ok,
                 IF R(p) \notin held[q] THEN "error"
                 ELSE IF content[p] = 1 THEN "data" ELSE "eof")
    /\ advance(q)
    /\ UNCHANGED <<state, pid, held, pending, dups, no_child, stray, status>>

\* Line-buffered stdout: only a partial line stays in the buffer.
print(q) ==
    /\ runs(q) /\ now(q).op \in {"print", "println", "flush"}
    /\ advance(q)
    /\ pending' = [pending EXCEPT ![q] = IF now(q).op = "print" THEN 1 ELSE 0]
    /\ UNCHANGED <<state, pid, held, content, read_ok, dups, no_child, stray,
                   status>>

parent == pipe("parent") \/ close("parent") \/ fork \/ fork_fails \/ kill \/ wait
          \/ write("parent") \/ read("parent") \/ print("parent")

child == close("child") \/ exit \/ execvp \/ write("child") \/ read("child")
         \/ print("child")

Next == parent \/ child \/ (todo["parent"] = <<>> /\ UNCHANGED vars)

Spec == Init /\ [][Next]_vars

-----------------------------------------------------------------------------
(***************************************************************************)
(* As long as fork succeeds, every message through a pipe arrives, in both *)
(* directions, and end of file only where it is waited for: after the      *)
(* answer of a command (popen "r", the fifth read of a run) and after the  *)
(* input of one (popen "w", the seventh).                                  *)
(***************************************************************************)
ReadsAsExpected ==
    ~no_child => \A i \in DOMAIN read_ok :
                    read_ok[i] = IF i \in {5, 7} THEN "eof" ELSE "data"

\* No fork while a child is uncollected, and none left at the end: no zombies.
NoZombies ==
    is("parent", "fork") \/ todo["parent"] = <<>> => state \in {"unborn", "reaped"}

(***************************************************************************)
(* The parent holds no pipe end any more when it waits for its child, so   *)
(* the child's wait for end of file and the parent's wait for the child    *)
(* never wait for each other; and none is left at the end.                 *)
(***************************************************************************)
NoEndsLeaked ==
    is("parent", "wait") \/ todo["parent"] = <<>> => held["parent"] = {}

\* Output is written once, although each child inherits the stdio buffer.
NothingTwice == dups = 0

\* kill only ever signals the program's own child.
\* error_handling.md: "Check every call that can fail".
SignalsOnlyOwnChild == ~stray
==============================================================================
