------------------------------ MODULE Multiplex ------------------------------
(***************************************************************************)
(* Exercise 28, sections 2 to 4: one thread waits for two writer children  *)
(* with select, poll or epoll and reads each pipe once.                    *)
(*                                                                         *)
(* What decides whether such a loop works is which process still holds     *)
(* which end of which pipe: data or the last writer's close makes a pipe   *)
(* ready, and a write with no reader left kills the writer.  The model     *)
(* keeps those holders through pipe, fork, close and exit.  A wait may     *)
(* time out whenever nothing is ready: the two seconds in the code are     *)
(* longer than the children's delays but nothing enforces that.  A fork    *)
(* may fail, which the code does not look at: that pipe has no writer.     *)
(***************************************************************************)
CONSTANT Apis      \* the calls to try, a subset of {"select", "poll", "epoll"}

Kids == {"A", "B"}         \* a pipe is named after its writer child

VARIABLES api,       \* the call this section uses
          pc,        \* where the parent is
          kid,       \* state of each child, "none" after a failed fork
          rd, wr,    \* processes holding each pipe's read and write end
          data,      \* the pipes that hold unread bytes
          ready,     \* result of the last wait: the fds that are readable
          got,       \* what the parent read from each pipe
          timedout,  \* the loop was left through the timeout branch
          interest   \* the epoll instance's registrations

vars == <<api, pc, kid, rd, wr, data, ready, got, timedout, interest>>

Init ==
    /\ api \in Apis
    /\ pc = "pipe"
    /\ kid = [k \in Kids |-> "unborn"]
    /\ rd = [k \in Kids |-> {}] /\ wr = [k \in Kids |-> {}]
    /\ data = {} /\ ready = {}
    /\ got = [k \in Kids |-> "none"]
    /\ timedout = FALSE
    /\ interest = {}

Without(holders, p) == [k \in Kids |-> holders[k] \ {p}]

-----------------------------------------------------------------------------
(* two_writers *)

make_pipes ==
    /\ pc = "pipe" /\ pc' = "forkA"
    /\ rd' = [k \in Kids |-> {"P"}] /\ wr' = [k \in Kids |-> {"P"}]
    /\ UNCHANGED <<api, kid, data, ready, got, timedout, interest>>

\* A child inherits every end its parent holds at that moment.
fork_child(k) ==
    /\ \/ /\ kid' = [kid EXCEPT ![k] = "close"]
          /\ rd' = [x \in Kids |-> IF "P" \in rd[x] THEN rd[x] \cup {k} ELSE rd[x]]
          /\ wr' = [x \in Kids |-> IF "P" \in wr[x] THEN wr[x] \cup {k} ELSE wr[x]]
       \/ kid' = [kid EXCEPT ![k] = "none"] /\ UNCHANGED <<rd, wr>>
    /\ UNCHANGED <<api, data, ready, got, timedout, interest>>

close_write_end(k) ==
    /\ wr' = [wr EXCEPT ![k] = @ \ {"P"}]
    /\ UNCHANGED <<api, kid, rd, data, ready, got, timedout, interest>>

two_writers ==
    \/ pc = "forkA"  /\ pc' = "closeA" /\ fork_child("A")
    \/ pc = "closeA" /\ pc' = "forkB"  /\ close_write_end("A")
    \/ pc = "forkB"  /\ pc' = "closeB" /\ fork_child("B")
    \/ pc = "closeB" /\ pc' = "setup"  /\ close_write_end("B")

\* The child's first closes: both read ends, and for A also B's write end.
child_close(k) ==
    /\ kid[k] = "close"
    /\ kid' = [kid EXCEPT ![k] = "write"]
    /\ rd' = Without(rd, k)
    /\ wr' = IF k = "A" THEN [wr EXCEPT !["B"] = @ \ {k}] ELSE wr
    /\ UNCHANGED <<api, pc, data, ready, got, timedout, interest>>

\* write(): with no reader left SIGPIPE kills the child.
child_write(k) ==
    /\ kid[k] = "write"
    /\ IF rd[k] = {}
       THEN /\ kid' = [kid EXCEPT ![k] = "zombie"]
            /\ wr' = Without(wr, k)
            /\ UNCHANGED data
       ELSE /\ kid' = [kid EXCEPT ![k] = "exit"]
            /\ data' = data \cup {k}
            /\ UNCHANGED wr
    /\ UNCHANGED <<api, pc, rd, ready, got, timedout, interest>>

child_exit(k) ==
    /\ kid[k] = "exit"
    /\ kid' = [kid EXCEPT ![k] = "zombie"]
    /\ wr' = Without(wr, k)
    /\ UNCHANGED <<api, pc, rd, data, ready, got, timedout, interest>>

child(k) == child_close(k) \/ child_write(k) \/ child_exit(k)

-----------------------------------------------------------------------------
(* The three loops *)

\* The fds of interest: not yet done (select), fd >= 0 (poll), registered
\* (epoll).
setup ==
    /\ pc = "setup" /\ pc' = "wait"
    /\ interest' = Kids
    /\ UNCHANGED <<api, kid, rd, wr, data, ready, got, timedout>>

hup(k) == wr[k] = {}

\* What the kernel reports: select and epoll wake up for data or for the
\* end of file; poll does too, but sets POLLIN only for data.
kernel_ready == {k \in interest : k \in data \/ hup(k)}

\* Wrong: everything of interest is treated as readable when one is.
wait_for_events_all ==
    /\ pc = "wait" /\ interest # {} /\ kernel_ready # {}
    /\ ready' = interest
    /\ pc' = "handleA"
    /\ UNCHANGED <<api, kid, rd, wr, data, got, timedout, interest>>

wait_for_events ==
    /\ pc = "wait" /\ interest # {} /\ kernel_ready # {}
    /\ ready' = IF api = "poll" THEN kernel_ready \cap data ELSE kernel_ready
    /\ pc' = "handleA"
    /\ UNCHANGED <<api, kid, rd, wr, data, got, timedout, interest>>

wait_timeout ==
    /\ pc = "wait" /\ interest # {} /\ kernel_ready = {}
    /\ timedout' = TRUE
    /\ pc' = "cleanup"
    /\ UNCHANGED <<api, kid, rd, wr, data, ready, got, interest>>

\* One readable descriptor: read once, unregister, close.  epoll reports its
\* batch in any order; the handlers of one batch touch disjoint pipes, so the
\* order A, B of the other two loops stands for both.
handle(k, here, next) ==
    /\ pc = here /\ pc' = next
    /\ IF k \in ready
       THEN /\ got' = [got EXCEPT ![k] = IF k \in data THEN "msg" ELSE "eof"]
            /\ data' = data \ {k}
            /\ rd' = [rd EXCEPT ![k] = @ \ {"P"}]
            /\ interest' = interest \ {k}
       ELSE UNCHANGED <<got, data, rd, interest>>
    /\ UNCHANGED <<api, kid, wr, ready, timedout>>

loop_end ==
    /\ pc = "wait" /\ interest = {}
    /\ pc' = "cleanup"
    /\ UNCHANGED <<api, kid, rd, wr, data, ready, got, timedout, interest>>

\* select and poll close what the loop left open; epoll closes epfd only.
cleanup ==
    /\ pc = "cleanup" /\ pc' = "reapA"
    /\ rd' = IF api = "epoll" THEN rd ELSE Without(rd, "P")
    /\ interest' = {}
    /\ UNCHANGED <<api, kid, wr, data, ready, got, timedout>>

\* waitpid(pid): of a failed fork the pid is -1, which stands for any child; a
\* process without such a child gets an error at once.
reap(k, here, next) ==
    /\ pc = here /\ pc' = next
    /\ LET wanted == {j \in Kids : (j = k \/ kid[k] = "none") /\ kid[j] \notin {"none", "reaped"}}
       IN \/ wanted = {} /\ UNCHANGED kid
          \/ \E j \in wanted : kid[j] = "zombie" /\ kid' = [kid EXCEPT ![j] = "reaped"]
    /\ UNCHANGED <<api, rd, wr, data, ready, got, timedout, interest>>

multiplex ==
    \/ wait_for_events
    \/ handle("A", "handleA", "handleB") \/ handle("B", "handleB", "wait")
    \/ loop_end \/ cleanup
    \/ reap("A", "reapA", "reapB") \/ reap("B", "reapB", "done")

parent == make_pipes \/ two_writers \/ setup \/ multiplex

Next ==
    \/ parent
    \/ wait_timeout
    \/ \E k \in Kids : child(k)
    \/ pc = "done" /\ UNCHANGED vars

Spec == Init /\ [][Next]_vars

-----------------------------------------------------------------------------
(***************************************************************************)
(* The blocking read() of a handler never blocks: what the wait reported   *)
(* is still readable when the handler gets to it.                          *)
(***************************************************************************)
NoBlockingRead ==
    /\ pc = "handleA" => \A k \in ready : k \in data \/ hup(k)
    /\ pc = "handleB" /\ "B" \in ready => "B" \in data \/ hup("B")

\* Nothing closed is ever waited for: the interest set holds open read ends.
InterestIsOpen == \A k \in interest : "P" \in rd[k]

(***************************************************************************)
(* Once a child has done its closes, only it (and, inside two_writers, the *)
(* parent) can keep its pipe from reaching end of file: no sibling holds   *)
(* the write end.                                                          *)
(***************************************************************************)
WriteEndsPrivate ==
    \A k \in Kids :
        (\A j \in Kids : kid[j] # "close") => wr[k] \subseteq {k, "P"}

(***************************************************************************)
(* Whichever call is used, a loop that ends without a timeout has read the *)
(* message of every child there is, never an end of file in place of one.  *)
(***************************************************************************)
BothRead ==
    pc \in {"cleanup", "reapA", "reapB", "done"} /\ ~timedout
        => got = [k \in Kids |-> IF kid[k] = "none" THEN "eof" ELSE "msg"]

\* No child is left behind, whose pid ever the parent waited for.
AllReaped == pc = "done" => \A k \in Kids : kid[k] \in {"reaped", "none"}

(***************************************************************************)
(* poll sets POLLHUP and not POLLIN for a pipe that has no writer and no   *)
(* data, and its loop looks at POLLIN only: with nothing else to wait for, *)
(* poll returns at once, for ever, and not even the timeout ends the loop. *)
(***************************************************************************)
Spinning ==
    /\ api = "poll" /\ pc \in {"wait", "handleA", "handleB"}
    /\ interest # {} /\ \A k \in interest : kid[k] = "none" /\ hup(k)

(***************************************************************************)
(* No pipe end is left open in the parent when the section returns.        *)
(* sockets.md: "Always close(fd) in every code path"; the select and poll  *)
(* sections: "Close any fd not already closed (timeout / error paths break *)
(* early)".                                                                *)
(***************************************************************************)
AllClosed ==
    pc = "done" => \A k \in Kids : "P" \notin rd[k] \cup wr[k]

\* The same for the two loops with a cleanup after them, and for the third
\* when it did not time out.
ClosedUnlessEpollTimeout == ~(api = "epoll" /\ timedout) => AllClosed

==============================================================================
