----------------------------- MODULE EchoServer -----------------------------
(***************************************************************************)
(* Exercise 28, section 6: a single-threaded epoll echo server and the     *)
(* NUM_CLIENTS clients its child process forks.                            *)
(*                                                                         *)
(* Descriptors are numbers handed out lowest first, so the number of a     *)
(* closed connection comes back with the next accept; the events of one    *)
(* epoll_wait are handled in any order while clients keep moving.  The     *)
(* backlog of 16 is larger than NUM_CLIENTS and is not a limit here.       *)
(***************************************************************************)
EXTENDS Integers, FiniteSets, FiniteSetsExt

CONSTANTS NUM_CLIENTS,
          IdleTimeout      \* whether epoll_wait may run into its timeout

ASSUME ClientsAssumption == NUM_CLIENTS \in Nat \ {0}

Clients == 1 .. NUM_CLIENTS
Fds == 1 .. NUM_CLIENTS
LFD == 0

VARIABLES cpc,        \* where each client is
          reply,      \* what each client read: a client's number, 0 for none
          backlog,    \* clients connected and not yet accepted
          conn,       \* conn[fd]: the client behind an open fd of the server, 0
          inbox,      \* inbox[c]: unread bytes from client c at the server
          outbox,     \* outbox[c]: bytes for client c, 0 for none
          fin,        \* clients that closed their side
          reset,      \* clients whose connection the server closed
          spc,        \* where the server is
          events,     \* reported fds not handled yet, with their flags
          active, total_seen,
          timedout,   \* the loop ended with "idle timeout"
          waiter      \* run_clients' process: children still to be waited for

vars == <<cpc, reply, backlog, conn, inbox, outbox, fin, reset, spc, events,
          active, total_seen, timedout, waiter>>

Init ==
    /\ cpc = [c \in Clients |-> "sleep"]
    /\ reply = [c \in Clients |-> 0]
    /\ backlog = {}
    /\ conn = [f \in Fds |-> 0]
    /\ inbox = {}
    /\ outbox = [c \in Clients |-> 0]
    /\ fin = {} /\ reset = {}
    /\ spc = "wait" /\ events = {}
    /\ active = 0 /\ total_seen = 0
    /\ timedout = FALSE
    /\ waiter = NUM_CLIENTS

-----------------------------------------------------------------------------
(* run_clients: one process per client *)

\* connect() succeeds while the listening socket is open, or fails and the
\* client exits; one that could not be forked (neither fork is checked) is
\* missing just so.
connect(c) ==
    /\ cpc[c] = "sleep"
    /\ \/ /\ spc \in {"wait", "handle", "accept", "close"}
          /\ cpc' = [cpc EXCEPT ![c] = "write"]
          /\ backlog' = backlog \cup {c}
       \/ /\ cpc' = [cpc EXCEPT ![c] = "exited"]
          /\ UNCHANGED backlog
    /\ UNCHANGED <<reply, conn, inbox, outbox, fin, reset, spc, events, active,
                   total_seen, timedout, waiter>>

client_write(c) ==
    /\ cpc[c] = "write"
    /\ cpc' = [cpc EXCEPT ![c] = "read"]
    /\ inbox' = inbox \cup {c}
    /\ UNCHANGED <<reply, backlog, conn, outbox, fin, reset, spc, events,
                   active, total_seen, timedout, waiter>>

\* read() returns the echo, or fails once the server has closed.
client_read(c) ==
    /\ cpc[c] = "read"
    /\ outbox[c] # 0 \/ c \in reset
    /\ cpc' = [cpc EXCEPT ![c] = "close"]
    /\ reply' = [reply EXCEPT ![c] = outbox[c]]
    /\ UNCHANGED <<backlog, conn, inbox, outbox, fin, reset, spc, events,
                   active, total_seen, timedout, waiter>>

client_close(c) ==
    /\ cpc[c] = "close"
    /\ cpc' = [cpc EXCEPT ![c] = "exited"]
    /\ fin' = fin \cup {c}
    /\ UNCHANGED <<reply, backlog, conn, inbox, outbox, reset, spc, events,
                   active, total_seen, timedout, waiter>>

client(c) == connect(c) \/ client_write(c) \/ client_read(c) \/ client_close(c)

\* waitpid(-1, NULL, 0), NUM_CLIENTS times
reap_client ==
    /\ waiter > NUM_CLIENTS - Cardinality({c \in Clients : cpc[c] = "exited"})
    /\ waiter' = waiter - 1
    /\ UNCHANGED <<cpc, reply, backlog, conn, inbox, outbox, fin, reset, spc,
                   events, active, total_seen, timedout>>

-----------------------------------------------------------------------------
(* the event loop *)

open == {f \in Fds : conn[f] # 0}

\* The level-triggered state of the registered fds.  An event also remembers
\* (for EchoToOwner only) the client it was reported for.
pending ==
    (IF backlog = {} THEN {} ELSE {[fd |-> LFD, hup |-> FALSE, of |-> 0]})
    \cup {[fd |-> f, hup |-> conn[f] \in fin, of |-> conn[f]] :
             f \in {x \in open : conn[x] \in inbox \cup fin}}

epoll_wait ==
    /\ spc = "wait"
    /\ pending # {}
    /\ events' = pending
    /\ spc' = "handle"
    /\ UNCHANGED <<cpc, reply, backlog, conn, inbox, outbox, fin, reset, active,
                   total_seen, timedout, waiter>>

idle_timeout ==
    /\ IdleTimeout
    /\ spc = "wait"
    /\ pending = {}
    /\ timedout' = TRUE
    /\ spc' = "close"
    /\ UNCHANGED <<cpc, reply, backlog, conn, inbox, outbox, fin, reset, events,
                   active, total_seen, waiter>>

next_spc(rest) == IF rest = {} THEN "wait" ELSE "handle"

\* The loop takes the next reported fd; for the listening socket it drains.
next_event(e) ==
    /\ spc = "handle" /\ e.fd = LFD
    /\ events' = events \ {e}
    /\ spc' = "accept"
    /\ UNCHANGED <<cpc, reply, backlog, conn, inbox, outbox, fin, reset, active,
                   total_seen, timedout, waiter>>

new_connection(c) ==
    /\ conn' = [conn EXCEPT ![Min(Fds \ open)] = c]
    /\ backlog' = backlog \ {c}

\* Wrong: total_seen is not counted up.
accept_one_unseen ==
    /\ spc = "accept"
    /\ \E c \in backlog : new_connection(c)
    /\ active' = active + 1
    /\ UNCHANGED <<cpc, reply, inbox, outbox, fin, reset, spc, events,
                   total_seen, timedout, waiter>>

\* One round of the inner for (;;): accept gives the lowest free number, the
\* fd is registered with epoll and counted.
accept_one ==
    /\ spc = "accept"
    /\ \E c \in backlog : new_connection(c)
    /\ active' = active + 1
    /\ total_seen' = total_seen + 1
    /\ UNCHANGED <<cpc, reply, inbox, outbox, fin, reset, spc, events, timedout,
                   waiter>>

\* accept() < 0, EAGAIN: all accepted
accept_drained ==
    /\ spc = "accept" /\ backlog = {}
    /\ spc' = next_spc(events)
    /\ UNCHANGED <<cpc, reply, backlog, conn, inbox, outbox, fin, reset, events,
                   active, total_seen, timedout, waiter>>

\* Wrong: the echo is sent to the connection accepted last.
echo_last(c) == [outbox EXCEPT ![conn[Max(open)]] = c]

echo(c) == [outbox EXCEPT ![c] = c]

all_done(left) == left = 0 /\ total_seen = NUM_CLIENTS

\* Wrong: only a failed read disconnects.
disconnect_missing(nr, hup) == nr < 0

\* nr is the number of bytes read, 0 at end of file; hup: EPOLLRDHUP is set.
disconnect(nr, hup) == nr <= 0 \/ hup

(***************************************************************************)
(* The else branch of the loop, a client's fd: read, echo what was read,   *)
(* and on end of file or half-close unregister, close and count down.      *)
(***************************************************************************)
serve_client(e) ==
    /\ spc = "handle" /\ e.fd # LFD
    /\ LET c == conn[e.fd]
           nr == IF c \in inbox THEN 1 ELSE IF c \in fin THEN 0 ELSE -1
           gone == disconnect(nr, e.hup)
       IN /\ inbox' = inbox \ {c}
          /\ outbox' = IF nr > 0 THEN echo(c) ELSE outbox
          /\ conn' = IF gone THEN [conn EXCEPT ![e.fd] = 0] ELSE conn
          /\ reset' = IF gone THEN reset \cup {c} ELSE reset
          /\ active' = IF gone THEN active - 1 ELSE active
          /\ IF gone /\ all_done(active - 1)
             THEN spc' = "close" /\ events' = {}
             ELSE /\ events' = events \ {e}
                  /\ spc' = next_spc(events \ {e})
    /\ UNCHANGED <<cpc, reply, backlog, fin, total_seen, timedout, waiter>>

\* close(epfd); close(lfd): connections never accepted are reset.
close_server ==
    /\ spc = "close"
    /\ spc' = "waitpid"
    /\ reset' = reset \cup backlog
    /\ UNCHANGED <<cpc, reply, backlog, conn, inbox, outbox, fin, events,
                   active, total_seen, timedout, waiter>>

\* waitpid(cpid)
server_waitpid ==
    /\ spc = "waitpid"
    /\ waiter = 0
    /\ spc' = "done"
    /\ UNCHANGED <<cpc, reply, backlog, conn, inbox, outbox, fin, reset, events,
                   active, total_seen, timedout, waiter>>

section6_echo_server ==
    \/ epoll_wait
    \/ \E e \in events : next_event(e) \/ serve_client(e)
    \/ accept_one \/ accept_drained
    \/ close_server
    \/ server_waitpid

Next ==
    \/ section6_echo_server
    \/ idle_timeout
    \/ \E c \in Clients : client(c)
    \/ reap_client
    \/ spc = "done" /\ UNCHANGED vars

Spec == Init /\ [][Next]_vars

-----------------------------------------------------------------------------

(***************************************************************************)
(* The two counters the loop's end is decided by: active is the number of  *)
(* connections the server holds open, and total_seen the number it ever    *)
(* accepted (open now or closed again).                                    *)
(***************************************************************************)
CountersAgree ==
    /\ active = Cardinality(open)
    /\ total_seen = Cardinality({conn[f] : f \in open} \cup (reset \ backlog))

(***************************************************************************)
(* A client that gets an answer gets its own message back: a reported      *)
(* event is handled for the connection it was reported for, although       *)
(* descriptor numbers are closed and reused within the same batch.         *)
(***************************************************************************)
EchoToOwner ==
    /\ \A e \in events : e.fd = LFD \/ (conn[e.fd] = e.of /\ e.of # 0)
    /\ \A c \in Clients : outbox[c] \in {0, c} /\ reply[c] \in {0, c}

(***************************************************************************)
(* Unless it ran into the idle timeout, the server leaves its loop only    *)
(* when all NUM_CLIENTS clients have their reply and every accepted        *)
(* descriptor is closed, and no client that connected goes unanswered.     *)
(***************************************************************************)
StopsOnlyWhenServed ==
    ~timedout =>
        /\ spc \in {"close", "waitpid", "done"}
             => open = {} /\ \A c \in Clients : reply[c] = c /\ c \in fin
        /\ \A c \in Clients : cpc[c] = "close" \/ c \in fin => reply[c] = c

(***************************************************************************)
(* The server idled out while a client was connected: nobody closes that   *)
(* connection, so the client's read waits for the server, which waits for  *)
(* the client's parent.                                                    *)
(***************************************************************************)
IdledOut ==
    /\ timedout /\ spc = "waitpid"
    /\ \E f \in open : cpc[conn[f]] = "read" /\ outbox[conn[f]] = 0
=============================================================================
