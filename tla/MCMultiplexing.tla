------------------------------ MODULE MCMultiplexing ------------------------------
(***************************************************************************)
(* The instance of exercises 26 and 28 that TLC checks: two writer         *)
(* children read through select, poll or epoll, the epoll echo server with *)
(* its clients, or the three echo sections of exercise 26.  Messages and   *)
(* buffers of the latter are small: the longest message's echo just fits,  *)
(* and one message is empty.                                               *)
(***************************************************************************)
EXTENDS EchoServer

CONSTANTS BYTE, BUFSZ, ECHOSZ, PREFIX, TcpMsgs, UdpMsgs, UnixMsgs,
          Garbage, ClientMayDie, MayBeShort, MayLose   \* of the socket sections

\* The bytes of the socket sections: one message is empty, one has bytes that
\* look like lengths.
MCPrefix == <<3>>
MCTcpMsgs == <<<<1, 2>>, <<>>, <<0, 3, 1>>>>
MCUdpMsgs == <<<<1>>>>
MCUnixMsgs == <<<<2, 1>>>>
MCGarbage == {<<1, 0>>}

VARIABLES demo, mux_api, mux_pc, mux_kid, mux_rd, mux_wr, mux_data,
          mux_ready, mux_got, mux_timedout, mux_interest,
          soc_section, soc_pc, soc_port, soc_queue, soc_wire, soc_open,
          soc_i, soc_want, soc_got, soc_buf, soc_replies, soc_lost, soc_short

Mux == INSTANCE Multiplex WITH
    Apis <- {"select", "poll", "epoll"}, api <- mux_api, pc <- mux_pc,
    kid <- mux_kid, rd <- mux_rd, wr <- mux_wr, data <- mux_data,
    ready <- mux_ready, got <- mux_got, timedout <- mux_timedout,
    interest <- mux_interest

Sock == INSTANCE Sockets WITH
    section <- soc_section, pc <- soc_pc, port <- soc_port,
    queue <- soc_queue, wire <- soc_wire, open <- soc_open, i <- soc_i,
    want <- soc_want, got <- soc_got, buf <- soc_buf,
    replies <- soc_replies, lost <- soc_lost, short <- soc_short

ASSUME SocketMessagesFit == Sock!MessagesFit

muxVars == <<mux_api, mux_pc, mux_kid, mux_rd, mux_wr, mux_data, mux_ready,
            mux_got, mux_timedout, mux_interest>>
socVars == <<soc_section, soc_pc, soc_port, soc_queue, soc_wire, soc_open,
            soc_i, soc_want, soc_got, soc_buf, soc_replies, soc_lost, soc_short>>
mcVars == <<demo, vars, muxVars, socVars>>

MCInit ==
    /\ demo \in {"echo", "pipes", "sockets"}
    /\ mux_api \in IF demo = "pipes" THEN {"select", "poll", "epoll"} ELSE {"select"}
    /\ Init /\ Mux!Init /\ Sock!Init

MCNext ==
    \/ demo = "echo" /\ Next /\ UNCHANGED <<demo, muxVars, socVars>>
    \/ demo = "pipes" /\ Mux!Next /\ UNCHANGED <<demo, vars, socVars>>
    \/ demo = "sockets" /\ Sock!Next /\ UNCHANGED <<demo, vars, muxVars>>

\* Every process is scheduled, and epoll_wait's timeout runs out in the end
\* when nothing else happens; the timeouts of the pipe loops are never forced.
MCFairness ==
    /\ WF_vars(demo = "echo" /\ (section6_echo_server \/ idle_timeout))
    /\ WF_vars(demo = "echo" /\ reap_client)
    /\ \A c \in Clients : WF_vars(demo = "echo" /\ client(c))
    /\ WF_muxVars(demo = "pipes" /\ Mux!parent)
    /\ \A k \in Mux!Kids : WF_muxVars(demo = "pipes" /\ Mux!child(k))
    /\ WF_socVars(demo = "sockets" /\ Sock!server)
    /\ WF_socVars(demo = "sockets" /\ Sock!client)

MCSpec == MCInit /\ [][MCNext]_mcVars /\ MCFairness

-----------------------------------------------------------------------------
(***************************************************************************)
(* The three loops over two writers agree: the blocking read of a reported *)
(* descriptor does not block, nothing closed is waited for, no sibling     *)
(* keeps a pipe from its end of file, a loop that does not time out has    *)
(* read the messages of the children there are, all of which are reaped,   *)
(* and only epoll's timeout leaves a read end open.                        *)
(***************************************************************************)
NoBlockingRead ==
    /\ Mux!NoBlockingRead /\ Mux!InterestIsOpen /\ Mux!WriteEndsPrivate
    /\ Mux!BothRead /\ Mux!AllReaped /\ Mux!ClosedUnlessEpollTimeout

(***************************************************************************)
(* All clients that connected are accounted for while they come and go:    *)
(* the counters agree with the open connections, and the server stops only *)
(* when every client was served or it idled out.                           *)
(***************************************************************************)
ServedInFull == CountersAgree /\ StopsOnlyWhenServed

(***************************************************************************)
(* However recv splits and joins what was sent, each reply is the echo of  *)
(* its message, next to a killed client too; only the last may be cut, by  *)
(* a short send; and no byte is left over.                                 *)
(***************************************************************************)
RightReply == Sock!RightReply

(***************************************************************************)
(* Every loop ends and every child is reaped, timeout or not, unless poll  *)
(* is left with a pipe whose writer could not be forked, where it spins;   *)
(* the echo server and its clients finish unless it idled out with a       *)
(* client still connected; the socket sections finish, though a client is  *)
(* killed half-way, unless the client was lost before it connected or sent *)
(* its datagram, a datagram was lost, or a short send leaves both sides    *)
(* waiting.  Each exception is a state the program cannot leave by itself. *)
(***************************************************************************)
Terminates ==
    <>(\/ demo = "pipes" /\ (mux_pc = "done" \/ Mux!Spinning)
       \/ /\ demo = "sockets"
          /\ soc_section = "done" \/ Sock!Abandoned \/ Sock!Unanswered \/ Sock!Starved
       \/ demo = "echo" /\ (spc = "done" \/ IdledOut))
=============================================================================
