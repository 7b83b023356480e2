------------------------------- MODULE Sockets -------------------------------
(***************************************************************************)
(* Exercise 26, sections 2 to 4, in the order main runs them: a TCP echo,  *)
(* a UDP echo and a Unix-domain echo, each between the parent (server) and *)
(* a forked child (client).                                                *)
(*                                                                         *)
(* A stream is a sequence of bytes and recv returns any non-empty prefix   *)
(* of what has arrived, so message boundaries exist only through send_msg  *)
(* and recv_msg.  Bytes are small numbers, a message is a sequence of      *)
(* them, and a length is kept modulo BYTE as the uint8_t in the code is.   *)
(*                                                                         *)
(* The fork may fail, which the code does not look at, the client may fail *)
(* to connect or be killed at any step, a send may be short and a datagram *)
(* may be lost.                                                            *)
(***************************************************************************)
EXTENDS Naturals, Sequences, SequencesExt

CONSTANTS BYTE,       \* number of byte values (256)
          BUFSZ,      \* receive buffers (64)
          ECHOSZ,     \* the server's formatting buffer (80)
          PREFIX,     \* "[echo] "
          TcpMsgs,    \* client_msgs
          UdpMsgs,    \* the one message of the UDP section
          UnixMsgs,   \* the one message of the Unix-domain section
          Garbage,        \* what an uninitialised buffer may hold
          ClientMayDie,   \* a client may be killed, or never come to be
          MayBeShort,     \* a send may transfer fewer bytes than asked for
          MayLose         \* a datagram may be lost

Msgs == [tcp |-> TcpMsgs, unix |-> UnixMsgs, udp |-> UdpMsgs]

\* What the program's own messages satisfy: there are some, one in the UDP
\* section, and the echo of each fits the buffers.
MessagesFit ==
    /\ BYTE \in Nat /\ BUFSZ \in Nat /\ ECHOSZ \in Nat /\ BUFSZ <= BYTE
    /\ PREFIX \in Seq(Nat) /\ PREFIX # <<>> /\ Garbage \subseteq Seq(Nat)
    /\ TcpMsgs # <<>> /\ UnixMsgs # <<>> /\ Len(UdpMsgs) = 1
    /\ \A s \in DOMAIN Msgs : /\ Msgs[s] \in Seq(Seq(Nat))
                             /\ \A k \in DOMAIN Msgs[s] :
                                    /\ Len(PREFIX) + Len(Msgs[s][k]) < BUFSZ
                                    /\ Len(PREFIX) + Len(Msgs[s][k]) < ECHOSZ

Procs == {"client", "server"}
Peer(p) == IF p = "client" THEN "server" ELSE "client"

VARIABLES section,
          pc,         \* where each process is
          port,       \* "none", or "sent" through the pipe
          queue,      \* the client is in the listening socket's backlog
          wire,       \* wire[p]: bytes (or datagrams) on their way to p
          open,       \* processes whose connected socket is open
          i,          \* loop counter of each process
          want,       \* bytes recv_all still has to reach
          got,        \* bytes recv_all has so far
          buf,        \* each process's message buffer
          replies,    \* what the client has received in this section
          lost,       \* a UDP datagram was lost
          short       \* a send was short

vars == <<section, pc, port, queue, wire, open, i, want, got, buf, replies, lost, short>>

Start(s) ==
    /\ section' = s
    /\ pc' = [p \in Procs |-> IF s = "done" THEN "done"
                              ELSE IF p = "client" THEN "unborn" ELSE "fork"]
    /\ port' = "none" /\ queue' = FALSE
    /\ wire' = [p \in Procs |-> <<>>]
    /\ open' = {}
    /\ i' = [p \in Procs |-> 1]
    /\ want' = [p \in Procs |-> 1]
    /\ got' = [p \in Procs |-> <<>>] /\ buf' \in [Procs -> Garbage]
    /\ replies' = <<>>
    /\ lost' = FALSE /\ short' = FALSE

Init ==
    /\ section = "tcp"
    /\ pc = [p \in Procs |-> IF p = "client" THEN "unborn" ELSE "fork"]
    /\ port = "none" /\ queue = FALSE
    /\ wire = [p \in Procs |-> <<>>]
    /\ open = {}
    /\ i = [p \in Procs |-> 1]
    /\ want = [p \in Procs |-> 1]
    /\ got = [p \in Procs |-> <<>>] /\ buf \in [Procs -> Garbage]
    /\ replies = <<>>
    /\ lost = FALSE /\ short = FALSE

At(p, here, next) == pc[p] = here /\ pc' = [pc EXCEPT ![p] = next]

-----------------------------------------------------------------------------
(* Setting up: make_server has bound and listened before the fork *)

\* pid_t pid = fork(): when it fails there is no client, and the parent goes on.
fork ==
    /\ pc["server"] = "fork"
    /\ \E c \in IF ClientMayDie THEN {"connect", "none"} ELSE {"connect"} :
         pc' = [p \in Procs |-> IF p = "client" THEN c
                               ELSE IF section = "unix" THEN "accept" ELSE "port"]
    /\ UNCHANGED <<section, port, queue, wire, open, i, want, got, buf, replies,
                   lost, short>>

\* A client that is not, or no longer, there.
Gone == {"none", "killed", "exited"}

\* write(pp[1], &port): the Unix-domain section has a path instead.  main
\* ignores SIGPIPE, so that without a client the write fails and that is all.
hand_over_port ==
    /\ At("server", "port", IF section = "udp" THEN "recvfrom" ELSE "accept")
    /\ port' = "sent"
    /\ UNCHANGED <<section, queue, wire, open, i, want, got, buf, replies, lost,
                   short>>

make_client ==
    /\ section = "unix" \/ port = "sent"
    /\ At("client", "connect", IF section = "udp" THEN "sendto" ELSE "send_len")
    /\ queue' = (section # "udp")
    /\ open' = open \cup {"client"}
    /\ UNCHANGED <<section, port, wire, i, want, got, buf, replies, lost, short>>

\* connect() failed: exit(1).  The Unix-domain client does not look, every
\* call on its unconnected socket fails, and it exits just so.
make_client_fails ==
    /\ ClientMayDie
    /\ section = "unix" \/ (section = "tcp" /\ port = "sent")
    /\ At("client", "connect", "exited")
    /\ UNCHANGED <<section, port, queue, wire, open, i, want, got, buf, replies,
                   lost, short>>

accept ==
    /\ queue
    /\ At("server", "accept", "recv_len")
    /\ queue' = FALSE
    /\ open' = open \cup {"server"}
    /\ UNCHANGED <<section, port, wire, i, want, got, buf, replies, lost, short>>

-----------------------------------------------------------------------------
(* Framing *)

\* snprintf(echo, sizeof echo, server_echo_fmt, buf): truncated to the buffer
echo(m) == SubSeq(PREFIX \o m, 1, IF Len(PREFIX \o m) < ECHOSZ
                                  THEN Len(PREFIX \o m) ELSE ECHOSZ - 1)

outgoing(p) == IF p = "client" THEN Msgs[section][i[p]] ELSE echo(buf[p])

\* send() to a peer that has gone transfers nothing; MSG_NOSIGNAL.
send(p, bytes) ==
    wire' = IF Peer(p) \in open \/ queue
            THEN [wire EXCEPT ![Peer(p)] = @ \o bytes] ELSE wire

after_send(p) == IF p = "client" THEN "recv_len" ELSE "next"

send_len(p) ==
    /\ At(p, "send_len", "send_body")
    /\ send(p, <<Len(outgoing(p)) % BYTE>>)
    /\ UNCHANGED <<section, port, queue, open, i, want, got, buf, replies, lost,
                   short>>

send_body(p) ==
    /\ At(p, "send_body", after_send(p))
    /\ send(p, SubSeq(outgoing(p), 1, Len(outgoing(p)) % BYTE))
    /\ want' = [want EXCEPT ![p] = 1]
    /\ got' = [got EXCEPT ![p] = <<>>]
    /\ UNCHANGED <<section, port, queue, open, i, buf, replies, lost, short>>

\* send() returned less than the length, which send_msg does not look at.
send_short(p) ==
    /\ MayBeShort
    /\ At(p, "send_body", after_send(p))
    /\ \E k \in 1 .. (Len(outgoing(p)) % BYTE) - 1 : send(p, SubSeq(outgoing(p), 1, k))
    /\ want' = [want EXCEPT ![p] = 1]
    /\ got' = [got EXCEPT ![p] = <<>>]
    /\ short' = TRUE
    /\ UNCHANGED <<section, port, queue, open, i, buf, replies, lost>>

\* send_msg: the length byte, then that many bytes of the message.
send_msg(p) == send_len(p) \/ send_body(p) \/ send_short(p)

eof(p) == wire[p] = <<>> /\ Peer(p) \notin open /\ ~queue

\* One round of recv_all's loop: any non-empty prefix of what has arrived.
recv_some(p) ==
    /\ pc[p] \in {"recv_len", "recv_body"}
    /\ \E k \in 1 .. Len(wire[p]) :
         /\ k <= want[p] - Len(got[p])
         /\ got' = [got EXCEPT ![p] = @ \o SubSeq(wire[p], 1, k)]
         /\ wire' = [wire EXCEPT ![p] = SubSeq(@, k + 1, Len(@))]
    /\ UNCHANGED <<section, pc, port, queue, open, i, want, buf, replies, lost,
                   short>>

\* Wrong: a single recv() is taken for the whole message.
recv_all_returns_short(p) == Len(got[p]) > 0 \/ want[p] = 0 \/ eof(p)

\* recv_all returns with all bytes, or short at end of file.
recv_all_returns(p) == Len(got[p]) = want[p] \/ eof(p)

\* The header: no byte means the peer has gone, and buf is left as it is.
recv_len(p) ==
    /\ pc[p] = "recv_len" /\ recv_all_returns(p)
    /\ IF Len(got[p]) = 1
       THEN /\ want' = [want EXCEPT ![p] = IF got[p][1] >= BUFSZ
                                           THEN BUFSZ - 1 ELSE got[p][1]]
            /\ pc' = [pc EXCEPT ![p] = "recv_body"]
       ELSE /\ pc' = [pc EXCEPT ![p] = IF p = "server" THEN "send_len" ELSE "next"]
            /\ UNCHANGED want
    /\ got' = [got EXCEPT ![p] = <<>>]
    /\ UNCHANGED <<section, port, queue, wire, open, i, buf, replies, lost, short>>

recv_body(p) ==
    /\ pc[p] = "recv_body" /\ recv_all_returns(p)
    /\ buf' = [buf EXCEPT ![p] = got[p]]
    /\ replies' = IF p = "client" THEN Append(replies, got[p]) ELSE replies
    /\ pc' = [pc EXCEPT ![p] = IF p = "server" THEN "send_len" ELSE "next"]
    /\ UNCHANGED <<section, port, queue, wire, open, i, want, got, lost, short>>

recv_msg(p) == recv_some(p) \/ recv_len(p) \/ recv_body(p)

\* The two for (i < NMSGS) loops.
next_message(p) ==
    /\ pc[p] = "next"
    /\ IF i[p] < Len(Msgs[section])
       THEN /\ i' = [i EXCEPT ![p] = @ + 1]
            /\ pc' = [pc EXCEPT ![p] = IF p = "client" THEN "send_len" ELSE "recv_len"]
       ELSE /\ pc' = [pc EXCEPT ![p] = "close"]
            /\ UNCHANGED i
    /\ UNCHANGED <<section, port, queue, wire, open, want, got, buf, replies, lost,
                   short>>

close_socket(p) ==
    /\ At(p, "close", IF p = "client" THEN "exited" ELSE "waitpid")
    /\ open' = open \ {p}
    /\ UNCHANGED <<section, port, queue, wire, i, want, got, buf, replies, lost,
                   short>>

\* waitpid, and main goes on to the next section.
server_waitpid ==
    /\ pc["server"] = "waitpid" /\ pc["client"] \in Gone
    /\ Start(CASE section = "tcp" -> "udp" [] section = "udp" -> "unix"
               [] section = "unix" -> "done")

-----------------------------------------------------------------------------
(* section_udp: one datagram each way, boundaries preserved, no delivery *)

sendto(p) ==
    /\ At(p, "sendto", IF p = "client" THEN "recvfrom" ELSE "close")
    /\ \/ /\ wire' = [wire EXCEPT ![Peer(p)] =
                Append(@, IF p = "client" THEN Msgs["udp"][1] ELSE echo(buf[p]))]
          /\ UNCHANGED lost
       \/ MayLose /\ lost' = TRUE /\ UNCHANGED wire
    /\ UNCHANGED <<section, port, queue, open, i, want, got, buf, replies, short>>

recvfrom(p) ==
    /\ wire[p] # <<>>
    /\ At(p, "recvfrom", IF p = "client" THEN "close" ELSE "sendto")
    /\ buf' = [buf EXCEPT ![p] = Head(wire[p])]
    /\ replies' = IF p = "client" THEN <<Head(wire[p])>> ELSE replies
    /\ wire' = [wire EXCEPT ![p] = Tail(@)]
    /\ UNCHANGED <<section, port, queue, open, i, want, got, lost, short>>

-----------------------------------------------------------------------------
\* The client is killed: its socket closes, what it sent arrives.
client_dies ==
    /\ ClientMayDie
    /\ pc["client"] \notin Gone \cup {"unborn", "done"}
    /\ pc' = [pc EXCEPT !["client"] = "killed"]
    /\ open' = open \ {"client"}
    /\ UNCHANGED <<section, port, queue, wire, i, want, got, buf, replies, lost,
                   short>>

transfer(p) ==
    \/ send_msg(p) \/ recv_msg(p) \/ next_message(p) \/ close_socket(p)
    \/ sendto(p) \/ recvfrom(p)

server == fork \/ hand_over_port \/ accept \/ transfer("server") \/ server_waitpid

client == make_client \/ make_client_fails \/ transfer("client")

Next == server \/ client \/ client_dies \/ (section = "done" /\ UNCHANGED vars)

Spec == Init /\ [][Next]_vars

-----------------------------------------------------------------------------
(***************************************************************************)
(* However recv splits and joins what was sent, the j-th reply is the echo *)
(* of the j-th message, also next to a killed client: framing never slips  *)
(* by a byte.  Only the last reply of a connection may be cut, when a send *)
(* was short.  A client that connected and was not killed leaves with as   *)
(* many replies as it sent messages, and no byte is left over.             *)
(***************************************************************************)
RightReply ==
    /\ \A j \in DOMAIN replies :
         \/ replies[j] = echo(Msgs[section][j])
         \/ /\ short /\ j = Len(Msgs[section])
            /\ \E k \in 0 .. Len(echo(Msgs[section][j])) :
                 replies[j] = SubSeq(echo(Msgs[section][j]), 1, k)
    /\ pc["server"] = "waitpid" /\ pc["client"] = "exited"
         => /\ Len(replies) = Len(Msgs[section])
            /\ wire = [p \in Procs |-> <<>>]

-----------------------------------------------------------------------------
(* Where the sections may wait for ever: no call has a timeout *)

\* The client was lost before it connected, or before its datagram left.
Abandoned ==
    /\ pc["client"] \in Gone
    /\ \/ pc["server"] = "accept" /\ ~queue
       \/ pc["server"] = "recvfrom" /\ wire["server"] = <<>>

\* A datagram was lost and the client waits for an answer that will not come.
Unanswered ==
    /\ lost /\ pc["client"] = "recvfrom" /\ wire["client"] = <<>>
    /\ \/ pc["server"] = "recvfrom" /\ wire["server"] = <<>>
       \/ pc["server"] = "waitpid"

\* After a short send each side waits for the other's bytes.
Starved ==
    /\ short
    /\ \A p \in Procs : /\ pc[p] \in {"recv_len", "recv_body"} /\ p \in open
                        /\ wire[p] = <<>> /\ Len(got[p]) < want[p]

==============================================================================
