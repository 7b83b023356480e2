-------------------------- MODULE MultiplexingProofs --------------------------
(***************************************************************************)
(* Proofs about exercise 28, the epoll echo server for any number of       *)
(* clients, with or without the idle timeout, and the select, poll and     *)
(* epoll loops over two writers; and about exercise 26, the framed echo    *)
(* over a stream for any messages and any way recv cuts them.              *)
(***************************************************************************)
EXTENDS MCMultiplexing, FiniteSetTheorems, SequenceTheorems, TLAPS

\* Every non-empty set of naturals has a least element, as the smallest free descriptor is.
LEMMA Least == ASSUME NEW T \in SUBSET Nat, T # {} PROVE \E x \in T : \A y \in T : x <= y
<1> DEFINE R == OpToRel(<, Nat)
<1>1. IsWellFoundedOn(R, Nat)
  BY NatLessThanWellFounded
<1>2. PICK x \in T : \A y \in T : ~(<<y, x>> \in R)
  <2> HIDE DEF R
  <2> QED BY <1>1, WFMin
<1>3. \A y \in T : ~(y < x)
  BY <1>2 DEF OpToRel
<1> QED BY <1>3

\* The listening socket is open; and the clients the server has ever accepted.
Listening == {"wait", "handle", "accept", "close"}
Accepted == {conn[f] : f \in open} \cup (reset \ backlog)

\* Types of the state of server and clients.
EchTypeOK ==
    /\ cpc \in [Clients -> {"sleep", "write", "read", "close", "exited"}]
    /\ reply \in [Clients -> 0 .. NUM_CLIENTS]
    /\ outbox \in [Clients -> 0 .. NUM_CLIENTS]
    /\ conn \in [Fds -> 0 .. NUM_CLIENTS]
    /\ backlog \subseteq Clients /\ inbox \subseteq Clients
    /\ fin \subseteq Clients /\ reset \subseteq Clients
    /\ spc \in Listening \cup {"waitpid", "done"}

\* Connections: one descriptor each, and none for a client that is waiting or gone.
EchConns ==
    /\ \A f, g \in open : conn[f] = conn[g] => f = g
    /\ \A f \in open : conn[f] \notin backlog \cup reset
    /\ spc \in Listening => backlog \cap reset = {}
    /\ \A c \in Clients : cpc[c] = "sleep" =>
         c \notin backlog \cup reset \cup fin \cup inbox \cup {conn[f] : f \in open}

\* A reported event is still about the connection it was reported for.
EchEvents ==
    /\ \A e \in events :
         /\ e.fd \in 0 .. NUM_CLIENTS
         /\ e.fd # LFD => /\ conn[e.fd] \in Clients /\ conn[e.fd] \in inbox \cup fin
                          /\ e.hup => conn[e.fd] \in fin
                          /\ e.of = conn[e.fd]
    /\ \A e, d \in events : e.fd = d.fd => e = d

\* What was written to a client is its own message, and who left without a timeout has it.
EchReplies ==
    \A c \in Clients :
      /\ outbox[c] \in {0, c} /\ reply[c] \in {0, outbox[c]}
      /\ c \in fin => cpc[c] = "exited"
      /\ ~timedout => /\ cpc[c] = "close" \/ c \in fin => reply[c] = c
                      /\ c \in reset => c \in fin

\* Without a timeout the loop ends when all clients have come and gone.
EchStops ==
    ~timedout /\ spc \in {"close", "waitpid", "done"}
      => open = {} /\ reset = Clients /\ backlog = {}

(***************************************************************************)
(* The inductive invariant of the echo server.  It is needed because       *)
(* neither property is inductive: that the last reply is in when the loop  *)
(* ends follows from what each open descriptor, each pending event and     *)
(* each client's point say about each other.                               *)
(***************************************************************************)
EchInv == EchTypeOK /\ EchConns /\ EchEvents /\ EchReplies /\ EchStops /\ CountersAgree

\* As many descriptors as clients, and descriptor and client numbers are not 0.
LEMMA ClientNumbers ==
    /\ NUM_CLIENTS \in Nat /\ IsFiniteSet(Clients) /\ Cardinality(Clients) = NUM_CLIENTS
    /\ IsFiniteSet(Fds) /\ Cardinality(Fds) = NUM_CLIENTS
    /\ \A c \in Clients : c \in Nat /\ c # 0
    /\ \A f \in Fds : f \in Nat /\ f # LFD
<1>1. NUM_CLIENTS \in Nat /\ 1 \in Int /\ NUM_CLIENTS \in Int /\ NUM_CLIENTS > 0
  BY ClientsAssumption
<1>2. IsFiniteSet(1 .. NUM_CLIENTS) /\ Cardinality(1 .. NUM_CLIENTS) = NUM_CLIENTS
  BY <1>1, FS_Interval
<1> QED
  BY <1>1, <1>2 DEF Clients, Fds, LFD

\* The invariant holds when the server enters its loop.
LEMMA EchInit == ASSUME Init PROVE EchInv
<1>1. open = {}
  BY DEF Init, open
<1>2. Accepted = {} /\ CountersAgree
  BY <1>1, FS_EmptySet DEF Init, CountersAgree, Accepted
<1>3. timedout = FALSE /\ spc = "wait"
  BY DEF Init
<1>4. EchTypeOK
  BY ClientNumbers DEF Init, EchTypeOK, Listening
<1>5. EchConns
  BY <1>1 DEF Init, EchConns
<1>6. EchEvents
  BY DEF Init, EchEvents
<1>7. EchReplies
  BY DEF Init, EchReplies
<1>8. EchStops
  BY DEF Init, EchStops
<1> QED
  BY <1>2, <1>4, <1>5, <1>6, <1>7, <1>8 DEF EchInv

\* A client is waiting in the backlog, so not all descriptors are in use: accept finds one.
LEMMA FreeDescriptor ==
    ASSUME EchTypeOK, EchConns, backlog # {}
    PROVE  Min(Fds \ open) \in Fds \ open
<1>1. PICK c \in backlog : TRUE
  OBVIOUS
<1>2. c \in Clients
  BY DEF EchTypeOK
<1>3. Fds \ open # {}
  <2> SUFFICES ASSUME Fds \ open = {} PROVE FALSE
    OBVIOUS
  <2>1. conn \in Injection(Fds, Clients \ {c})
    <3>1. \A f \in Fds : f \in open
      OBVIOUS
    <3>2. \A f \in Fds : conn[f] \in Clients /\ conn[f] # c
      BY <1>1, <3>1, ClientNumbers DEF EchTypeOK, EchConns, open, Clients
    <3>3. conn \in [Fds -> Clients \ {c}]
      BY <3>2 DEF EchTypeOK
    <3>4. \A f, g \in Fds : conn[f] = conn[g] => f = g
      BY <3>1 DEF EchConns
    <3> QED
      BY <3>3, <3>4 DEF Injection, IsInjective
  <2>2. IsFiniteSet(Clients \ {c}) /\ Cardinality(Clients \ {c}) = NUM_CLIENTS - 1
    BY <1>2, ClientNumbers, FS_RemoveElement
  <2>3. NUM_CLIENTS <= NUM_CLIENTS - 1
    BY <2>1, <2>2, ClientNumbers, FS_Injection
  <2> QED
    BY <2>3, ClientNumbers
<1>4. Fds \ open \in SUBSET Nat
  BY ClientNumbers
<1>5. \E x \in Fds \ open : \A y \in Fds \ open : x <= y
  BY <1>3, <1>4, Least
<1> QED
  BY <1>5 DEF Min

(***************************************************************************)
(* Every step of the server and of the clients keeps it: a client connects *)
(* at any time, one batch of events closes a descriptor that accept hands  *)
(* out again, the loop idles out with clients still connected.             *)
(***************************************************************************)
LEMMA EchStep == ASSUME EchInv, [Next]_vars PROVE EchInv'
<1> USE DEF EchInv
<1>1. CASE UNCHANGED vars
  BY <1>1 DEF vars, EchTypeOK, EchConns, EchEvents, EchReplies, EchStops,
              CountersAgree, open
<1>2. ASSUME NEW c \in Clients, connect(c) PROVE EchInv'
  <2> USE <1>2 DEF connect
  <2>1. EchTypeOK'
    BY ClientNumbers DEF EchTypeOK, Listening
  <2>2. EchConns'
    BY ClientNumbers DEF EchTypeOK, EchConns, Listening, open
  <2>3. EchEvents'
    BY ClientNumbers DEF EchTypeOK, EchEvents
  <2>4. EchReplies'
    <3>1. cpc[c] = "sleep" /\ c \notin fin
      BY DEF EchConns
    <3>2. CASE cpc' = [cpc EXCEPT ![c] = "write"]
      BY <3>1, <3>2 DEF EchTypeOK, EchReplies
    <3>3. CASE cpc' = [cpc EXCEPT ![c] = "exited"]
      BY <3>1, <3>3 DEF EchTypeOK, EchReplies
    <3> QED
      BY <3>2, <3>3
  <2>5. EchStops'
    BY ClientNumbers DEF EchTypeOK, EchConns, EchStops, open
  <2>6. CountersAgree'
    <3>1. reset \ backlog' = reset \ backlog
      BY DEF EchConns
    <3>2. open' = open /\ conn' = conn /\ reset' = reset
      BY DEF open
    <3> QED
      BY <3>1, <3>2 DEF CountersAgree
  <2> QED
    BY <2>1, <2>2, <2>3, <2>4, <2>5, <2>6
<1>3. ASSUME NEW c \in Clients, client_write(c) PROVE EchInv'
  <2> USE <1>3 DEF client_write
  <2>1. EchTypeOK'
    BY ClientNumbers DEF EchTypeOK, Listening
  <2>2. EchConns'
    BY ClientNumbers DEF EchTypeOK, EchConns, Listening, open
  <2>3. EchEvents'
    BY ClientNumbers DEF EchTypeOK, EchEvents
  <2>4. EchReplies'
    BY ClientNumbers DEF EchTypeOK, EchReplies
  <2>5. EchStops'
    BY ClientNumbers DEF EchTypeOK, EchConns, EchStops, open
  <2>6. CountersAgree'
    BY ClientNumbers DEF CountersAgree, Accepted, open
  <2> QED
    BY <2>1, <2>2, <2>3, <2>4, <2>5, <2>6
<1>4. ASSUME NEW c \in Clients, client_read(c) PROVE EchInv'
  <2> USE <1>4 DEF client_read
  <2>1. EchTypeOK'
    BY ClientNumbers DEF EchTypeOK, Listening
  <2>2. EchConns'
    BY ClientNumbers DEF EchTypeOK, EchConns, Listening, open
  <2>3. EchEvents'
    BY ClientNumbers DEF EchTypeOK, EchEvents
  <2>4. EchReplies'
    BY ClientNumbers DEF EchTypeOK, EchReplies
  <2>5. EchStops'
    BY ClientNumbers DEF EchTypeOK, EchConns, EchStops, open
  <2>6. CountersAgree'
    BY ClientNumbers DEF CountersAgree, Accepted, open
  <2> QED
    BY <2>1, <2>2, <2>3, <2>4, <2>5, <2>6
<1>5. ASSUME NEW c \in Clients, client_close(c) PROVE EchInv'
  <2> USE <1>5 DEF client_close
  <2>1. EchTypeOK'
    BY ClientNumbers DEF EchTypeOK, Listening
  <2>2. EchConns'
    BY ClientNumbers DEF EchTypeOK, EchConns, Listening, open
  <2>3. EchEvents'
    BY ClientNumbers DEF EchTypeOK, EchEvents
  <2>4. EchReplies'
    BY ClientNumbers DEF EchTypeOK, EchReplies
  <2>5. EchStops'
    BY ClientNumbers DEF EchTypeOK, EchConns, EchStops, open
  <2>6. CountersAgree'
    BY ClientNumbers DEF CountersAgree, Accepted, open
  <2> QED
    BY <2>1, <2>2, <2>3, <2>4, <2>5, <2>6
<1>6. CASE reap_client
  <2> USE <1>6 DEF reap_client
  <2>1. EchTypeOK'
    BY ClientNumbers DEF EchTypeOK, Listening
  <2>2. EchConns'
    BY ClientNumbers DEF EchTypeOK, EchConns, Listening, open
  <2>3. EchEvents'
    BY ClientNumbers DEF EchTypeOK, EchEvents
  <2>4. EchReplies'
    BY ClientNumbers DEF EchTypeOK, EchReplies
  <2>5. EchStops'
    BY ClientNumbers DEF EchTypeOK, EchConns, EchStops, open
  <2>6. CountersAgree'
    BY ClientNumbers DEF CountersAgree, Accepted, open
  <2> QED
    BY <2>1, <2>2, <2>3, <2>4, <2>5, <2>6
<1>7. CASE epoll_wait
  <2> USE <1>7 DEF epoll_wait, pending
  <2>1. EchTypeOK'
    BY ClientNumbers DEF EchTypeOK, Listening
  <2>2. EchConns'
    BY ClientNumbers DEF EchTypeOK, EchConns, Listening, open
  <2>3. EchEvents'
    <3>1. ASSUME NEW e \in pending
          PROVE  \/ e = [fd |-> LFD, hup |-> FALSE, of |-> 0]
                 \/ \E f \in open : /\ conn[f] \in inbox \cup fin
                                     /\ e = [fd |-> f, hup |-> conn[f] \in fin, of |-> conn[f]]
      BY <3>1
    <3>2. \A f \in open : f \in Fds /\ f # LFD /\ f \in 0 .. NUM_CLIENTS /\ conn[f] \in Clients
      BY ClientNumbers DEF EchTypeOK, open, Fds, Clients
    <3> HIDE DEF pending
    <3>3. ASSUME NEW e \in pending
          PROVE  /\ e.fd \in 0 .. NUM_CLIENTS
                 /\ e.fd # LFD => /\ conn[e.fd] \in Clients /\ conn[e.fd] \in inbox \cup fin
                                  /\ e.hup => conn[e.fd] \in fin
                                  /\ e.of = conn[e.fd]
      <4>1. CASE e = [fd |-> LFD, hup |-> FALSE, of |-> 0]
        <5>1. e.fd = LFD
          BY <4>1
        <5> QED
          BY <5>1, ClientNumbers DEF LFD
      <4>2. ASSUME NEW f \in open, conn[f] \in inbox \cup fin,
                   e = [fd |-> f, hup |-> conn[f] \in fin, of |-> conn[f]]
            PROVE  e.fd = f /\ (e.hup => conn[e.fd] \in fin) /\ e.of = conn[e.fd]
        <5>1. e.fd = f /\ e.hup = (conn[f] \in fin) /\ e.of = conn[f]
          BY <4>2, Zenon
        <5> QED
          BY <5>1
      <4> QED
        BY <3>1, <3>2, <4>1, <4>2
    <3>4. ASSUME NEW e \in pending, NEW d \in pending, e.fd = d.fd PROVE e = d
      <4>1. \A a \in pending :
              /\ a.fd = LFD => a = [fd |-> LFD, hup |-> FALSE, of |-> 0]
              /\ a.fd # LFD => a = [fd |-> a.fd, hup |-> conn[a.fd] \in fin, of |-> conn[a.fd]]
        <5> SUFFICES ASSUME NEW a \in pending
                     PROVE  /\ a.fd = LFD => a = [fd |-> LFD, hup |-> FALSE, of |-> 0]
                            /\ a.fd # LFD => a = [fd |-> a.fd, hup |-> conn[a.fd] \in fin, of |-> conn[a.fd]]
          OBVIOUS
        <5>1. CASE a = [fd |-> LFD, hup |-> FALSE, of |-> 0]
          BY <5>1
        <5>2. ASSUME NEW f \in open, a = [fd |-> f, hup |-> conn[f] \in fin, of |-> conn[f]]
              PROVE  a.fd = f
          BY <5>2, Zenon
        <5>3. ASSUME NEW f \in open, a = [fd |-> f, hup |-> conn[f] \in fin, of |-> conn[f]]
              PROVE  a.fd # LFD /\ a = [fd |-> a.fd, hup |-> conn[a.fd] \in fin, of |-> conn[a.fd]]
          BY <3>2, <5>2, <5>3, Zenon
        <5> QED
          BY <3>1, <5>1, <5>3
      <4> QED
        BY <3>4, <4>1, Zenon
    <3>5. events' = pending /\ conn' = conn /\ inbox' = inbox /\ fin' = fin
      OBVIOUS
    <3> QED
      BY <3>3, <3>4, <3>5 DEF EchEvents
  <2>4. EchReplies'
    BY ClientNumbers DEF EchTypeOK, EchReplies
  <2>5. EchStops'
    BY ClientNumbers DEF EchTypeOK, EchConns, EchStops, open
  <2>6. CountersAgree'
    BY ClientNumbers DEF CountersAgree, Accepted, open
  <2> QED
    BY <2>1, <2>2, <2>3, <2>4, <2>5, <2>6
<1>8. CASE idle_timeout
  <2> USE <1>8 DEF idle_timeout
  <2>1. EchTypeOK'
    BY ClientNumbers DEF EchTypeOK, Listening
  <2>2. EchConns'
    BY ClientNumbers DEF EchTypeOK, EchConns, Listening, open
  <2>3. EchEvents'
    BY ClientNumbers DEF EchTypeOK, EchEvents
  <2>4. EchReplies'
    BY ClientNumbers DEF EchTypeOK, EchReplies
  <2>5. EchStops'
    BY ClientNumbers DEF EchTypeOK, EchConns, EchStops, open
  <2>6. CountersAgree'
    BY ClientNumbers DEF CountersAgree, Accepted, open
  <2> QED
    BY <2>1, <2>2, <2>3, <2>4, <2>5, <2>6
<1>9. ASSUME NEW e \in events, next_event(e) PROVE EchInv'
  <2> USE <1>9 DEF next_event
  <2>1. EchTypeOK'
    BY ClientNumbers DEF EchTypeOK, Listening
  <2>2. EchConns'
    BY ClientNumbers DEF EchTypeOK, EchConns, Listening, open
  <2>3. EchEvents'
    BY ClientNumbers DEF EchTypeOK, EchEvents
  <2>4. EchReplies'
    BY ClientNumbers DEF EchTypeOK, EchReplies
  <2>5. EchStops'
    BY ClientNumbers DEF EchTypeOK, EchConns, EchStops, open
  <2>6. CountersAgree'
    BY ClientNumbers DEF CountersAgree, Accepted, open
  <2> QED
    BY <2>1, <2>2, <2>3, <2>4, <2>5, <2>6
<1>10. CASE accept_one
  <2>1. PICK c \in backlog : new_connection(c)
    BY <1>10 DEF accept_one
  <2>2. PICK f : f = Min(Fds \ open)
    OBVIOUS
  <2>3. /\ f \in Fds /\ f \notin open /\ c \in Clients /\ c # 0
        /\ conn' = [conn EXCEPT ![f] = c] /\ backlog' = backlog \ {c}
        /\ spc = "accept" /\ active' = active + 1 /\ total_seen' = total_seen + 1
        /\ UNCHANGED <<cpc, reply, inbox, outbox, fin, reset, spc, events,
                       timedout, waiter>>
    BY <1>10, <2>1, <2>2, FreeDescriptor, ClientNumbers DEF EchTypeOK, accept_one,
                                                            new_connection
  <2>4. conn[f] = 0 /\ conn'[f] = c /\ \A g \in Fds : g # f => conn'[g] = conn[g]
    BY <2>3 DEF EchTypeOK, open
  <2>5. open' = open \cup {f}
    BY <2>3, <2>4 DEF open
  <2>6. {conn'[g] : g \in open'} = {conn[g] : g \in open} \cup {c}
    <3>1. open \subseteq Fds
      BY DEF open
    <3> QED
      BY <2>3, <2>4, <2>5, <3>1
  <2>7. c \notin reset /\ c \notin {conn[g] : g \in open}
    BY <2>1, <2>3 DEF EchConns, Listening
  <2>8. EchTypeOK'
    BY <2>3 DEF EchTypeOK, Clients
  <2>9. EchConns'
    BY <2>1, <2>3, <2>4, <2>5, <2>6, <2>7 DEF EchTypeOK, EchConns, Listening, open
  <2>10. EchEvents'
    <3>1. \A e \in events : e.fd # LFD => e.fd \in Fds /\ conn'[e.fd] = conn[e.fd]
      <4> SUFFICES ASSUME NEW e \in events, e.fd # LFD PROVE e.fd \in Fds /\ e.fd # f
        BY <2>4
      <4>1. e.fd \in Fds /\ conn[e.fd] # 0
        BY ClientNumbers DEF EchEvents, Fds, LFD
      <4> QED
        BY <2>4, <4>1
    <3> QED
      BY <2>3, <3>1 DEF EchEvents
  <2>11. EchReplies' /\ EchStops'
    BY <2>3 DEF EchReplies, EchStops
  <2>12. CountersAgree'
    <3>1. IsFiniteSet(open) /\ Cardinality(open \cup {f}) = Cardinality(open) + 1
      <4>1. IsFiniteSet(open)
        BY ClientNumbers, FS_Subset DEF open
      <4> QED
        BY <2>3, <4>1, FS_AddElement
    <3>2. Accepted \subseteq Clients /\ c \notin Accepted
      <4>1. \A g \in open : conn[g] \in Clients
        BY DEF EchTypeOK, open, Clients
      <4> QED
        BY <2>1, <2>7, <4>1 DEF EchTypeOK, Accepted
    <3>3. /\ IsFiniteSet(Accepted)
          /\ Cardinality(Accepted \cup {c}) = Cardinality(Accepted) + 1
      BY <3>2, ClientNumbers, FS_Subset, FS_AddElement
    <3>4. {conn'[g] : g \in open'} \cup (reset' \ backlog') = Accepted \cup {c}
      BY <2>3, <2>6, <2>7 DEF Accepted
    <3> QED
      BY <2>3, <2>5, <3>1, <3>3, <3>4 DEF CountersAgree, Accepted
  <2> QED
    BY <2>8, <2>9, <2>10, <2>11, <2>12
<1>11. CASE accept_drained
  <2> USE <1>11 DEF accept_drained, next_spc
  <2>1. EchTypeOK'
    BY ClientNumbers DEF EchTypeOK, Listening
  <2>2. EchConns'
    BY ClientNumbers DEF EchTypeOK, EchConns, Listening, open
  <2>3. EchEvents'
    BY ClientNumbers DEF EchTypeOK, EchEvents
  <2>4. EchReplies'
    BY ClientNumbers DEF EchTypeOK, EchReplies
  <2>5. EchStops'
    BY ClientNumbers DEF EchTypeOK, EchConns, EchStops, open
  <2>6. CountersAgree'
    BY ClientNumbers DEF CountersAgree, Accepted, open
  <2> QED
    BY <2>1, <2>2, <2>3, <2>4, <2>5, <2>6
<1>12. ASSUME NEW e \in events, serve_client(e) PROVE EchInv'
  <2> DEFINE c == conn[e.fd]
             nr == IF c \in inbox THEN 1 ELSE IF c \in fin THEN 0 ELSE -1
             gone == disconnect(nr, e.hup)
  <2>1. /\ e.fd \in Fds /\ c \in Clients /\ c # 0 /\ c \in inbox \cup fin /\ e.fd \in open
        /\ gone => c \in fin
    <3>1. e.fd \in Fds /\ c \in Clients /\ c # 0 /\ c \in inbox \cup fin
      BY <1>12, ClientNumbers DEF serve_client, EchEvents, Fds, LFD
    <3>2. gone => c \in fin
      BY <1>12, <3>1 DEF serve_client, EchEvents, disconnect
    <3> QED
      BY <3>1, <3>2 DEF open
  <2>2. /\ spc = "handle"
        /\ UNCHANGED <<cpc, reply, backlog, fin, total_seen, timedout, waiter>>
        /\ inbox' = inbox \ {c}
        /\ outbox' = outbox \/ outbox' = [outbox EXCEPT ![c] = c]
        /\ events' \subseteq events \ {e}
    BY <1>12 DEF serve_client, echo
  <2>3. /\ ~gone => /\ conn' = conn /\ reset' = reset /\ active' = active
                    /\ spc' \in {"wait", "handle"}
        /\ gone => /\ conn' = [conn EXCEPT ![e.fd] = 0] /\ reset' = reset \cup {c}
                   /\ active' = active - 1
                   /\ \/ spc' \in {"wait", "handle"}
                      \/ spc' = "close" /\ active - 1 = 0 /\ total_seen = NUM_CLIENTS
    BY <1>12 DEF serve_client, all_done, next_spc
  <2> HIDE DEF gone, nr
  <2>4. EchTypeOK'
    <3>1. conn' \in [Fds -> 0 .. NUM_CLIENTS] /\ reset' \subseteq Clients
      BY <2>1, <2>3, ClientNumbers DEF EchTypeOK
    <3>2. outbox' \in [Clients -> 0 .. NUM_CLIENTS] /\ inbox' \subseteq Clients
      <4>1. c \in 0 .. NUM_CLIENTS
        BY <2>1, ClientNumbers DEF Clients
      <4> HIDE DEF c
      <4> QED
        BY <2>1, <2>2, <4>1 DEF EchTypeOK
    <3>3. spc' \in Listening
      BY <2>3 DEF Listening
    <3> QED
      BY <2>2, <3>1, <3>2, <3>3 DEF EchTypeOK
  <2>5. EchReplies'
    BY <2>1, <2>2, <2>3 DEF EchTypeOK, EchReplies
  <2>6. EchEvents'
    <3>1. \A d \in events' : d \in events /\ d.fd # e.fd
      BY <2>2 DEF EchEvents
    <3>2. \A d \in events' : d.fd # LFD => conn'[d.fd] = conn[d.fd] /\ conn[d.fd] # c
      <4> SUFFICES ASSUME NEW d \in events', d.fd # LFD
                   PROVE  conn'[d.fd] = conn[d.fd] /\ conn[d.fd] # c
        OBVIOUS
      <4>1. d.fd \in open /\ d.fd # e.fd
        BY <3>1, ClientNumbers DEF EchEvents, Fds, LFD, open
      <4> QED
        BY <2>1, <2>3, <4>1 DEF EchTypeOK, EchConns, open
    <3> QED
      BY <2>2, <3>1, <3>2 DEF EchEvents
  <2>7. CASE ~gone
    <3>1. EchConns'
      BY <2>2, <2>3, <2>7 DEF EchConns, Listening, open
    <3>2. EchStops'
      BY <2>2, <2>3, <2>7 DEF EchStops
    <3>3. CountersAgree'
      BY <2>2, <2>3, <2>7 DEF CountersAgree, open
    <3> QED
      BY <2>4, <2>5, <2>6, <3>1, <3>2, <3>3
  <2>8. CASE gone
    <3>1. open' = open \ {e.fd} /\ \A g \in open' : conn'[g] = conn[g] /\ conn[g] # c
      BY <2>1, <2>3, <2>8 DEF EchTypeOK, EchConns, open
    <3>2. {conn'[g] : g \in open'} = {conn[g] : g \in open} \ {c}
      BY <2>1, <3>1
    <3>3. c \notin backlog /\ c \notin reset
      BY <2>1 DEF EchConns
    <3>4. EchConns'
      <4>1. \A f, g \in open' : conn'[f] = conn'[g] => f = g
        BY <3>1 DEF EchConns
      <4>2. \A f \in open' : conn'[f] \notin backlog' \cup reset'
        BY <2>2, <2>3, <2>8, <3>1 DEF EchConns
      <4>3. spc' \in Listening => backlog' \cap reset' = {}
        BY <2>2, <2>3, <2>8, <3>3 DEF EchConns, Listening
      <4>4. \A b \in Clients : cpc'[b] = "sleep" =>
              b \notin backlog' \cup reset' \cup fin' \cup inbox' \cup {conn'[f] : f \in open'}
        BY <2>1, <2>2, <2>3, <2>8, <3>2 DEF EchConns
      <4> QED
        BY <4>1, <4>2, <4>3, <4>4 DEF EchConns
    <3>5. CountersAgree'
      <4>1. Cardinality(open \ {e.fd}) = Cardinality(open) - 1
        <5>1. IsFiniteSet(open)
          BY ClientNumbers, FS_Subset DEF open
        <5> QED
          BY <2>1, <5>1, FS_RemoveElement
      <4>2. {conn'[g] : g \in open'} \cup (reset' \ backlog') = Accepted
        BY <2>1, <2>2, <2>3, <2>8, <3>2, <3>3 DEF Accepted
      <4> QED
        BY <2>2, <2>3, <2>8, <3>1, <4>1, <4>2 DEF CountersAgree, Accepted
    <3>6. EchStops'
      <4> SUFFICES ASSUME spc' \in {"close", "waitpid", "done"}
                   PROVE  open' = {} /\ reset' = Clients /\ backlog' = {}
        BY DEF EchStops
      <4>1. active - 1 = 0 /\ total_seen = NUM_CLIENTS
        BY <2>3, <2>8
      <4>2. open' = {}
        <5>1. IsFiniteSet(open') /\ Cardinality(open') = 0
          <6>1. IsFiniteSet(open')
            BY <3>1, ClientNumbers, FS_Subset DEF open
          <6> QED
            BY <2>3, <2>8, <3>5, <4>1, <6>1 DEF CountersAgree
        <5> QED
          BY <5>1, FS_EmptySet
      <4>3. reset' \ backlog' = Clients
        <5>1. Cardinality(reset' \ backlog') = Cardinality(Clients)
          <6>1. {conn'[g] : g \in open'} \cup (reset' \ backlog') = reset' \ backlog'
            BY <4>2
          <6> QED
            BY <2>2, <3>5, <4>1, <6>1, ClientNumbers DEF CountersAgree
        <5>2. reset' \ backlog' \subseteq Clients
          BY <2>4 DEF EchTypeOK
        <5> QED
          BY <5>1, <5>2, ClientNumbers, FS_Subset
      <4>4. backlog' \subseteq Clients /\ reset' \subseteq Clients
        BY <2>4 DEF EchTypeOK
      <4> QED
        BY <4>2, <4>3, <4>4
    <3> QED
      BY <2>4, <2>5, <2>6, <3>4, <3>5, <3>6
  <2> QED
    BY <2>7, <2>8
<1>13. CASE close_server
  <2> USE <1>13 DEF close_server
  <2>1. EchTypeOK'
    BY ClientNumbers DEF EchTypeOK, Listening
  <2>2. EchConns'
    BY ClientNumbers DEF EchTypeOK, EchConns, Listening, open
  <2>3. EchEvents'
    BY ClientNumbers DEF EchTypeOK, EchEvents
  <2>4. EchReplies'
    BY DEF EchTypeOK, EchReplies, EchStops
  <2>5. EchStops'
    BY ClientNumbers DEF EchTypeOK, EchConns, EchStops, open
  <2>6. CountersAgree'
    BY ClientNumbers DEF CountersAgree, Accepted, open
  <2> QED
    BY <2>1, <2>2, <2>3, <2>4, <2>5, <2>6
<1>14. CASE server_waitpid
  <2> USE <1>14 DEF server_waitpid
  <2>1. EchTypeOK'
    BY ClientNumbers DEF EchTypeOK, Listening
  <2>2. EchConns'
    BY ClientNumbers DEF EchTypeOK, EchConns, Listening, open
  <2>3. EchEvents'
    BY ClientNumbers DEF EchTypeOK, EchEvents
  <2>4. EchReplies'
    BY ClientNumbers DEF EchTypeOK, EchReplies
  <2>5. EchStops'
    BY ClientNumbers DEF EchTypeOK, EchConns, EchStops, open
  <2>6. CountersAgree'
    BY ClientNumbers DEF CountersAgree, Accepted, open
  <2> QED
    BY <2>1, <2>2, <2>3, <2>4, <2>5, <2>6
<1> QED
  BY <1>1, <1>2, <1>3, <1>4, <1>5, <1>6, <1>7, <1>8, <1>9, <1>10, <1>11, <1>12,
     <1>13, <1>14
  DEF Next, section6_echo_server, client

\* The invariant holds throughout section6_echo_server.
THEOREM EchoCorrect == Spec => []EchInv
<1>1. Init => EchInv
  BY EchInit
<1>2. EchInv /\ [Next]_vars => EchInv'
  BY EchStep
<1> QED
  BY <1>1, <1>2, PTL DEF Spec

(***************************************************************************)
(* For any number of clients, an event is handled for the connection it    *)
(* was reported for although descriptors are reused, and a client that     *)
(* gets an answer gets its own message back.                               *)
(***************************************************************************)
THEOREM EchoesOwnMessage == Spec => []EchoToOwner
<1>1. EchInv => EchoToOwner
  BY ClientNumbers DEF EchInv, EchEvents, EchReplies, EchoToOwner
<1> QED
  BY <1>1, EchoCorrect, PTL

(***************************************************************************)
(* For any number of clients, active and total_seen are the numbers of     *)
(* open and of accepted connections, and unless it idled out the server    *)
(* leaves its loop only when every client has been answered.               *)
(***************************************************************************)
THEOREM ServesAll == Spec => []ServedInFull
<1>1. EchInv => ServedInFull
  BY DEF EchInv, EchStops, EchReplies, ServedInFull, StopsOnlyWhenServed
<1> QED
  BY <1>1, EchoCorrect, PTL

-----------------------------------------------------------------------------
\* The parts of the parent: before, in and after its waiting loop.
Forking == {"forkA", "closeA", "forkB", "closeB", "setup"}
Looping == {"wait", "handleA", "handleB"}
Reaping == {"reapA", "reapB", "done"}

\* Types of the state of parent, children and pipes.
MuxTypes ==
    /\ mux_pc \in {"pipe", "cleanup"} \cup Forking \cup Looping \cup Reaping
    /\ mux_kid \in [Mux!Kids -> {"unborn", "none", "close", "write", "exit", "zombie", "reaped"}]
    /\ mux_rd \in [Mux!Kids -> SUBSET {"P", "A", "B"}] /\ mux_wr \in [Mux!Kids -> SUBSET {"P", "A", "B"}]
    /\ mux_got \in [Mux!Kids -> {"none", "msg", "eof"}]
    /\ mux_data \subseteq Mux!Kids /\ mux_ready \subseteq Mux!Kids /\ mux_interest \subseteq Mux!Kids

\* Which children have been forked.
MuxBorn ==
    /\ mux_kid["A"] = "unborn" <=> mux_pc \in {"pipe", "forkA"}
    /\ mux_kid["B"] = "unborn" <=> mux_pc \in {"pipe", "forkA", "closeA", "forkB"}

\* Who holds the write ends: the first child the other's too, until its closes.
MuxWrite ==
    /\ "P" \in mux_wr["A"] <=> mux_pc \in {"forkA", "closeA"}
    /\ "P" \in mux_wr["B"] <=> mux_pc \in {"forkA", "closeA", "forkB", "closeB"}
    /\ \A k \in Mux!Kids : k \in mux_wr[k] <=> mux_kid[k] \in {"close", "write", "exit"}
    /\ "B" \notin mux_wr["A"]
    /\ "A" \in mux_wr["B"] <=> mux_kid["A"] = "close"

\* Where the parent holds a read end, and what it is registered for.
MuxOpen ==
    /\ mux_pc \in Forking => \A k \in Mux!Kids : "P" \in mux_rd[k]
    /\ mux_pc \in Looping \cup {"cleanup"} => \A k \in Mux!Kids : "P" \in mux_rd[k] <=> k \in mux_interest
    /\ mux_pc \notin Looping \cup {"cleanup"} => mux_interest = {}
    /\ mux_pc = "pipe" => \A k \in Mux!Kids : "P" \notin mux_rd[k]
    /\ mux_pc \in Reaping => \A k \in Mux!Kids : "P" \in mux_rd[k] => mux_api = "epoll" /\ mux_timedout

\* A message is in its pipe from the write to the read, and an end of file means no child.
MuxData ==
    \A k \in Mux!Kids :
      /\ "P" \in mux_rd[k] /\ mux_kid[k] \in {"exit", "zombie", "reaped"} => k \in mux_data
      /\ k \in mux_data => mux_kid[k] \in {"exit", "zombie", "reaped"}
      /\ mux_got[k] = "msg" => mux_kid[k] \in {"exit", "zombie", "reaped"}
      /\ mux_got[k] = "eof" => mux_kid[k] = "none"

\* How far the loop has come: what is registered has not been read.
MuxLoop ==
    /\ mux_pc \in Forking \cup {"pipe"} => \A k \in Mux!Kids : mux_got[k] = "none"
    /\ mux_pc \in Looping => \A k \in Mux!Kids : k \in mux_interest <=> mux_got[k] = "none"
    /\ mux_pc \in Reaping \cup {"cleanup"} /\ ~mux_timedout => \A k \in Mux!Kids : mux_got[k] # "none"
    /\ mux_pc = "cleanup" /\ ~mux_timedout => mux_interest = {}
    /\ mux_pc = "handleA" => mux_ready \subseteq mux_interest
    /\ mux_pc = "handleB" => ("B" \in mux_ready => "B" \in mux_interest)

\* Whom waitpid has collected, a failed fork's pid standing for any child.
MuxReap ==
    /\ mux_pc = "reapB" => IF mux_kid["A"] = "none" THEN mux_kid["B"] \in {"none", "reaped"} ELSE mux_kid["A"] = "reaped"
    /\ Mux!AllReaped

(***************************************************************************)
(* The inductive invariant of the three loops.  That a reported pipe can   *)
(* be read is not inductive by itself: it needs who still holds which end, *)
(* and that no end of file is seen while a child is yet to write.          *)
(***************************************************************************)
MuxInv == MuxTypes /\ MuxBorn /\ MuxWrite /\ MuxOpen /\ MuxData /\ MuxLoop /\ MuxReap /\ Mux!NoBlockingRead

\* It holds when a section starts.
LEMMA MuxInit == Mux!Init => MuxInv
BY DEF Mux!Init, MuxInv, MuxTypes, MuxBorn, MuxWrite, MuxOpen, MuxData, MuxLoop,
   MuxReap, Mux!AllReaped,
       Mux!NoBlockingRead, Forking, Looping, Reaping, Mux!Kids

(***************************************************************************)
(* Every step of the parent and of the children keeps it, forks failing,   *)
(* children late and waits timing out at any point.                        *)
(***************************************************************************)
LEMMA MuxStep == MuxInv /\ [Mux!Next]_Mux!vars => MuxInv'
<1> SUFFICES ASSUME MuxInv, [Mux!Next]_Mux!vars PROVE MuxInv'
  OBVIOUS
<1> USE DEF MuxInv, Mux!Kids, Forking, Looping, Reaping
<1>1. CASE Mux!make_pipes
  <2> USE <1>1 DEF Mux!make_pipes
  <2>1. MuxTypes'
    BY DEF MuxTypes
  <2>2. MuxBorn' /\ MuxWrite' /\ MuxOpen'
    BY DEF MuxTypes, MuxBorn, MuxWrite, MuxOpen
  <2>3. MuxData' /\ MuxLoop' /\ MuxReap' /\ Mux!NoBlockingRead'
    BY DEF MuxTypes, MuxBorn, MuxData, MuxLoop, MuxReap, Mux!AllReaped,
       Mux!NoBlockingRead
  <2> QED
    BY <2>1, <2>2, <2>3
<1>2. ASSUME NEW k \in Mux!Kids, Mux!fork_child(k),
             \/ k = "A" /\ mux_pc = "forkA" /\ mux_pc' = "closeA"
             \/ k = "B" /\ mux_pc = "forkB" /\ mux_pc' = "closeB"
      PROVE  MuxInv'
  <2> USE <1>2 DEF Mux!fork_child
  <2>1. MuxTypes'
    BY DEF MuxTypes
  <2>2. MuxBorn'
    BY DEF MuxTypes, MuxBorn
  <2>3. MuxWrite' /\ MuxOpen'
    BY DEF MuxTypes, MuxBorn, MuxWrite, MuxOpen
  <2>4. MuxData' /\ MuxLoop'
    BY DEF MuxTypes, MuxBorn, MuxOpen, MuxData, MuxLoop
  <2>5. MuxReap' /\ Mux!NoBlockingRead'
    BY DEF MuxReap, Mux!AllReaped, Mux!NoBlockingRead
  <2> QED
    BY <2>1, <2>2, <2>3, <2>4, <2>5
<1>3. ASSUME NEW k \in Mux!Kids, Mux!close_write_end(k),
             \/ k = "A" /\ mux_pc = "closeA" /\ mux_pc' = "forkB"
             \/ k = "B" /\ mux_pc = "closeB" /\ mux_pc' = "setup"
      PROVE  MuxInv'
  <2> USE <1>3 DEF Mux!close_write_end
  <2>1. MuxTypes'
    BY DEF MuxTypes
  <2>2. MuxBorn' /\ MuxWrite' /\ MuxOpen'
    BY DEF MuxTypes, MuxBorn, MuxWrite, MuxOpen
  <2>3. MuxData' /\ MuxLoop' /\ MuxReap' /\ Mux!NoBlockingRead'
    BY DEF MuxTypes, MuxData, MuxLoop, MuxReap, Mux!AllReaped, Mux!NoBlockingRead
  <2> QED
    BY <2>1, <2>2, <2>3
<1>4. CASE Mux!setup
  <2> USE <1>4 DEF Mux!setup
  <2>1. MuxTypes' /\ MuxBorn' /\ MuxWrite' /\ MuxOpen'
    BY DEF MuxTypes, MuxBorn, MuxWrite, MuxOpen
  <2>2. MuxData' /\ MuxLoop' /\ MuxReap' /\ Mux!NoBlockingRead'
    BY DEF MuxTypes, MuxData, MuxLoop, MuxReap, Mux!AllReaped, Mux!NoBlockingRead
  <2> QED
    BY <2>1, <2>2
<1>5. CASE Mux!wait_for_events
  <2> USE <1>5 DEF Mux!wait_for_events
  <2>1. mux_ready' \subseteq Mux!kernel_ready
    OBVIOUS
  <2>2. MuxTypes' /\ MuxBorn' /\ MuxWrite' /\ MuxOpen'
    BY <2>1 DEF Mux!kernel_ready, MuxTypes, MuxBorn, MuxWrite, MuxOpen
  <2>3. MuxData' /\ MuxLoop' /\ MuxReap'
    BY <2>1 DEF Mux!kernel_ready, MuxTypes, MuxData, MuxLoop, MuxReap, Mux!AllReaped
  <2>4. Mux!NoBlockingRead'
    BY <2>1 DEF Mux!kernel_ready, Mux!hup, Mux!NoBlockingRead
  <2> QED
    BY <2>2, <2>3, <2>4
<1>6. CASE Mux!wait_timeout
  <2> USE <1>6 DEF Mux!wait_timeout
  <2>1. MuxTypes' /\ MuxBorn' /\ MuxWrite' /\ MuxOpen'
    BY DEF MuxTypes, MuxBorn, MuxWrite, MuxOpen
  <2>2. MuxData' /\ MuxLoop' /\ MuxReap' /\ Mux!NoBlockingRead'
    BY DEF MuxTypes, MuxData, MuxLoop, MuxReap, Mux!AllReaped, Mux!NoBlockingRead
  <2> QED
    BY <2>1, <2>2
<1>7. ASSUME NEW k \in Mux!Kids, NEW here, NEW next, Mux!handle(k, here, next),
             \/ k = "A" /\ here = "handleA" /\ next = "handleB"
             \/ k = "B" /\ here = "handleB" /\ next = "wait"
      PROVE  MuxInv'
  <2>1. k \in mux_ready => k \in mux_interest /\ "P" \in mux_rd[k] /\ (k \in mux_data \/ Mux!hup(k))
    BY <1>7 DEF Mux!handle, MuxLoop, MuxOpen, Mux!NoBlockingRead
  <2>2. k \in mux_ready /\ k \notin mux_data => mux_kid[k] = "none"
    BY <1>7, <2>1 DEF Mux!handle, Mux!hup, MuxTypes, MuxBorn, MuxWrite, MuxData
  <2> USE <1>7 DEF Mux!handle
  <2>3. MuxTypes'
    <3>1. mux_got' \in [Mux!Kids -> {"none", "msg", "eof"}] /\ mux_pc' \in Looping
      BY DEF MuxTypes
    <3>2. mux_data' \subseteq Mux!Kids /\ mux_interest' \subseteq Mux!Kids
      BY DEF MuxTypes
    <3>4. mux_rd' \in [Mux!Kids -> SUBSET {"P", "A", "B"}]
      <4>1. CASE k \in mux_ready
        <5>1. mux_rd' = [mux_rd EXCEPT ![k] = mux_rd[k] \ {"P"}]
          BY <4>1
        <5> QED
          BY <5>1 DEF MuxTypes
      <4>2. CASE k \notin mux_ready
        BY <4>2 DEF MuxTypes
      <4> QED
        BY <4>1, <4>2
    <3>3. UNCHANGED <<mux_kid, mux_wr, mux_ready>>
      OBVIOUS
    <3> QED
      BY <3>1, <3>2, <3>3, <3>4 DEF MuxTypes
  <2>4. MuxBorn' /\ MuxWrite'
    BY DEF MuxBorn, MuxWrite
  <2>5. MuxOpen'
    BY <2>1 DEF MuxTypes, MuxOpen
  <2>6. MuxData'
    BY <2>1, <2>2 DEF MuxTypes, MuxData
  <2>7. MuxLoop' /\ MuxReap'
    BY <2>1 DEF MuxTypes, MuxLoop, MuxReap, Mux!AllReaped
  <2>8. Mux!NoBlockingRead'
    BY DEF MuxTypes, Mux!NoBlockingRead, Mux!hup
  <2> QED
    BY <2>3, <2>4, <2>5, <2>6, <2>7, <2>8
<1>8. CASE Mux!loop_end
  <2> USE <1>8 DEF Mux!loop_end
  <2>1. MuxTypes' /\ MuxBorn' /\ MuxWrite' /\ MuxOpen'
    BY DEF MuxTypes, MuxBorn, MuxWrite, MuxOpen
  <2>2. MuxData' /\ MuxLoop' /\ MuxReap' /\ Mux!NoBlockingRead'
    BY DEF MuxTypes, MuxData, MuxLoop, MuxReap, Mux!AllReaped, Mux!NoBlockingRead
  <2> QED
    BY <2>1, <2>2
<1>9. CASE Mux!cleanup
  <2> USE <1>9 DEF Mux!cleanup, Mux!Without
  <2>1. MuxTypes' /\ MuxBorn' /\ MuxWrite'
    BY DEF MuxTypes, MuxBorn, MuxWrite
  <2>2. MuxOpen'
    BY DEF MuxTypes, MuxOpen, MuxLoop
  <2>3. MuxData'
    BY DEF MuxTypes, MuxData
  <2>4. MuxLoop' /\ MuxReap' /\ Mux!NoBlockingRead'
    BY DEF MuxTypes, MuxLoop, MuxReap, Mux!AllReaped, Mux!NoBlockingRead
  <2> QED
    BY <2>1, <2>2, <2>3, <2>4
<1>10. ASSUME NEW k \in Mux!Kids, NEW here, NEW next, Mux!reap(k, here, next),
              \/ k = "A" /\ here = "reapA" /\ next = "reapB"
              \/ k = "B" /\ here = "reapB" /\ next = "done"
       PROVE  MuxInv'
  <2> DEFINE wanted == {j \in Mux!Kids : (j = k \/ mux_kid[k] = "none") /\ mux_kid[j] \notin {"none", "reaped"}}
  <2>1. /\ mux_pc = here /\ mux_pc' = next
        /\ UNCHANGED <<mux_api, mux_rd, mux_wr, mux_data, mux_ready, mux_got,
                       mux_timedout, mux_interest>>
    BY <1>10 DEF Mux!reap
  <2>2. CASE wanted = {} /\ UNCHANGED mux_kid
    <3>1. MuxTypes' /\ MuxBorn' /\ MuxWrite' /\ MuxOpen'
      BY <1>10, <2>1, <2>2 DEF MuxTypes, MuxBorn, MuxWrite, MuxOpen
    <3>2. MuxData' /\ MuxLoop' /\ Mux!NoBlockingRead'
      BY <1>10, <2>1, <2>2 DEF MuxData, MuxLoop, Mux!NoBlockingRead
    <3>3. MuxReap'
      BY <1>10, <2>1, <2>2 DEF MuxTypes, MuxReap, Mux!AllReaped
    <3> QED
      BY <3>1, <3>2, <3>3
  <2>3. ASSUME NEW j \in wanted, mux_kid[j] = "zombie", mux_kid' = [mux_kid EXCEPT ![j] = "reaped"]
        PROVE  MuxInv'
    <3>1. MuxTypes' /\ MuxBorn' /\ MuxWrite' /\ MuxOpen'
      BY <1>10, <2>1, <2>3 DEF MuxTypes, MuxBorn, MuxWrite, MuxOpen
    <3>2. MuxData' /\ MuxLoop' /\ Mux!NoBlockingRead'
      BY <1>10, <2>1, <2>3 DEF MuxTypes, MuxData, MuxLoop, Mux!NoBlockingRead
    <3>3. MuxReap'
      BY <1>10, <2>1, <2>3 DEF MuxTypes, MuxReap, Mux!AllReaped
    <3> QED
      BY <3>1, <3>2, <3>3
  <2> QED
    BY <1>10, <2>2, <2>3 DEF Mux!reap
<1>11. ASSUME NEW k \in Mux!Kids, Mux!child_close(k) PROVE MuxInv'
  <2> USE <1>11 DEF Mux!child_close, Mux!Without
  <2>1. MuxTypes' /\ MuxBorn'
    BY DEF MuxTypes, MuxBorn
  <2>2. MuxWrite'
    BY DEF MuxTypes, MuxWrite
  <2>3. MuxOpen'
    BY DEF MuxTypes, MuxOpen
  <2>4. MuxData'
    BY DEF MuxTypes, MuxData
  <2>5. MuxLoop' /\ MuxReap'
    BY DEF MuxTypes, MuxLoop, MuxReap, Mux!AllReaped
  <2>6. Mux!NoBlockingRead'
    BY DEF MuxTypes, Mux!NoBlockingRead, Mux!hup
  <2> QED
    BY <2>1, <2>2, <2>3, <2>4, <2>5, <2>6
<1>12. ASSUME NEW k \in Mux!Kids, Mux!child_write(k) PROVE MuxInv'
  <2> USE <1>12 DEF Mux!child_write, Mux!Without
  <2>1. MuxTypes' /\ MuxBorn'
    <3>1. mux_kid' \in [Mux!Kids -> {"unborn", "none", "close", "write", "exit", "zombie", "reaped"}]
          /\ mux_data' \subseteq Mux!Kids
      BY ZenonT(60) DEF MuxTypes
    <3>2. mux_wr' \in [Mux!Kids -> SUBSET {"P", "A", "B"}]
      BY DEF MuxTypes
    <3>3. UNCHANGED <<mux_pc, mux_rd, mux_got, mux_ready, mux_interest>>
      OBVIOUS
    <3>4. MuxBorn'
      BY DEF MuxTypes, MuxBorn
    <3> QED
      BY <3>1, <3>2, <3>3, <3>4 DEF MuxTypes
  <2>2. MuxWrite'
    BY DEF MuxTypes, MuxWrite
  <2>3. MuxOpen'
    BY DEF MuxOpen
  <2>4. MuxData'
    BY DEF MuxTypes, MuxData
  <2>5. MuxLoop' /\ MuxReap'
    BY DEF MuxTypes, MuxLoop, MuxReap, Mux!AllReaped
  <2>6. Mux!NoBlockingRead'
    BY DEF MuxTypes, Mux!NoBlockingRead, Mux!hup
  <2> QED
    BY <2>1, <2>2, <2>3, <2>4, <2>5, <2>6
<1>13. ASSUME NEW k \in Mux!Kids, Mux!child_exit(k) PROVE MuxInv'
  <2> USE <1>13 DEF Mux!child_exit, Mux!Without
  <2>1. MuxTypes' /\ MuxBorn'
    BY DEF MuxTypes, MuxBorn
  <2>2. MuxWrite'
    BY DEF MuxTypes, MuxWrite
  <2>3. MuxOpen'
    BY DEF MuxOpen
  <2>4. MuxData'
    BY DEF MuxTypes, MuxData
  <2>5. MuxLoop' /\ MuxReap'
    BY DEF MuxTypes, MuxLoop, MuxReap, Mux!AllReaped
  <2>6. Mux!NoBlockingRead'
    BY DEF MuxTypes, Mux!NoBlockingRead, Mux!hup
  <2> QED
    BY <2>1, <2>2, <2>3, <2>4, <2>5, <2>6
<1>14. CASE UNCHANGED Mux!vars
  BY <1>14 DEF Mux!vars, MuxTypes, MuxBorn, MuxWrite, MuxOpen, MuxData, MuxLoop,
               MuxReap, Mux!AllReaped,
               Mux!NoBlockingRead, Mux!hup
<1>15. CASE Mux!two_writers
  BY <1>15, <1>2, <1>3 DEF Mux!two_writers
<1>16. CASE Mux!multiplex
  BY <1>16, <1>5, <1>7, <1>8, <1>9, <1>10 DEF Mux!multiplex
<1>17. ASSUME NEW k \in Mux!Kids, Mux!child(k) PROVE MuxInv'
  BY <1>17, <1>11, <1>12, <1>13 DEF Mux!child
<1> QED
  BY <1>1, <1>4, <1>6, <1>14, <1>15, <1>16, <1>17 DEF Mux!Next, Mux!parent

(***************************************************************************)
(* For select, poll and epoll alike: a reported pipe is read without       *)
(* blocking, nothing closed is waited for, no sibling keeps a pipe from    *)
(* its end of file, a loop that does not time out has read the message of  *)
(* every child there is, all are reaped, and only epoll's timeout leaves a *)
(* read end open.                                                          *)
(***************************************************************************)
THEOREM LoopsReadOnce == Mux!Spec => []NoBlockingRead
<1>1. ASSUME MuxInv PROVE NoBlockingRead
  <2> USE <1>1 DEF MuxInv, Mux!Kids, Forking, Looping, Reaping
  <2>1. Mux!InterestIsOpen
    BY DEF MuxTypes, MuxOpen, Mux!InterestIsOpen
  <2>2. Mux!WriteEndsPrivate
    BY DEF MuxTypes, MuxWrite, Mux!WriteEndsPrivate
  <2>3. Mux!BothRead
    <3> SUFFICES ASSUME mux_pc \in {"cleanup", "reapA", "reapB", "done"}, ~mux_timedout
                 PROVE  mux_got = [k \in Mux!Kids |-> IF mux_kid[k] = "none" THEN "eof" ELSE "msg"]
      BY DEF Mux!BothRead
    <3>1. \A k \in Mux!Kids : mux_got[k] = IF mux_kid[k] = "none" THEN "eof" ELSE "msg"
      BY DEF MuxTypes, MuxData, MuxLoop
    <3> QED
      BY <3>1 DEF MuxTypes
  <2>4. Mux!ClosedUnlessEpollTimeout
    BY DEF MuxTypes, MuxOpen, MuxWrite, Mux!ClosedUnlessEpollTimeout, Mux!AllClosed
  <2> QED
    BY <2>1, <2>2, <2>3, <2>4 DEF MuxReap, NoBlockingRead
<1> QED
  BY <1>1, MuxInit, MuxStep, PTL DEF Mux!Spec

-----------------------------------------------------------------------------
\* The two sections over a stream.
Streams == {"tcp", "unix"}

\* The k-th message of a section and its echo; a message with its length byte.
Message(s, k) == Sock!Msgs[s][k]
Echo(s, k) == Sock!echo(Sock!Msgs[s][k])
Frame(m) == <<Len(m)>> \o m

\* What send_msg and recv_msg need of a message: the length fits its byte and the buffer.
Goes(m) ==
    /\ m \in Seq(Nat) /\ Len(m) \in Nat
    /\ Len(m) % BYTE = Len(m) /\ Len(m) < BUFSZ
    /\ SubSeq(m, 1, Len(m)) = m

\* All messages of the program and their echoes are such.
LEMMA Messages ==
  ASSUME NEW s \in DOMAIN Sock!Msgs
  PROVE  /\ Len(Sock!Msgs[s]) \in Nat \ {0}
         /\ DOMAIN Sock!Msgs[s] = 1 .. Len(Sock!Msgs[s])
         /\ \A k \in 1 .. Len(Sock!Msgs[s]) :
              Goes(Message(s, k)) /\ Goes(Echo(s, k)) /\ Len(Echo(s, k)) > 0
<1>1. /\ Sock!Msgs[s] \in Seq(Seq(Nat))
      /\ \A k \in DOMAIN Sock!Msgs[s] : /\ Len(PREFIX) + Len(Sock!Msgs[s][k]) < BUFSZ
                                        /\ Len(PREFIX) + Len(Sock!Msgs[s][k]) < ECHOSZ
  BY SocketMessagesFit DEF Sock!MessagesFit
<1>2. Len(Sock!Msgs[s]) \in Nat /\ DOMAIN Sock!Msgs[s] = 1 .. Len(Sock!Msgs[s])
  BY <1>1, LenProperties
<1>3. Sock!Msgs[s] # <<>>
  <2>1. UdpMsgs # <<>>
    <3>1. Len(UdpMsgs) = 1 /\ Len(<<>>) = 0
      BY SocketMessagesFit DEF Sock!MessagesFit
    <3> QED
      BY <3>1
  <2> QED
    BY <2>1, SocketMessagesFit DEF Sock!MessagesFit, Sock!Msgs
<1>4. Len(Sock!Msgs[s]) # 0
  BY <1>1, <1>3, EmptySeq
<1>5. ASSUME NEW m \in Seq(Nat), Len(m) < BUFSZ PROVE Goes(m)
  <2>1. Len(m) \in Nat
    BY LenProperties
  <2>2. Len(m) % BYTE = Len(m)
    <3>1. BUFSZ \in Nat /\ BYTE \in Nat /\ BUFSZ <= BYTE
      BY SocketMessagesFit DEF Sock!MessagesFit
    <3> QED
      BY <1>5, <2>1, <3>1, SMTT(30)
  <2>3. SubSeq(m, 1, Len(m)) = m
    BY SubSeqFull
  <2> QED
    BY <1>5, <2>1, <2>2, <2>3 DEF Goes
<1>6. ASSUME NEW k \in 1 .. Len(Sock!Msgs[s])
      PROVE  Goes(Message(s, k)) /\ Goes(Echo(s, k)) /\ Len(Echo(s, k)) > 0
  <2> DEFINE m == Sock!Msgs[s][k]
  <2>1. m \in Seq(Nat)
    BY <1>1, <1>2, ElementOfSeq
  <2>2. /\ Len(m) \in Nat /\ Len(PREFIX) \in Nat /\ PREFIX \in Seq(Nat)
        /\ Len(PREFIX) # 0
    BY <2>1, LenProperties, EmptySeq, SocketMessagesFit DEF Sock!MessagesFit
  <2>3. PREFIX \o m \in Seq(Nat) /\ Len(PREFIX \o m) = Len(PREFIX) + Len(m)
    BY <2>1, <2>2, ConcatProperties
  <2>4. Len(PREFIX) + Len(m) < BUFSZ /\ Len(PREFIX) + Len(m) < ECHOSZ
    BY <1>1, <1>2
  <2>5. Echo(s, k) = PREFIX \o m
    <3>1. Echo(s, k) = SubSeq(PREFIX \o m, 1, Len(PREFIX \o m))
      BY <2>3, <2>4 DEF Echo, Sock!echo
    <3> QED
      BY <3>1, <2>3, SubSeqFull
  <2>6. BUFSZ \in Nat
    BY SocketMessagesFit DEF Sock!MessagesFit
  <2>7. Len(m) < BUFSZ /\ Len(PREFIX \o m) < BUFSZ /\ Len(PREFIX \o m) > 0
    BY <2>2, <2>3, <2>4, <2>6
  <2> HIDE DEF m
  <2>8. Goes(m) /\ Goes(PREFIX \o m)
    BY <1>5, <2>1, <2>3, <2>7
  <2> QED
    BY <2>5, <2>7, <2>8 DEF Message, m
<1> QED
  BY <1>2, <1>4, <1>6

\* Concatenation of byte sequences.
LEMMA Joined ==
  ASSUME NEW a \in Seq(Nat), NEW b \in Seq(Nat)
  PROVE  /\ a \o b \in Seq(Nat) /\ Len(a \o b) = Len(a) + Len(b)
         /\ \A j \in 1 .. Len(a) + Len(b) :
              (a \o b)[j] = IF j <= Len(a) THEN a[j] ELSE b[j - Len(a)]
BY ConcatProperties, SMT

\* It is associative.
LEMMA Assoc ==
  ASSUME NEW a \in Seq(Nat), NEW b \in Seq(Nat), NEW c \in Seq(Nat)
  PROVE  (a \o b) \o c = a \o (b \o c)
BY SMTT(30), ConcatAssociative

\* recv moves bytes from the stream to the buffer: together they stay the same.
LEMMA Split ==
  ASSUME NEW g \in Seq(Nat), NEW w \in Seq(Nat), NEW k \in 1 .. Len(w)
  PROVE  /\ g \o SubSeq(w, 1, k) \in Seq(Nat)
         /\ Len(g \o SubSeq(w, 1, k)) = Len(g) + k
         /\ SubSeq(w, k + 1, Len(w)) \in Seq(Nat)
         /\ (g \o SubSeq(w, 1, k)) \o SubSeq(w, k + 1, Len(w)) = g \o w
<1>1. Len(w) \in Nat /\ \A j \in 1 .. Len(w) : w[j] \in Nat
  BY LenProperties, ElementOfSeq
<1>2. SubSeq(w, 1, k) \in Seq(Nat) /\ Len(SubSeq(w, 1, k)) = k
  BY <1>1, SubSeqProperties
<1>3. SubSeq(w, k + 1, Len(w)) \in Seq(Nat)
  BY <1>1, SubSeqProperties
<1>4. SubSeq(w, 1, k) \o SubSeq(w, k + 1, Len(w)) = SubSeq(w, 1, Len(w))
  <2>1. 1 \in 1 .. Len(w) + 1 /\ k \in 1 - 1 .. Len(w) /\ Len(w) \in k .. Len(w)
    BY <1>1
  <2> QED
    BY <2>1, ConcatAdjacentSubSeq
<1>5. SubSeq(w, 1, Len(w)) = w
  BY SubSeqFull
<1> DEFINE x == SubSeq(w, 1, k)
           y == SubSeq(w, k + 1, Len(w))
<1>6. g \o x \in Seq(Nat) /\ Len(g \o x) = Len(g) + k
  <2> HIDE DEF x
  <2> QED
    BY <1>2, ConcatProperties DEF x
<1>7. (g \o x) \o y = g \o (x \o y)
  <2> HIDE DEF x, y
  <2>1. x \in Seq(Nat) /\ y \in Seq(Nat)
    BY <1>2, <1>3 DEF x, y
  <2> QED
    BY <2>1, Assoc
<1> QED
  BY <1>3, <1>4, <1>5, <1>6, <1>7

\* Having as many bytes as the message, recv_all has the message and nothing is left.
LEMMA Whole ==
  ASSUME NEW g \in Seq(Nat), NEW w \in Seq(Nat), NEW m \in Seq(Nat),
         g \o w = m, Len(g) = Len(m)
  PROVE  g = m /\ w = <<>>
<1>1. Len(g) \in Nat /\ Len(w) \in Nat /\ Len(m) = Len(g) + Len(w)
  BY LenProperties, ConcatProperties
<1>2. w = <<>>
  BY <1>1, EmptySeq
<1> QED
  BY <1>2, ConcatEmptySeq

\* The first byte of a stream and the rest.
LEMMA First ==
  ASSUME NEW g \in Seq(Nat), NEW w \in Seq(Nat), NEW m \in Seq(Nat), NEW x \in Nat,
         g \o w = <<x>> \o m, Len(g) = 1
  PROVE  g[1] = x /\ w = m
<1> DEFINE h == <<x>>
<1>1. h \in Seq(Nat) /\ Len(h) = 1 /\ h[1] = x
  OBVIOUS
<1>2. g \o w = h \o m
  OBVIOUS
<1> HIDE DEF h
<1>3. Len(w) \in Nat /\ Len(m) \in Nat
  BY LenProperties
<1>4. /\ Len(g \o w) = Len(g) + Len(w)
      /\ \A j \in 1 .. Len(g) + Len(w) : (g \o w)[j] = IF j <= Len(g) THEN g[j] ELSE w[j - Len(g)]
  BY Joined
<1>5. /\ Len(h \o m) = Len(h) + Len(m)
      /\ \A j \in 1 .. Len(h) + Len(m) : (h \o m)[j] = IF j <= Len(h) THEN h[j] ELSE m[j - Len(h)]
  BY <1>1, Joined
<1>6. g[1] = x
  BY <1>1, <1>2, <1>3, <1>4, <1>5
<1>7. Len(w) = Len(m)
  BY <1>1, <1>2, <1>3, <1>4, <1>5
<1>8. \A j \in 1 .. Len(w) : w[j] = m[j]
  <2>1. TAKE j \in 1 .. Len(w)
  <2>2. j + 1 \in 1 .. 1 + Len(w) /\ ~(j + 1 <= 1) /\ (j + 1) - 1 = j
    BY <1>3
  <2> QED
    BY <1>1, <1>2, <1>4, <1>5, <1>7, <2>2
<1> QED
  BY <1>6, <1>7, <1>8, SeqEqual

\* Having one byte, recv_msg has the length, and the body follows if it was sent.
LEMMA FrameFirst ==
  ASSUME NEW g \in Seq(Nat), NEW w \in Seq(Nat), NEW m \in Seq(Nat), Len(g) = 1
  PROVE  /\ g \o w = Frame(m) => g[1] = Len(m) /\ w = m
         /\ g \o w = <<Len(m)>> => g[1] = Len(m) /\ w = <<>>
<1>1. Len(m) \in Nat /\ <<>> \in Seq(Nat)
  BY LenProperties, EmptySeq
<1>2. <<Len(m)>> \in Seq(Nat)
  BY <1>1
<1>3. <<Len(m)>> \o <<>> = <<Len(m)>>
  BY <1>2, ConcatEmptySeq
<1>4. ASSUME g \o w = Frame(m) PROVE g[1] = Len(m) /\ w = m
  BY <1>1, <1>4, First DEF Frame
<1>5. ASSUME g \o w = <<Len(m)>> PROVE g[1] = Len(m) /\ w = <<>>
  <2>1. g \o w = <<Len(m)>> \o <<>>
    BY <1>3, <1>5
  <2> QED
    BY <1>1, <2>1, First
<1> QED
  BY <1>4, <1>5

\* What send_msg puts on the stream in its two calls.
LEMMA FrameLen ==
  ASSUME NEW m \in Seq(Nat)
  PROVE  /\ Frame(m) \in Seq(Nat) /\ Len(Frame(m)) = Len(m) + 1
         /\ <<Len(m)>> \in Seq(Nat) /\ Len(<<Len(m)>>) = 1
         /\ <<>> \o <<Len(m)>> = <<Len(m)>>
         /\ <<Len(m)>> \o m = Frame(m)
<1>1. Len(m) \in Nat
  BY LenProperties
<1>2. <<Len(m)>> \in Seq(Nat) /\ Len(<<Len(m)>>) = 1
  BY <1>1
<1>3. Frame(m) \in Seq(Nat) /\ Len(Frame(m)) = Len(m) + 1
  BY <1>1, <1>2, ConcatProperties DEF Frame
<1> QED
  BY <1>2, <1>3, ConcatEmptySeq DEF Frame

-----------------------------------------------------------------------------
\* Where client and server can be in a stream section.
ClientPoints == {"unborn", "connect", "send_len", "send_body", "recv_len", "recv_body", "next", "close", "exited"}
ServerPoints == {"fork", "port", "accept", "recv_len", "recv_body", "send_len", "send_body", "next", "close",
                 "waitpid"}

\* The numbers of the messages client and server are at, and the bytes a process has still to read.
Cl == soc_i["client"]
Sv == soc_i["server"]
Left(p) == soc_got[p] \o soc_wire[p]

\* The client has its reply; the server has sent all of it.
Served == soc_pc["client"] \in {"next", "close", "exited"}

Answered ==
    \/ Sv = Cl /\ soc_pc["server"] \in {"next", "close", "waitpid"}
    \/ Sv = Cl + 1 /\ soc_pc["server"] = "recv_len"

\* What is on the stream of the current request, and of its answer.
Request(s) ==
    IF soc_pc["client"] \in {"unborn", "connect", "send_len"} THEN <<>>
    ELSE IF soc_pc["client"] = "send_body" THEN <<Len(Message(s, Cl))>> ELSE Frame(Message(s, Cl))

Answer(s) ==
    IF Answered THEN Frame(Echo(s, Cl))
    ELSE IF Sv = Cl /\ soc_pc["server"] = "send_body" THEN <<Len(Echo(s, Cl))>> ELSE <<>>

\* Types.
StreamTypes(s) ==
    /\ soc_section = s
    /\ soc_pc \in [Sock!Procs -> ClientPoints \cup ServerPoints]
    /\ soc_pc["client"] \in ClientPoints /\ soc_pc["server"] \in ServerPoints
    /\ soc_i \in [Sock!Procs -> 1 .. Len(Sock!Msgs[s])]
    /\ soc_want \in [Sock!Procs -> Nat]
    /\ soc_got \in [Sock!Procs -> Seq(Nat)] /\ soc_wire \in [Sock!Procs -> Seq(Nat)] /\ soc_buf \in [Sock!Procs -> Seq(Nat)]
    /\ soc_replies \in Seq(Seq(Nat))

\* The sockets that are open, and the backlog.
Connected(s) ==
    /\ soc_open = (IF soc_pc["client"] \in {"unborn", "connect", "exited"} THEN {} ELSE {"client"})
                  \cup (IF soc_pc["server"] \in {"fork", "port", "accept", "waitpid"} THEN {} ELSE {"server"})
    /\ soc_queue = (soc_pc["client"] \notin {"unborn", "connect"} /\ soc_pc["server"] \in {"port", "accept"})
    /\ soc_pc["client"] = "unborn" <=> soc_pc["server"] = "fork"
    /\ soc_pc["client"] = "connect" => soc_pc["server"] \in {"port", "accept"}
    /\ soc_pc["server"] = "fork" => soc_port # "sent"
    /\ soc_pc["server"] = "port" => /\ soc_section # "unix" /\ soc_port # "sent"
                                /\ soc_pc["client"] = "connect"

(***************************************************************************)
(* The server's side: the request is on its way, its length is read, or it *)
(* is in the buffer.  For an empty message the server may be done before   *)
(* the client has returned from sending the body.                          *)
(***************************************************************************)
Requests(s) ==
    \/ /\ \/ Sv = Cl /\ soc_pc["server"] \in {"fork", "port", "accept", "recv_len"}
          \/ Sv + 1 = Cl /\ soc_pc["server"] = "next"
       /\ soc_want["server"] = 1 /\ Len(soc_got["server"]) <= 1
       /\ Left("server") = Request(s)
       /\ soc_pc["server"] # "recv_len" => soc_got["server"] = <<>>
    \/ /\ Sv = Cl /\ soc_pc["server"] = "recv_body"
       /\ soc_want["server"] = Len(Message(s, Cl))
       /\ \/ soc_pc["client"] = "send_body" /\ Left("server") = <<>>
          \/ soc_pc["client"] = "recv_len" /\ Left("server") = Message(s, Cl)
    \/ /\ soc_wire["server"] = <<>>
       /\ \/ soc_pc["client"] \in {"recv_len", "recv_body", "next", "close", "exited"}
          \/ soc_pc["client"] = "send_body" /\ Message(s, Cl) = <<>>
       /\ \/ Sv = Cl /\ soc_pc["server"] \in {"send_len", "send_body"} /\ soc_buf["server"] = Message(s, Cl)
          \/ Answered /\ soc_got["server"] = <<>> /\ soc_want["server"] = 1

\* The client's side: the same of the answer.
Answers(s) ==
    \/ soc_pc["client"] \in {"unborn", "connect", "send_len", "send_body"} /\ soc_wire["client"] = Answer(s)
    \/ /\ soc_pc["client"] = "recv_len" /\ soc_want["client"] = 1 /\ Len(soc_got["client"]) <= 1
       /\ Left("client") = Answer(s)
    \/ /\ soc_pc["client"] = "recv_body" /\ soc_want["client"] = Len(Echo(s, Cl))
       /\ \/ Sv = Cl /\ soc_pc["server"] = "send_body" /\ Left("client") = <<>>
          \/ Answered /\ Left("client") = Echo(s, Cl)
    \/ Served /\ Answered /\ soc_wire["client"] = <<>>

\* What the client has received, and that both loops end with the last message.
Received(s) ==
    /\ Len(soc_replies) = (IF Served THEN Cl ELSE Cl - 1)
    /\ \A j \in 1 .. Len(soc_replies) : soc_replies[j] = Echo(s, j)
    /\ soc_pc["client"] \in {"close", "exited"} => Cl = Len(Sock!Msgs[s])
    /\ soc_pc["server"] \in {"close", "waitpid"} => Sv = Len(Sock!Msgs[s])

(***************************************************************************)
(* The inductive invariant of a stream section.  That replies are right is *)
(* not inductive: it depends on every byte in flight belonging to the      *)
(* message both sides are at.                                              *)
(***************************************************************************)
Stream(s) == StreamTypes(s) /\ Connected(s) /\ Requests(s) /\ Answers(s) /\ Received(s)

\* All places, of the three sections.
AllPoints == ClientPoints \cup ServerPoints \cup {"sendto", "recvfrom", "none", "killed"}

(***************************************************************************)
(* The client was never forked, was killed, or could not connect, in which *)
(* case the server stays in accept: what it had received stays right.      *)
(***************************************************************************)
Lost(s) ==
    /\ soc_section = s /\ soc_pc \in [Sock!Procs -> AllPoints]
    /\ soc_pc["client"] \in {"none", "killed", "exited"}
    /\ soc_pc["server"] \in (ServerPoints \ {"fork"}) \cup {"sendto", "recvfrom"}
    /\ soc_pc["client"] = "exited" => soc_pc["server"] = "accept" /\ ~soc_queue
    /\ soc_replies \in Seq(Seq(Nat)) /\ \A j \in 1 .. Len(soc_replies) : soc_replies[j] = Echo(s, j)

\* The UDP section: one datagram each way, each of which may be lost.
DatagramPoints == {"unborn", "fork", "connect", "port", "sendto", "recvfrom", "close", "exited", "waitpid"}

Datagram ==
    /\ soc_section = "udp"
    /\ soc_pc \in [Sock!Procs -> DatagramPoints]
    /\ soc_wire \in [Sock!Procs -> Seq(Seq(Nat))] /\ soc_buf \in [Sock!Procs -> Seq(Nat)]
    /\ \/ /\ soc_pc["client"] = "unborn" /\ soc_pc["server"] = "fork"
          /\ soc_wire["server"] = <<>> /\ soc_wire["client"] = <<>> /\ soc_replies = <<>>
       \/ /\ soc_pc["client"] \in {"connect", "sendto"} /\ soc_pc["server"] \in {"port", "recvfrom"}
          /\ soc_wire["server"] = <<>> /\ soc_wire["client"] = <<>> /\ soc_replies = <<>>
       \/ /\ soc_pc["client"] = "recvfrom" /\ soc_replies = <<>>
          /\ \/ /\ soc_pc["server"] \in {"port", "recvfrom"} /\ soc_wire["client"] = <<>>
                /\ soc_wire["server"] \in {<<>>, <<Message("udp", 1)>>}
             \/ /\ soc_pc["server"] = "sendto" /\ soc_wire["client"] = <<>> /\ soc_wire["server"] = <<>>
                /\ soc_buf["server"] = Message("udp", 1)
             \/ /\ soc_pc["server"] \in {"close", "waitpid"} /\ soc_wire["server"] = <<>>
                /\ soc_wire["client"] \in {<<>>, <<Echo("udp", 1)>>}
       \/ /\ soc_pc["client"] \in {"close", "exited"} /\ soc_pc["server"] \in {"close", "waitpid"}
          /\ soc_wire["server"] = <<>> /\ soc_wire["client"] = <<>>
          /\ soc_replies = <<Echo("udp", 1)>>

\* main has returned.
Done == soc_section = "done" /\ soc_pc = [p \in Sock!Procs |-> "done"] /\ soc_open = {} /\ soc_replies = <<>>

\* The inductive invariant of the program while every send transfers all it is given.
SockInv ==
    /\ ~MayBeShort
    /\ (\E s \in Streams : Stream(s)) \/ Datagram \/ Done \/ (\E s \in Streams \cup {"udp"} : Lost(s))

\* The fork keeps it, or there is no client.
LEMMA StreamFork ==
  ASSUME NEW s \in Streams, Stream(s), Sock!fork
  PROVE  Stream(s)' \/ Lost(s)'
<1> USE DEF Streams, Sock!Procs, Cl, Sv, ClientPoints, ServerPoints
<1>1. PICK c \in {"connect", "none"} :
        soc_pc' = [p \in Sock!Procs |-> IF p = "client" THEN c
                                       ELSE IF soc_section = "unix" THEN "accept" ELSE "port"]
  BY DEF Sock!fork
<1>2. /\ soc_pc["server"] = "fork" /\ soc_pc["client"] = "unborn"
      /\ UNCHANGED <<soc_section, soc_port, soc_queue, soc_wire, soc_open, soc_i, soc_want,
                     soc_got, soc_buf, soc_replies, soc_lost>>
  BY DEF Sock!fork, Stream, Connected
<1>3. Left("server")' = Left("server") /\ Left("client")' = Left("client")
  BY <1>2 DEF Left
<1>4. CASE c = "connect"
  <2>1. StreamTypes(s)'
    BY <1>1, <1>2, <1>4 DEF Stream, StreamTypes
  <2>2. Connected(s)'
    BY <1>1, <1>2, <1>4 DEF Stream, StreamTypes, Connected
  <2>3. Requests(s)'
    BY <1>1, <1>2, <1>3, <1>4 DEF Stream, StreamTypes, Requests, Request, Answered
  <2>4. Answers(s)'
    BY <1>1, <1>2, <1>3, <1>4 DEF Stream, StreamTypes, Answers, Answer, Answered,
                                  Served
  <2>5. Received(s)'
    BY <1>1, <1>2, <1>4 DEF Stream, StreamTypes, Received, Served
  <2> QED
    BY <2>1, <2>2, <2>3, <2>4, <2>5 DEF Stream
<1>5. CASE c = "none"
  BY <1>1, <1>2, <1>5 DEF Stream, StreamTypes, Received, Lost, AllPoints
<1> QED
  BY <1>4, <1>5

\* Connecting keeps it.
LEMMA StreamMakeClient ==
  ASSUME NEW s \in Streams, Stream(s), Sock!make_client
  PROVE  Stream(s)'
<1> USE DEF Streams, Sock!Procs, Cl, Sv, ClientPoints, ServerPoints
<1>1. StreamTypes(s)'
  BY DEF Stream, StreamTypes, Sock!make_client, Sock!At
<1>2. Connected(s)'
  BY DEF Stream, StreamTypes, Connected, Sock!make_client, Sock!At
<1>3. Left("server")' = Left("server") /\ Left("client")' = Left("client")
  BY DEF Sock!make_client, Left
<1>4. Requests(s)'
  BY <1>3 DEF Stream, StreamTypes, Connected, Requests, Request, Answered,
              Sock!make_client, Sock!At
<1>5. Answers(s)'
  BY <1>3 DEF Stream, StreamTypes, Answers, Answer, Answered, Served,
              Sock!make_client, Sock!At
<1>6. Received(s)'
  BY DEF Stream, StreamTypes, Received, Served, Sock!make_client, Sock!At
<1> QED
  BY <1>1, <1>2, <1>4, <1>5, <1>6 DEF Stream

\* So does accepting,
LEMMA StreamAccept ==
  ASSUME NEW s \in Streams, Stream(s), Sock!accept
  PROVE  Stream(s)'
<1> USE DEF Streams, Sock!Procs, Cl, Sv, ClientPoints, ServerPoints
<1>1. StreamTypes(s)'
  BY DEF Stream, StreamTypes, Sock!accept, Sock!At
<1>2. Connected(s)'
  BY DEF Stream, StreamTypes, Connected, Sock!accept, Sock!At
<1>3. Left("server")' = Left("server") /\ Left("client")' = Left("client")
  BY DEF Sock!accept, Left
<1>4. Requests(s)'
  BY <1>3 DEF Stream, StreamTypes, Connected, Requests, Request, Answered,
              Sock!accept, Sock!At
<1>5. Answers(s)'
  BY <1>3 DEF Stream, StreamTypes, Requests, Answers, Answer, Answered, Served,
              Sock!accept, Sock!At
<1>6. Received(s)'
  BY DEF Stream, StreamTypes, Received, Served, Sock!accept, Sock!At
<1> QED
  BY <1>1, <1>2, <1>4, <1>5, <1>6 DEF Stream

\* and telling the client the port.
LEMMA StreamHandOverPort ==
  ASSUME NEW s \in Streams, Stream(s), Sock!hand_over_port
  PROVE  Stream(s)'
<1> USE DEF Streams, Sock!Procs, Cl, Sv, ClientPoints, ServerPoints
<1>1. StreamTypes(s)'
  BY DEF Stream, StreamTypes, Connected, Sock!hand_over_port, Sock!At
<1>2. Connected(s)'
  BY DEF Stream, StreamTypes, Connected, Sock!hand_over_port, Sock!At
<1>3. Left("server")' = Left("server") /\ Left("client")' = Left("client")
  BY DEF Sock!hand_over_port, Left
<1>4. Requests(s)'
  BY <1>3 DEF Stream, StreamTypes, Connected, Requests, Request, Answered,
              Sock!hand_over_port, Sock!At
<1>5. Answers(s)'
  BY <1>3 DEF Stream, StreamTypes, Connected, Answers, Answer, Answered, Served,
              Sock!hand_over_port, Sock!At
<1>6. Received(s)'
  BY DEF Stream, StreamTypes, Connected, Received, Served, Sock!hand_over_port,
     Sock!At
<1> QED
  BY <1>1, <1>2, <1>4, <1>5, <1>6 DEF Stream

\* Empty sequences.
LEMMA Empties ==
  ASSUME NEW g \in Seq(Nat), NEW w \in Seq(Nat)
  PROVE  /\ g \o w = <<>> => g = <<>> /\ w = <<>>
         /\ <<>> \o w = w /\ g \o <<>> = g
         /\ Len(g) = 0 => g = <<>>
         /\ Len(<<>>) = 0 /\ <<>> \in Seq(Nat)
BY ConcatEqualIffEmpty, ConcatEmptySeq, EmptySeq

\* Both sides are at messages of the section.
LEMMA InRange ==
  ASSUME NEW s \in Streams, Stream(s)
  PROVE  /\ Cl \in 1 .. Len(Sock!Msgs[s]) /\ Sv \in 1 .. Len(Sock!Msgs[s]) /\ Len(Sock!Msgs[s]) \in Nat
         /\ Goes(Message(s, Cl)) /\ Goes(Echo(s, Cl)) /\ Len(Echo(s, Cl)) > 0
<1>1. Cl \in 1 .. Len(Sock!Msgs[s]) /\ Sv \in 1 .. Len(Sock!Msgs[s])
  BY DEF Stream, StreamTypes, Cl, Sv, Sock!Procs
<1>2. s \in DOMAIN Sock!Msgs
  BY DEF Sock!Msgs, Streams
<1> QED
  BY <1>1, <1>2, Messages

\* send_msg of the client, the length byte: the server has consumed all before it.
LEMMA StreamClientSendsLen ==
  ASSUME NEW s \in Streams, Stream(s), Sock!send_len("client")
  PROVE  Stream(s)'
<1> DEFINE m == Message(s, Cl)
<1> USE DEF Streams, Sock!Procs, ClientPoints, ServerPoints
<1>1. m \in Seq(Nat) /\ Len(m) \in Nat /\ Len(m) % BYTE = Len(m)
  BY InRange DEF Goes
<1>2. /\ soc_pc["client"] = "send_len"
      /\ soc_pc' = [soc_pc EXCEPT !["client"] = "send_body"]
      /\ Sock!send("client", <<Len(Sock!outgoing("client")) % BYTE>>)
      /\ UNCHANGED <<soc_section, soc_port, soc_queue, soc_open, soc_i, soc_want,
                     soc_got, soc_buf, soc_replies, soc_lost>>
  BY DEF Sock!send_len, Sock!At
<1>3. Sock!outgoing("client") = m
  BY DEF Sock!outgoing, Message, Cl, Stream, StreamTypes
<1>4. /\ Left("server") = <<>> /\ soc_want["server"] = 1
      /\ \/ Sv = Cl /\ soc_pc["server"] \in {"port", "accept", "recv_len"}
         \/ Sv + 1 = Cl /\ soc_pc["server"] = "next"
      /\ soc_pc["server"] # "recv_len" => soc_got["server"] = <<>>
  BY <1>2 DEF Stream, StreamTypes, Connected, Requests, Request
<1>5. "server" \in soc_open \/ soc_queue
  BY <1>2, <1>4 DEF Stream, StreamTypes, Connected
<1>6. soc_got \in [Sock!Procs -> Seq(Nat)] /\ soc_wire \in [Sock!Procs -> Seq(Nat)]
  BY DEF Stream, StreamTypes
<1>7. soc_got["server"] = <<>> /\ soc_wire["server"] = <<>>
  BY <1>4, <1>6, Empties DEF Left
<1>8. soc_wire' = [soc_wire EXCEPT !["server"] = <<Len(m)>>]
  <2>1. soc_wire' = [soc_wire EXCEPT !["server"] = soc_wire["server"] \o <<Len(m)>>]
    BY <1>1, <1>2, <1>3, <1>5 DEF Sock!send, Sock!Peer
  <2> QED
    BY <1>1, <1>7, <2>1, FrameLen
<1>9. Left("server")' = <<Len(m)>>
  BY <1>1, <1>2, <1>6, <1>7, <1>8, FrameLen DEF Left
<1>10. Left("client")' = Left("client") /\ soc_wire'["client"] = soc_wire["client"]
  BY <1>2, <1>6, <1>8 DEF Left
<1> USE DEF Cl, Sv
<1>11. StreamTypes(s)'
  BY <1>1, <1>2, <1>8, FrameLen DEF Stream, StreamTypes
<1>12. Connected(s)'
  BY <1>2 DEF Stream, StreamTypes, Connected
<1>13. Requests(s)'
  BY <1>2, <1>4, <1>7, <1>9, Empties DEF Stream, StreamTypes, Requests, Request
<1>14. Answers(s)'
  BY <1>2, <1>4, <1>10 DEF Stream, StreamTypes, Answers, Answer, Answered, Served
<1>15. Received(s)'
  BY <1>2 DEF Stream, StreamTypes, Received, Served
<1> QED
  BY <1>11, <1>12, <1>13, <1>14, <1>15 DEF Stream

\* send_msg of the client, the body; the server may have read the length already.
LEMMA StreamClientSendsBody ==
  ASSUME NEW s \in Streams, Stream(s), Sock!send_body("client")
  PROVE  Stream(s)'
<1> DEFINE m == Message(s, Cl)
<1> USE DEF Streams, Sock!Procs, ClientPoints, ServerPoints
<1>1. m \in Seq(Nat) /\ Len(m) \in Nat /\ Len(m) % BYTE = Len(m) /\ SubSeq(m, 1, Len(m)) = m
  BY InRange DEF Goes
<1>2. /\ soc_pc["client"] = "send_body"
      /\ soc_pc' = [soc_pc EXCEPT !["client"] = "recv_len"]
      /\ Sock!send("client", SubSeq(Sock!outgoing("client"), 1, Len(Sock!outgoing("client")) % BYTE))
      /\ soc_want' = [soc_want EXCEPT !["client"] = 1]
      /\ soc_got' = [soc_got EXCEPT !["client"] = <<>>]
      /\ UNCHANGED <<soc_section, soc_port, soc_queue, soc_open, soc_i, soc_buf,
                     soc_replies, soc_lost>>
  BY DEF Sock!send_body, Sock!At, Sock!after_send
<1>3. Sock!outgoing("client") = m
  BY DEF Sock!outgoing, Message, Cl, Stream, StreamTypes
<1>4. soc_got \in [Sock!Procs -> Seq(Nat)] /\ soc_wire \in [Sock!Procs -> Seq(Nat)]
  BY DEF Stream, StreamTypes
<1>5. soc_wire' = [soc_wire EXCEPT !["server"] = soc_wire["server"] \o m]
  <2>1. ("server" \in soc_open \/ soc_queue) \/ m = <<>>
    BY <1>2 DEF Stream, StreamTypes, Connected, Requests, Answered
  <2>2. CASE "server" \in soc_open \/ soc_queue
    BY <1>1, <1>2, <1>3, <2>2 DEF Sock!send, Sock!Peer
  <2>3. CASE m = <<>> /\ ~("server" \in soc_open \/ soc_queue)
    <3>1. soc_wire' = soc_wire
      BY <1>2, <2>3 DEF Sock!send, Sock!Peer
    <3>2. soc_wire["server"] \o m = soc_wire["server"]
      BY <1>4, <2>3, Empties
    <3> QED
      BY <1>4, <3>1, <3>2
  <2> QED
    BY <2>1, <2>2, <2>3
<1>6. soc_wire["server"] \o m \in Seq(Nat)
  BY <1>1, <1>4, Joined
<1>7. Left("server")' = Left("server") \o m
  BY ZenonT(60), <1>1, <1>2, <1>4, <1>5, Assoc DEF Left
<1>8. /\ Left("client")' = soc_wire["client"]
      /\ soc_wire'["client"] = soc_wire["client"]
  BY <1>2, <1>4, <1>5, Empties DEF Left
<1>9. /\ Left("server") = <<Len(m)>> => Left("server")' = Frame(m)
      /\ Left("server") = <<>> => Left("server")' = m
      /\ m = <<>> /\ soc_wire["server"] = <<>> => soc_wire'["server"] = <<>>
  BY <1>1, <1>4, <1>5, <1>7, FrameLen, Empties
<1> USE DEF Cl, Sv
<1>10. StreamTypes(s)'
  BY <1>2, <1>5, <1>6, Empties DEF Stream, StreamTypes
<1>11. Connected(s)'
  BY <1>2 DEF Stream, StreamTypes, Connected
<1>12. Requests(s)'
  BY <1>2, <1>9 DEF Stream, StreamTypes, Requests, Request, Answered
<1>13. Answers(s)'
  BY <1>2, <1>4, <1>8, Empties DEF Stream, StreamTypes, Answers, Answer, Answered,
                                   Served
<1>14. Received(s)'
  BY <1>2 DEF Stream, StreamTypes, Received, Served
<1> QED
  BY <1>10, <1>11, <1>12, <1>13, <1>14 DEF Stream

\* send_msg of the server, the length byte.
LEMMA StreamServerSendsLen ==
  ASSUME NEW s \in Streams, Stream(s), Sock!send_len("server")
  PROVE  Stream(s)'
<1> DEFINE e == Echo(s, Cl)
<1> USE DEF Streams, Sock!Procs, ClientPoints, ServerPoints
<1>1. e \in Seq(Nat) /\ Len(e) \in Nat /\ Len(e) % BYTE = Len(e)
  BY InRange DEF Goes
<1>2. /\ soc_pc["server"] = "send_len"
      /\ soc_pc' = [soc_pc EXCEPT !["server"] = "send_body"]
      /\ Sock!send("server", <<Len(Sock!outgoing("server")) % BYTE>>)
      /\ UNCHANGED <<soc_section, soc_port, soc_queue, soc_open, soc_i, soc_want,
                     soc_got, soc_buf, soc_replies, soc_lost>>
  BY DEF Sock!send_len, Sock!At
<1>3. /\ Sv = Cl /\ soc_buf["server"] = Message(s, Cl) /\ soc_wire["server"] = <<>>
      /\ soc_pc["client"] \in {"recv_len", "recv_body", "next", "close", "exited"}
         \/ (soc_pc["client"] = "send_body" /\ Message(s, Cl) = <<>>)
  BY <1>2 DEF Stream, StreamTypes, Requests, Answered
<1>4. Sock!outgoing("server") = e
  BY <1>3 DEF Sock!outgoing, Message, Echo
<1>5. ~Answered /\ Answer(s) = <<>>
  BY <1>2 DEF Answered, Answer
<1>6. \/ soc_pc["client"] = "send_body" /\ soc_wire["client"] = <<>>
      \/ soc_pc["client"] = "recv_len" /\ soc_want["client"] = 1 /\ Left("client") = <<>>
  BY <1>2, <1>3, <1>5 DEF Stream, Answers, Served
<1>7. "client" \in soc_open
  BY <1>6 DEF Stream, StreamTypes, Connected
<1>8. soc_got \in [Sock!Procs -> Seq(Nat)] /\ soc_wire \in [Sock!Procs -> Seq(Nat)]
  BY DEF Stream, StreamTypes
<1>9. soc_wire["client"] = <<>> /\ (soc_pc["client"] = "recv_len" => soc_got["client"] = <<>>)
  BY <1>6, <1>8, Empties DEF Left
<1>10. soc_wire' = [soc_wire EXCEPT !["client"] = <<Len(e)>>]
  <2>1. soc_wire' = [soc_wire EXCEPT !["client"] = soc_wire["client"] \o <<Len(e)>>]
    BY <1>1, <1>2, <1>4, <1>7 DEF Sock!send, Sock!Peer
  <2> QED
    BY <1>1, <1>9, <2>1, FrameLen
<1>11. soc_pc["client"] = "recv_len" => Left("client")' = <<Len(e)>>
  BY <1>1, <1>2, <1>8, <1>9, <1>10, FrameLen DEF Left
<1>12. /\ Left("server")' = Left("server")
       /\ soc_wire'["server"] = soc_wire["server"]
       /\ soc_wire'["client"] = <<Len(e)>>
  BY <1>2, <1>8, <1>10 DEF Left
<1> USE DEF Cl, Sv
<1>13. StreamTypes(s)'
  BY <1>1, <1>2, <1>10, FrameLen DEF Stream, StreamTypes
<1>14. Connected(s)'
  BY <1>2 DEF Stream, StreamTypes, Connected
<1>15. Requests(s)'
  BY <1>2, <1>3, <1>12 DEF Stream, StreamTypes, Requests
<1>16. Answers(s)'
  BY <1>2, <1>3, <1>6, <1>9, <1>11, <1>12, Empties DEF Stream, StreamTypes,
                                                       Answers, Answer, Answered
<1>17. Received(s)'
  BY <1>2 DEF Stream, StreamTypes, Received, Served
<1> QED
  BY <1>13, <1>14, <1>15, <1>16, <1>17 DEF Stream

\* send_msg of the server, the body: now the answer is complete.
LEMMA StreamServerSendsBody ==
  ASSUME NEW s \in Streams, Stream(s), Sock!send_body("server")
  PROVE  Stream(s)'
<1> DEFINE e == Echo(s, Cl)
<1> USE DEF Streams, Sock!Procs, ClientPoints, ServerPoints
<1>1. e \in Seq(Nat) /\ Len(e) \in Nat /\ Len(e) % BYTE = Len(e) /\ SubSeq(e, 1, Len(e)) = e
  BY InRange DEF Goes
<1>2. /\ soc_pc["server"] = "send_body"
      /\ soc_pc' = [soc_pc EXCEPT !["server"] = "next"]
      /\ Sock!send("server", SubSeq(Sock!outgoing("server"), 1, Len(Sock!outgoing("server")) % BYTE))
      /\ soc_want' = [soc_want EXCEPT !["server"] = 1]
      /\ soc_got' = [soc_got EXCEPT !["server"] = <<>>]
      /\ UNCHANGED <<soc_section, soc_port, soc_queue, soc_open, soc_i, soc_buf,
                     soc_replies, soc_lost>>
  BY DEF Sock!send_body, Sock!At, Sock!after_send
<1>3. /\ Sv = Cl /\ soc_buf["server"] = Message(s, Cl) /\ soc_wire["server"] = <<>>
      /\ soc_pc["client"] \in {"recv_len", "recv_body", "next", "close", "exited"}
         \/ (soc_pc["client"] = "send_body" /\ Message(s, Cl) = <<>>)
  BY <1>2 DEF Stream, StreamTypes, Requests, Answered
<1>4. Sock!outgoing("server") = e
  BY <1>3 DEF Sock!outgoing, Message, Echo
<1>5. ~Answered /\ Answer(s) = <<Len(e)>>
  BY <1>2, <1>3 DEF Answered, Answer
<1>6. \/ soc_pc["client"] = "send_body" /\ soc_wire["client"] = <<Len(e)>>
      \/ /\ soc_pc["client"] = "recv_len" /\ soc_want["client"] = 1 /\ Len(soc_got["client"]) <= 1
         /\ Left("client") = <<Len(e)>>
      \/ soc_pc["client"] = "recv_body" /\ soc_want["client"] = Len(e) /\ Left("client") = <<>>
  BY <1>3, <1>5 DEF Stream, Answers, Served
<1>7. "client" \in soc_open
  BY <1>6 DEF Stream, StreamTypes, Connected
<1>8. soc_got \in [Sock!Procs -> Seq(Nat)] /\ soc_wire \in [Sock!Procs -> Seq(Nat)]
  BY DEF Stream, StreamTypes
<1>9. soc_wire' = [soc_wire EXCEPT !["client"] = soc_wire["client"] \o e]
  BY <1>1, <1>2, <1>4, <1>7 DEF Sock!send, Sock!Peer
<1>10. soc_wire["client"] \o e \in Seq(Nat)
  BY <1>1, <1>8, Joined
<1>11. Left("client")' = Left("client") \o e
  <2>1. /\ soc_got'["client"] = soc_got["client"]
        /\ soc_wire'["client"] = soc_wire["client"] \o e
    BY <1>2, <1>8, <1>9
  <2>2. (soc_got["client"] \o soc_wire["client"]) \o e = soc_got["client"] \o (soc_wire["client"] \o e)
    <3>1. /\ soc_got["client"] \in Seq(Nat) /\ soc_wire["client"] \in Seq(Nat)
          /\ e \in Seq(Nat)
      BY <1>1, <1>8
    <3> HIDE DEF e
    <3> QED
      BY <3>1, Assoc
  <2> QED
    BY <2>1, <2>2 DEF Left
<1>12. /\ soc_wire["client"] = <<Len(e)>> => soc_wire'["client"] = Frame(e)
       /\ Left("client") = <<Len(e)>> => Left("client")' = Frame(e)
       /\ Left("client") = <<>> => Left("client")' = e
       /\ soc_wire'["server"] = <<>>
  BY <1>1, <1>3, <1>8, <1>9, <1>11, FrameLen, Empties
<1> USE DEF Cl, Sv
<1>13. StreamTypes(s)'
  BY <1>2, <1>9, <1>10, Empties DEF Stream, StreamTypes
<1>14. Connected(s)'
  BY <1>2 DEF Stream, StreamTypes, Connected
<1>15. Answered'
  BY <1>2, <1>3 DEF Stream, StreamTypes, Answered
<1>16. Requests(s)'
  BY <1>2, <1>3, <1>12, <1>15 DEF Stream, StreamTypes, Requests
<1>17. Answers(s)'
  BY <1>2, <1>6, <1>12, <1>15 DEF Stream, StreamTypes, Answers, Answer
<1>18. Received(s)'
  BY <1>2 DEF Stream, StreamTypes, Received, Served
<1> QED
  BY <1>13, <1>14, <1>16, <1>17, <1>18 DEF Stream

\* recv, however many bytes it returns.
LEMMA StreamReceives ==
  ASSUME NEW s \in Streams, Stream(s), NEW p \in Sock!Procs, Sock!recv_some(p)
  PROVE  Stream(s)'
<1> USE DEF Streams, Sock!Procs, ClientPoints, ServerPoints
<1>1. PICK k \in 1 .. Len(soc_wire[p]) :
         /\ k <= soc_want[p] - Len(soc_got[p])
         /\ soc_got' = [soc_got EXCEPT ![p] = soc_got[p] \o SubSeq(soc_wire[p], 1, k)]
         /\ soc_wire' = [soc_wire EXCEPT ![p] = SubSeq(soc_wire[p], k + 1, Len(soc_wire[p]))]
  BY DEF Sock!recv_some
<1>2. /\ soc_pc[p] \in {"recv_len", "recv_body"}
      /\ UNCHANGED <<soc_section, soc_pc, soc_port, soc_queue, soc_open, soc_i,
                     soc_want, soc_buf, soc_replies, soc_lost>>
  BY DEF Sock!recv_some
<1>3. /\ soc_got \in [Sock!Procs -> Seq(Nat)] /\ soc_wire \in [Sock!Procs -> Seq(Nat)] /\ soc_want[p] \in Nat
      /\ Len(soc_got[p]) \in Nat /\ Len(soc_wire[p]) \in Nat
  BY LenProperties DEF Stream, StreamTypes
<1>4. /\ soc_got'[p] \in Seq(Nat) /\ Len(soc_got'[p]) = Len(soc_got[p]) + k
      /\ soc_wire'[p] \in Seq(Nat) /\ soc_got'[p] \o soc_wire'[p] = soc_got[p] \o soc_wire[p]
  <2> DEFINE g == soc_got[p]
             w == soc_wire[p]
  <2>1. /\ soc_got'[p] = g \o SubSeq(w, 1, k)
        /\ soc_wire'[p] = SubSeq(w, k + 1, Len(w))
    BY <1>1, <1>3
  <2>2. g \in Seq(Nat) /\ w \in Seq(Nat) /\ k \in 1 .. Len(w)
    BY <1>3
  <2> HIDE DEF g, w
  <2>3. /\ g \o SubSeq(w, 1, k) \in Seq(Nat)
        /\ Len(g \o SubSeq(w, 1, k)) = Len(g) + k
        /\ SubSeq(w, k + 1, Len(w)) \in Seq(Nat)
        /\ (g \o SubSeq(w, 1, k)) \o SubSeq(w, k + 1, Len(w)) = g \o w
    BY <2>2, Split
  <2> QED
    BY <2>1, <2>3 DEF g, w
<1>5. Len(soc_got'[p]) <= soc_want[p]
  BY <1>1, <1>3, <1>4
<1>6. soc_wire[p] # <<>>
  BY <1>1, <1>3, Empties
<1>7. \A q \in Sock!Procs : Left(q)' = Left(q)
  BY <1>1, <1>3, <1>4 DEF Left
<1>8. \A q \in Sock!Procs : q # p => soc_got'[q] = soc_got[q] /\ soc_wire'[q] = soc_wire[q]
  BY <1>1, <1>3
<1> USE DEF Cl, Sv
<1>9. StreamTypes(s)'
  BY <1>1, <1>2, <1>3, <1>4 DEF Stream, StreamTypes
<1>10. Connected(s)'
  BY <1>2 DEF Stream, StreamTypes, Connected
<1>11. Requests(s)'
  BY <1>2, <1>5, <1>6, <1>7, <1>8 DEF Stream, StreamTypes, Requests, Request,
                                      Answered
<1>12. Answers(s)'
  BY ZenonT(60), <1>2, <1>5, <1>6, <1>7, <1>8 DEF Stream, StreamTypes, Answers, Answer,
                                      Answered, Served
<1>13. Received(s)'
  BY <1>2 DEF Stream, StreamTypes, Received, Served
<1> QED
  BY <1>9, <1>10, <1>11, <1>12, <1>13 DEF Stream

\* recv_msg of the server has the length: the client is still there.
LEMMA StreamServerLen ==
  ASSUME NEW s \in Streams, Stream(s), Sock!recv_len("server")
  PROVE  Stream(s)'
<1> DEFINE m == Message(s, Cl)
<1> USE DEF Streams, Sock!Procs, ClientPoints, ServerPoints
<1>1. m \in Seq(Nat) /\ Len(m) \in Nat /\ Len(m) < BUFSZ
  BY InRange DEF Goes
<1>2. soc_got \in [Sock!Procs -> Seq(Nat)] /\ soc_wire \in [Sock!Procs -> Seq(Nat)]
  BY DEF Stream, StreamTypes
<1>3. "client" \in soc_open
  <2>1. soc_pc["server"] = "recv_len"
    BY DEF Sock!recv_len
  <2>2. soc_pc["client"] \notin {"unborn", "connect"}
    BY <2>1 DEF Stream, Connected
  <2>3. soc_pc["client"] # "exited"
    <3>1. SUFFICES ASSUME soc_pc["client"] = "exited" PROVE FALSE
      OBVIOUS
    <3>2. Cl = Len(Sock!Msgs[s])
      BY <3>1 DEF Stream, Received
    <3>3. Answered
      BY <3>1 DEF Stream, Answers
    <3> QED
      BY <2>1, <3>2, <3>3, InRange DEF Answered
  <2> QED
    BY <2>2, <2>3 DEF Stream, StreamTypes, Connected
<1>4. Len(soc_got["server"]) = 1 /\ Sv = Cl /\ Left("server") = Request(s)
  <2>1. Len(soc_got["server"]) = soc_want["server"] /\ soc_pc["server"] = "recv_len"
    BY <1>3 DEF Sock!recv_len, Sock!recv_all_returns, Sock!eof, Sock!Peer
  <2>2. Len(<<>>) = 0
    OBVIOUS
  <2> QED
    BY <2>1, <2>2 DEF Stream, Requests
<1>5. Request(s) # <<>>
  <2>1. Left("server") = <<>> => Len(soc_got["server"]) = 0
    BY <1>2, Empties DEF Left
  <2> QED
    BY <1>4, <2>1
<1>6. soc_got["server"][1] = Len(m) /\ soc_wire["server"] \in {<<>>, m}
      /\ (soc_wire["server"] = IF soc_pc["client"] = "send_body" THEN <<>> ELSE m)
      /\ soc_pc["client"] \notin {"unborn", "connect", "send_len"}
  <2>1. soc_pc["client"] \notin {"unborn", "connect", "send_len"}
    BY <1>5 DEF Request
  <2> DEFINE g == soc_got["server"]
             w == soc_wire["server"]
  <2>2. g \in Seq(Nat) /\ w \in Seq(Nat) /\ m \in Seq(Nat) /\ Len(g) = 1
    BY <1>1, <1>2, <1>4
  <2>3. g \o w = IF soc_pc["client"] = "send_body" THEN <<Len(m)>> ELSE Frame(m)
    BY <1>4, <2>1 DEF Left, Request
  <2> HIDE DEF g, w, m
  <2>4. g[1] = Len(m) /\ w = IF soc_pc["client"] = "send_body" THEN <<>> ELSE m
    <3>1. /\ g \o w = Frame(m) => g[1] = Len(m) /\ w = m
          /\ g \o w = <<Len(m)>> => g[1] = Len(m) /\ w = <<>>
      BY <2>2, FrameFirst, Zenon
    <3> QED
      BY <2>3, <3>1
  <2> QED
    BY <2>1, <2>4 DEF g, w
<1>7. /\ soc_pc' = [soc_pc EXCEPT !["server"] = "recv_body"]
      /\ soc_want' = [soc_want EXCEPT !["server"] = Len(m)]
      /\ soc_got' = [soc_got EXCEPT !["server"] = <<>>]
      /\ UNCHANGED <<soc_section, soc_port, soc_queue, soc_wire, soc_open, soc_i,
                     soc_buf, soc_replies, soc_lost>>
  <2>1. BUFSZ \in Nat
    BY SocketMessagesFit DEF Sock!MessagesFit
  <2> QED
    BY <1>1, <1>4, <1>6, <2>1 DEF Sock!recv_len
<1>8. Left("server")' = soc_wire["server"] /\ Left("client")' = Left("client")
  BY <1>2, <1>7, Empties DEF Left
<1>9. /\ soc_pc["server"] = "recv_len"
      /\ soc_pc["client"] \in {"send_body", "recv_len"}
  <2>1. soc_pc["server"] = "recv_len"
    BY DEF Sock!recv_len
  <2>2. ~Answered
    BY <1>4, <2>1, InRange DEF Answered
  <2> QED
    BY <1>6, <2>1, <2>2 DEF Stream, StreamTypes, Answers, Served
<1> USE DEF Cl, Sv
<1>10. StreamTypes(s)'
  BY <1>1, <1>7, Empties DEF Stream, StreamTypes
<1>11. Connected(s)'
  BY <1>7, <1>9 DEF Stream, StreamTypes, Connected
<1>12. Requests(s)'
  BY <1>4, <1>6, <1>7, <1>8, <1>9 DEF Stream, StreamTypes, Requests
<1>13. Answers(s)'
  BY <1>4, <1>7, <1>8, <1>9 DEF Stream, StreamTypes, Answers, Answer, Answered
<1>14. Received(s)'
  BY <1>7 DEF Stream, StreamTypes, Received, Served
<1> QED
  BY <1>10, <1>11, <1>12, <1>13, <1>14 DEF Stream

\* recv_msg of the server has the message.
LEMMA StreamServerBody ==
  ASSUME NEW s \in Streams, Stream(s), Sock!recv_body("server")
  PROVE  Stream(s)'
<1> DEFINE m == Message(s, Cl)
<1> USE DEF Streams, Sock!Procs, ClientPoints, ServerPoints
<1>1. m \in Seq(Nat) /\ Len(m) \in Nat
  BY InRange DEF Goes
<1>2. soc_got \in [Sock!Procs -> Seq(Nat)] /\ soc_wire \in [Sock!Procs -> Seq(Nat)]
  BY DEF Stream, StreamTypes
<1>3. /\ soc_pc' = [soc_pc EXCEPT !["server"] = "send_len"]
      /\ soc_buf' = [soc_buf EXCEPT !["server"] = soc_got["server"]]
      /\ UNCHANGED <<soc_section, soc_port, soc_queue, soc_wire, soc_open, soc_i,
                     soc_want, soc_got, soc_replies, soc_lost>>
      /\ soc_pc["server"] = "recv_body"
  BY DEF Sock!recv_body
<1>4. /\ Sv = Cl /\ soc_want["server"] = Len(m)
      /\ \/ soc_pc["client"] = "send_body" /\ Left("server") = <<>>
         \/ soc_pc["client"] = "recv_len" /\ Left("server") = m
  BY <1>3 DEF Stream, Requests, Answered
<1>5. Len(soc_got["server"]) = Len(m)
  BY <1>4 DEF Sock!recv_body, Sock!recv_all_returns, Sock!eof, Sock!Peer, Stream,
              StreamTypes, Connected
<1>7. soc_got["server"] = m /\ soc_wire["server"] = <<>> /\ (soc_pc["client"] = "send_body" => m = <<>>)
  <2>1. CASE soc_pc["client"] = "send_body" /\ Left("server") = <<>>
    <3>1. soc_got["server"] = <<>> /\ soc_wire["server"] = <<>>
      BY <1>2, <2>1, Empties DEF Left
    <3>2. m = <<>>
      BY <1>1, <1>5, <3>1, Empties
    <3> QED
      BY <3>1, <3>2
  <2>2. CASE soc_pc["client"] = "recv_len" /\ Left("server") = m
    BY <1>1, <1>2, <1>5, <2>2, Whole DEF Left
  <2> QED
    BY <1>4, <2>1, <2>2
<1>8. Left("client")' = Left("client")
  BY <1>3 DEF Left
<1> USE DEF Cl, Sv
<1>9. StreamTypes(s)'
  BY <1>2, <1>3 DEF Stream, StreamTypes
<1>10. Connected(s)'
  BY <1>3 DEF Stream, StreamTypes, Connected
<1>11. Requests(s)'
  BY <1>3, <1>4, <1>7 DEF Stream, StreamTypes, Requests
<1>12. Answers(s)'
  BY <1>3, <1>4, <1>8 DEF Stream, StreamTypes, Answers, Answer, Answered, Served
<1>13. Received(s)'
  BY <1>3 DEF Stream, StreamTypes, Received, Served
<1> QED
  BY <1>9, <1>10, <1>11, <1>12, <1>13 DEF Stream

\* recv_msg of the client has the length: end of file cannot come before the answer.
LEMMA StreamClientLen ==
  ASSUME NEW s \in Streams, Stream(s), Sock!recv_len("client")
  PROVE  Stream(s)'
<1> DEFINE e == Echo(s, Cl)
<1> USE DEF Streams, Sock!Procs, ClientPoints, ServerPoints
<1>1. e \in Seq(Nat) /\ Len(e) \in Nat /\ Len(e) < BUFSZ /\ Len(e) > 0
  BY InRange DEF Goes
<1>2. soc_got \in [Sock!Procs -> Seq(Nat)] /\ soc_wire \in [Sock!Procs -> Seq(Nat)]
  BY DEF Stream, StreamTypes
<1>3. soc_pc["client"] = "recv_len"
  BY DEF Sock!recv_len
<1>4. /\ soc_want["client"] = 1 /\ Len(soc_got["client"]) <= 1
      /\ Left("client") = Answer(s)
  BY <1>3 DEF Stream, Answers, Served
<1>5. ~Sock!eof("client")
  <2>1. SUFFICES ASSUME Sock!eof("client") PROVE FALSE
    OBVIOUS
  <2>2. soc_wire["client"] = <<>> /\ "server" \notin soc_open /\ ~soc_queue
    BY <2>1 DEF Sock!eof, Sock!Peer
  <2>3. soc_pc["server"] = "waitpid"
    BY <1>3, <2>2 DEF Stream, StreamTypes, Connected
  <2>4. Answered
    BY <2>3 DEF Stream, Requests
  <2>5. Left("client") = Frame(e)
    BY <1>4, <2>4 DEF Answer
  <2>6. soc_got["client"] = Frame(e)
    BY <1>2, <2>2, <2>5, Empties DEF Left
  <2>7. Len(soc_got["client"]) = Len(e) + 1
    BY <1>1, <2>6, FrameLen
  <2> QED
    BY <1>1, <1>4, <2>7
<1>6. Len(soc_got["client"]) = 1
  BY <1>4, <1>5 DEF Sock!recv_len, Sock!recv_all_returns
<1>7. Answer(s) # <<>>
  <2>1. Left("client") = <<>> => Len(soc_got["client"]) = 0
    BY <1>2, Empties DEF Left
  <2> QED
    BY <1>4, <1>6, <2>1
<1>8. /\ soc_got["client"][1] = Len(e)
      /\ soc_wire["client"] = IF Answered THEN e ELSE <<>>
      /\ Answered \/ (Sv = Cl /\ soc_pc["server"] = "send_body")
  <2>1. Answered \/ (Sv = Cl /\ soc_pc["server"] = "send_body")
    BY <1>7 DEF Answer
  <2> DEFINE g == soc_got["client"]
             w == soc_wire["client"]
  <2>2. g \in Seq(Nat) /\ w \in Seq(Nat) /\ e \in Seq(Nat) /\ Len(g) = 1
    BY <1>1, <1>2, <1>6
  <2>3. g \o w = IF Answered THEN Frame(e) ELSE <<Len(e)>>
    BY <1>4, <2>1 DEF Left, Answer
  <2> HIDE DEF g, w, e
  <2>4. g[1] = Len(e) /\ w = IF Answered THEN e ELSE <<>>
    <3>1. /\ g \o w = Frame(e) => g[1] = Len(e) /\ w = e
          /\ g \o w = <<Len(e)>> => g[1] = Len(e) /\ w = <<>>
      BY <2>2, FrameFirst, Zenon
    <3> QED
      BY <2>3, <3>1
  <2> QED
    BY <2>1, <2>4 DEF g, w
<1>9. /\ soc_pc' = [soc_pc EXCEPT !["client"] = "recv_body"]
      /\ soc_want' = [soc_want EXCEPT !["client"] = Len(e)]
      /\ soc_got' = [soc_got EXCEPT !["client"] = <<>>]
      /\ UNCHANGED <<soc_section, soc_port, soc_queue, soc_wire, soc_open, soc_i,
                     soc_buf, soc_replies, soc_lost>>
  <2>1. BUFSZ \in Nat
    BY SocketMessagesFit DEF Sock!MessagesFit
  <2> QED
    BY <1>1, <1>6, <1>8, <2>1 DEF Sock!recv_len
<1>10. Left("client")' = soc_wire["client"] /\ Left("server")' = Left("server")
  BY <1>2, <1>9, Empties DEF Left
<1> USE DEF Cl, Sv
<1>11. StreamTypes(s)'
  BY <1>1, <1>9, Empties DEF Stream, StreamTypes
<1>12. Connected(s)'
  BY <1>3, <1>9 DEF Stream, StreamTypes, Connected
<1>13. Requests(s)'
  BY <1>3, <1>8, <1>9, <1>10, InRange DEF Stream, StreamTypes, Requests, Request,
                                          Answered
<1>14. Answers(s)'
  BY <1>8, <1>9, <1>10 DEF Stream, StreamTypes, Answers, Answered
<1>15. Received(s)'
  BY <1>3, <1>9 DEF Stream, StreamTypes, Received, Served
<1> QED
  BY <1>11, <1>12, <1>13, <1>14, <1>15 DEF Stream

\* recv_msg of the client has the echo of its message.
LEMMA StreamClientBody ==
  ASSUME NEW s \in Streams, Stream(s), Sock!recv_body("client")
  PROVE  Stream(s)'
<1> DEFINE e == Echo(s, Cl)
<1> USE DEF Streams, Sock!Procs, ClientPoints, ServerPoints
<1>1. e \in Seq(Nat) /\ Len(e) \in Nat /\ Len(e) > 0
  BY InRange DEF Goes
<1>2. soc_got \in [Sock!Procs -> Seq(Nat)] /\ soc_wire \in [Sock!Procs -> Seq(Nat)]
  BY DEF Stream, StreamTypes
<1>3. /\ soc_pc' = [soc_pc EXCEPT !["client"] = "next"]
      /\ soc_buf' = [soc_buf EXCEPT !["client"] = soc_got["client"]]
      /\ soc_replies' = Append(soc_replies, soc_got["client"])
      /\ UNCHANGED <<soc_section, soc_port, soc_queue, soc_wire, soc_open, soc_i,
                     soc_want, soc_got, soc_lost>>
      /\ soc_pc["client"] = "recv_body"
  BY DEF Sock!recv_body
<1>4. /\ soc_want["client"] = Len(e)
      /\ \/ Sv = Cl /\ soc_pc["server"] = "send_body" /\ Left("client") = <<>>
         \/ Answered /\ Left("client") = e
  BY <1>3 DEF Stream, Answers, Served
<1>5. Len(soc_got["client"]) = Len(e) \/ (soc_wire["client"] = <<>> /\ "server" \notin soc_open)
  BY <1>4 DEF Sock!recv_body, Sock!recv_all_returns, Sock!eof, Sock!Peer
<1>6. Answered /\ Left("client") = e
  <2>1. SUFFICES ASSUME soc_pc["server"] = "send_body", Left("client") = <<>> PROVE FALSE
    BY <1>4
  <2>2. Len(soc_got["client"]) = 0
    BY <1>2, <2>1, Empties DEF Left
  <2>3. "server" \in soc_open
    BY <2>1 DEF Stream, StreamTypes, Connected
  <2> QED
    BY <1>1, <1>5, <2>2, <2>3
<1>7. soc_got["client"] = e /\ soc_wire["client"] = <<>>
  <2>1. CASE Len(soc_got["client"]) = Len(e)
    BY <1>1, <1>2, <1>6, <2>1, Whole DEF Left
  <2>2. CASE soc_wire["client"] = <<>>
    BY <1>2, <1>6, <2>2, Empties DEF Left
  <2> QED
    BY <1>5, <2>1, <2>2
<1>8. Left("server")' = Left("server")
  BY <1>3 DEF Left
<1>9. Received(s)'
  <2>1. soc_replies \in Seq(Seq(Nat)) /\ Len(soc_replies) = Cl - 1 /\ \A j \in 1 .. Len(soc_replies) : soc_replies[j] = Echo(s, j)
    BY <1>3 DEF Stream, StreamTypes, Received, Served
  <2>2. /\ Len(soc_replies') = Len(soc_replies) + 1
        /\ \A j \in 1 .. Len(soc_replies) : soc_replies'[j] = soc_replies[j]
        /\ soc_replies'[Len(soc_replies) + 1] = e
    BY <1>1, <1>3, <1>7, <2>1, AppendProperties
  <2>3. Cl' = Cl /\ Sv' = Sv /\ Cl \in Nat
    BY <1>3, InRange DEF Cl, Sv
  <2>4. Len(soc_replies') = Cl /\ \A j \in 1 .. Cl : soc_replies'[j] = Echo(s, j)
    BY <2>1, <2>2, <2>3
  <2>5. soc_pc'["client"] = "next" /\ soc_pc'["server"] = soc_pc["server"]
    BY <1>3 DEF Stream, StreamTypes
  <2> QED
    BY <2>3, <2>4, <2>5 DEF Stream, Received, Served
<1> USE DEF Cl, Sv
<1>10. StreamTypes(s)'
  BY <1>1, <1>2, <1>3, <1>7, AppendProperties DEF Stream, StreamTypes
<1>11. Connected(s)'
  BY <1>3 DEF Stream, StreamTypes, Connected
<1>12. Requests(s)'
  BY <1>3, <1>6, <1>8, InRange DEF Stream, StreamTypes, Requests, Request, Answered
<1>13. Answers(s)'
  BY <1>3, <1>6, <1>7 DEF Stream, StreamTypes, Answers, Answered, Served
<1> QED
  BY <1>9, <1>10, <1>11, <1>12, <1>13 DEF Stream

\* The client's loop goes on, or ends with the last message.
LEMMA StreamClientNext ==
  ASSUME NEW s \in Streams, Stream(s), Sock!next_message("client")
  PROVE  Stream(s)'
<1> USE DEF Streams, Sock!Procs, ClientPoints, ServerPoints
<1>1. /\ Cl \in Nat /\ Sv \in Nat /\ Len(Sock!Msgs[s]) \in Nat /\ Cl <= Len(Sock!Msgs[s]) /\ Sv <= Len(Sock!Msgs[s])
      /\ Cl > 0
  BY InRange
<1>2. /\ soc_pc["client"] = "next" /\ soc_section = s
      /\ UNCHANGED <<soc_section, soc_port, soc_queue, soc_wire, soc_open,
                     soc_want, soc_got, soc_buf, soc_replies, soc_lost>>
  BY DEF Sock!next_message, Stream, StreamTypes
<1>3. Answered /\ soc_wire["client"] = <<>>
  BY <1>2 DEF Stream, Answers, Served
<1>4. /\ soc_got["server"] = <<>> /\ soc_want["server"] = 1
      /\ soc_wire["server"] = <<>>
  BY <1>1, <1>2, <1>3 DEF Stream, Requests, Answered
<1>5. Left("server")' = <<>> /\ Len(<<>>) = 0
  BY <1>2, <1>4, Empties DEF Left
<1> USE DEF Cl, Sv
<1>6. CASE Cl < Len(Sock!Msgs[s])
  <2>1. /\ soc_i' = [soc_i EXCEPT !["client"] = Cl + 1]
        /\ soc_pc' = [soc_pc EXCEPT !["client"] = "send_len"]
    BY <1>2, <1>6 DEF Sock!next_message
  <2>2. StreamTypes(s)'
    BY <1>1, <1>2, <1>6, <2>1 DEF Stream, StreamTypes
  <2>3. Connected(s)'
    BY <1>2, <2>1 DEF Stream, StreamTypes, Connected
  <2>4. /\ Cl' = Cl + 1 /\ Sv' = Sv /\ soc_pc'["client"] = "send_len"
        /\ soc_pc'["server"] = soc_pc["server"]
    BY <2>1 DEF Stream, StreamTypes
  <2>5. soc_pc["server"] \notin {"close", "waitpid"}
    BY <1>1, <1>3, <1>6 DEF Stream, Received, Answered
  <2>6. Requests(s)'
    BY <1>1, <1>2, <1>3, <1>4, <1>5, <2>4, <2>5 DEF Requests, Request, Answered
  <2>7. Answers(s)'
    BY <1>1, <1>2, <1>3, <2>4, <2>5 DEF Answers, Answer, Answered
  <2>8. Received(s)'
    BY <1>1, <1>2, <2>4, <2>5 DEF Stream, Received, Served
  <2> QED
    BY <2>2, <2>3, <2>6, <2>7, <2>8 DEF Stream
<1>7. CASE ~(Cl < Len(Sock!Msgs[s]))
  <2>1. soc_i' = soc_i /\ soc_pc' = [soc_pc EXCEPT !["client"] = "close"]
    BY <1>2, <1>7 DEF Sock!next_message
  <2>2. StreamTypes(s)'
    BY <1>2, <2>1 DEF Stream, StreamTypes
  <2>3. Connected(s)'
    BY <1>2, <2>1 DEF Stream, StreamTypes, Connected
  <2>4. Requests(s)'
    BY <1>1, <1>2, <1>3, <1>4, <2>1 DEF Stream, StreamTypes, Requests, Answered
  <2>5. Answers(s)'
    BY <1>2, <1>3, <2>1 DEF Stream, StreamTypes, Answers, Answered, Served
  <2>6. Received(s)'
    BY <1>1, <1>2, <1>7, <2>1 DEF Stream, StreamTypes, Received, Served
  <2> QED
    BY <2>2, <2>3, <2>4, <2>5, <2>6 DEF Stream
<1> QED
  BY <1>6, <1>7

\* The server's loop goes on, or ends with the last message.
LEMMA StreamServerNext ==
  ASSUME NEW s \in Streams, Stream(s), Sock!next_message("server")
  PROVE  Stream(s)'
<1> USE DEF Streams, Sock!Procs, ClientPoints, ServerPoints
<1>1. /\ Cl \in Nat /\ Sv \in Nat /\ Len(Sock!Msgs[s]) \in Nat /\ Cl <= Len(Sock!Msgs[s]) /\ Sv <= Len(Sock!Msgs[s])
      /\ Sv > 0
  BY InRange
<1>2. /\ soc_pc["server"] = "next" /\ soc_section = s
      /\ UNCHANGED <<soc_section, soc_port, soc_queue, soc_wire, soc_open,
                     soc_want, soc_got, soc_buf, soc_replies, soc_lost>>
  BY DEF Sock!next_message, Stream, StreamTypes
<1>3. /\ Left("server")' = Left("server") /\ Left("client")' = Left("client")
      /\ Len(<<>>) = 0
  BY <1>2 DEF Left
<1> USE DEF Cl, Sv
<1>4. CASE Sv < Len(Sock!Msgs[s])
  <2>1. /\ soc_i' = [soc_i EXCEPT !["server"] = Sv + 1]
        /\ soc_pc' = [soc_pc EXCEPT !["server"] = "recv_len"]
    BY <1>2, <1>4 DEF Sock!next_message
  <2>2. StreamTypes(s)'
    BY <1>1, <1>2, <1>4, <2>1 DEF Stream, StreamTypes
  <2>3. Connected(s)'
    BY <1>2, <2>1 DEF Stream, StreamTypes, Connected
  <2>4. /\ Sv' = Sv + 1 /\ Cl' = Cl /\ soc_pc'["server"] = "recv_len"
        /\ soc_pc'["client"] = soc_pc["client"]
    BY <2>1 DEF Stream, StreamTypes
  <2>5. Requests(s)'
    BY <1>1, <1>2, <1>3, <2>4 DEF Stream, Requests, Request, Answered
  <2>6. Answers(s)'
    BY <1>1, <1>2, <1>3, <2>4 DEF Stream, Requests, Answers, Answer, Answered,
                                  Served
  <2>7. Received(s)'
    BY <1>1, <1>2, <2>4 DEF Stream, Received, Served
  <2> QED
    BY <2>2, <2>3, <2>5, <2>6, <2>7 DEF Stream
<1>5. CASE ~(Sv < Len(Sock!Msgs[s]))
  <2>1. soc_i' = soc_i /\ soc_pc' = [soc_pc EXCEPT !["server"] = "close"]
    BY <1>2, <1>5 DEF Sock!next_message
  <2>2. StreamTypes(s)'
    BY <1>2, <2>1 DEF Stream, StreamTypes
  <2>3. Connected(s)'
    BY <1>2, <2>1 DEF Stream, StreamTypes, Connected
  <2>4. /\ Sv' = Sv /\ Cl' = Cl /\ soc_pc'["server"] = "close"
        /\ soc_pc'["client"] = soc_pc["client"]
    BY <2>1 DEF Stream, StreamTypes
  <2>5. Requests(s)'
    BY <1>1, <1>2, <1>3, <1>5, <2>4 DEF Stream, Requests, Request, Answered
  <2>6. Answers(s)'
    BY <1>1, <1>2, <1>3, <1>5, <2>4 DEF Stream, Requests, Answers, Answer,
                                        Answered, Served
  <2>7. Received(s)'
    BY <1>1, <1>2, <1>5, <2>4 DEF Stream, Received, Served
  <2> QED
    BY <2>2, <2>3, <2>5, <2>6, <2>7 DEF Stream
<1> QED
  BY <1>4, <1>5

\* Either side closes.
LEMMA StreamCloses ==
  ASSUME NEW s \in Streams, Stream(s), NEW p \in Sock!Procs, Sock!close_socket(p)
  PROVE  Stream(s)'
<1> USE DEF Streams, Sock!Procs, ClientPoints, ServerPoints, Cl, Sv
<1>1. /\ soc_pc[p] = "close" /\ soc_pc' = [soc_pc EXCEPT ![p] = IF p = "client" THEN "exited" ELSE "waitpid"]
      /\ soc_open' = soc_open \ {p}
      /\ UNCHANGED <<soc_section, soc_port, soc_queue, soc_wire, soc_i, soc_want,
                     soc_got, soc_buf, soc_replies, soc_lost>>
  BY DEF Sock!close_socket, Sock!At
<1>2. Left("server")' = Left("server") /\ Left("client")' = Left("client")
  BY <1>1 DEF Left
<1>3. StreamTypes(s)'
  BY <1>1 DEF Stream, StreamTypes
<1>4. Connected(s)'
  BY <1>1 DEF Stream, StreamTypes, Connected
<1>5. Requests(s)'
  BY <1>1, <1>2, InRange DEF Stream, StreamTypes, Requests, Request, Answered
<1>6. Answers(s)'
  BY <1>1, <1>2 DEF Stream, StreamTypes, Answers, Answer, Answered, Served
<1>7. Received(s)'
  BY <1>1 DEF Stream, StreamTypes, Received, Served
<1> QED
  BY <1>3, <1>4, <1>5, <1>6, <1>7 DEF Stream

\* A stream section at its start.
Fresh(s) ==
    /\ soc_section = s /\ soc_port = "none" /\ soc_queue = FALSE /\ soc_open = {} /\ soc_replies = <<>>
    /\ soc_pc = [p \in Sock!Procs |-> IF p = "client" THEN "unborn" ELSE "fork"]
    /\ soc_wire = [p \in Sock!Procs |-> <<>>] /\ soc_got = [p \in Sock!Procs |-> <<>>] /\ soc_buf \in [Sock!Procs -> Garbage]
    /\ soc_i = [p \in Sock!Procs |-> 1] /\ soc_want = [p \in Sock!Procs |-> 1]

\* The invariant holds there.
LEMMA StreamStart ==
  ASSUME NEW s \in Streams
  PROVE  Fresh(s) => Stream(s)
<1> SUFFICES ASSUME Fresh(s) PROVE Stream(s)
  OBVIOUS
<1> USE DEF Fresh
<1> USE DEF Streams, Sock!Procs, ClientPoints, ServerPoints, Cl, Sv
<1>1. s \in DOMAIN Sock!Msgs
  BY DEF Sock!Msgs
<1>2. 1 \in 1 .. Len(Sock!Msgs[s])
  BY <1>1, Messages
<1>3. /\ <<>> \in Seq(Nat) /\ <<>> \in Seq(Seq(Nat)) /\ Len(<<>>) = 0
      /\ <<>> \o <<>> = <<>> /\ Garbage \subseteq Seq(Nat)
  BY EmptySeq, Empties, SocketMessagesFit DEF Sock!MessagesFit
<1>4. StreamTypes(s)
  BY <1>2, <1>3 DEF StreamTypes
<1>5. Connected(s)
  BY DEF Connected
<1>6. Left("server") = <<>> /\ Left("client") = <<>>
  BY <1>3 DEF Left
<1>7. Requests(s)
  BY <1>3, <1>6 DEF Requests, Request
<1>8. Answers(s)
  BY DEF Answers, Answer, Answered
<1>9. Received(s)
  BY <1>3 DEF Received, Served
<1> QED
  BY <1>4, <1>5, <1>7, <1>8, <1>9 DEF Stream

\* It holds when main starts,
LEMMA SockInit == ~MayBeShort /\ Sock!Init => SockInv
<1> SUFFICES ASSUME Sock!Init PROVE Stream("tcp")
  BY DEF SockInv, Streams
<1> QED
  BY StreamStart DEF Sock!Init, Streams, Fresh

\* when the Unix-domain section follows the UDP section,
LEMMA UnixStart == Fresh("unix")' => Stream("unix")'
<1>1. Fresh("unix") => Stream("unix")
  BY StreamStart DEF Streams
<1> QED
  BY <1>1, PTL

\* and at the start of every section.
LEMMA SockStart ==
  ASSUME NEW s \in {"udp", "unix", "done"}, Sock!Start(s), ~MayBeShort
  PROVE  SockInv'
<1>1. CASE s = "unix"
  <2>1. "unix" \in Streams
    BY DEF Streams
  <2>2. Stream("unix")'
    <3>1. Fresh("unix")'
      BY <1>1 DEF Sock!Start, Fresh
    <3> QED
      BY <3>1, UnixStart
  <2> QED
    BY <2>1, <2>2 DEF SockInv
<1>2. CASE s = "udp"
  <2>1. <<>> \in Seq(Nat) /\ <<>> \in Seq(Seq(Nat)) /\ Garbage \subseteq Seq(Nat)
    BY EmptySeq, SocketMessagesFit DEF Sock!MessagesFit
  <2>2. Datagram'
    BY <1>2, <2>1 DEF Sock!Start, Datagram, DatagramPoints, Sock!Procs
  <2> QED
    BY <2>2 DEF SockInv
<1>3. CASE s = "done"
  BY <1>3 DEF Sock!Start, SockInv, Done
<1> QED
  BY <1>1, <1>2, <1>3

\* Every step of a stream section keeps it or starts the next one.
LEMMA StreamStep ==
  ASSUME NEW s \in Streams, Stream(s), Sock!Next, ~MayBeShort
  PROVE  SockInv'
<1>1. /\ soc_pc["client"] \in ClientPoints /\ soc_pc["server"] \in ServerPoints
      /\ soc_section = s /\ soc_section # "done"
  BY DEF Stream, StreamTypes, Streams
<1>2. Stream(s)' => SockInv'
  BY DEF SockInv
<1>3. Lost(s)' => SockInv'
  BY DEF SockInv
<1>4. ASSUME NEW p \in Sock!Procs, Sock!transfer(p) PROVE Stream(s)'
  <2>1. ~Sock!sendto(p) /\ ~Sock!recvfrom(p)
    BY <1>1 DEF Sock!sendto, Sock!recvfrom, Sock!At, Sock!Procs, ClientPoints,
                ServerPoints
  <2>2. CASE Sock!send_msg(p)
    <3>1. Sock!send_len(p) \/ Sock!send_body(p)
      BY <2>2 DEF Sock!send_msg, Sock!send_short
    <3> QED
      BY <3>1, StreamClientSendsLen, StreamClientSendsBody,
         StreamServerSendsLen, StreamServerSendsBody
      DEF Sock!Procs
  <2>3. CASE Sock!recv_msg(p)
    BY <2>3, StreamReceives, StreamServerLen, StreamServerBody, StreamClientLen,
       StreamClientBody
    DEF Sock!recv_msg, Sock!Procs
  <2>4. CASE Sock!next_message(p) \/ Sock!close_socket(p)
    BY <2>4, StreamClientNext, StreamServerNext, StreamCloses DEF Sock!Procs
  <2> QED
    BY <1>4, <2>1, <2>2, <2>3, <2>4 DEF Sock!transfer
<1>5. CASE Sock!server
  <2>1. CASE Sock!server_waitpid
    <3>1. Sock!Start(IF s = "tcp" THEN "udp" ELSE "done")
      BY <1>1, <2>1 DEF Sock!server_waitpid, Streams
    <3> QED
      BY <3>1, SockStart
  <2> QED
    BY <1>2, <1>4, <1>5, <1>3, <2>1, StreamFork, StreamHandOverPort, StreamAccept
       DEF Sock!server, Sock!Procs
<1>6. CASE Sock!client
  <2>1. CASE Sock!make_client_fails
    <3>1. soc_pc["server"] = "accept" /\ ~soc_queue
      BY <1>1, <2>1 DEF Sock!make_client_fails, Sock!At, Stream, Connected, Streams
    <3>2. Lost(s)'
      BY <1>1, <2>1, <3>1 DEF Sock!make_client_fails, Sock!At, Lost, Stream,
                              StreamTypes,
                              Received, Sock!Procs, ClientPoints, ServerPoints, AllPoints
    <3> QED
      BY <1>3, <3>2
  <2> QED
    BY <1>2, <1>4, <1>6, <2>1, StreamMakeClient DEF Sock!client, Sock!Procs
<1>7. CASE Sock!client_dies
  <2>1. soc_pc["server"] # "fork"
    BY <1>7 DEF Sock!client_dies, Stream, Connected
  <2>2. Lost(s)'
    BY <1>1, <1>7, <2>1 DEF Sock!client_dies, Lost, Stream, StreamTypes, Received,
                      Sock!Procs, ClientPoints, ServerPoints, AllPoints
  <2> QED
    BY <1>3, <2>2
<1> QED
  BY <1>1, <1>5, <1>6, <1>7 DEF Sock!Next

\* A server without its client finishes the section or waits for ever.
LEMMA LostStep ==
  ASSUME NEW s \in Streams \cup {"udp"}, Lost(s), Sock!Next, ~MayBeShort
  PROVE  SockInv'
<1> USE DEF Sock!Procs, Streams
<1>1. /\ soc_pc["client"] \in {"none", "killed", "exited"}
      /\ soc_pc["server"] \in (ServerPoints \ {"fork"}) \cup {"sendto", "recvfrom"}
      /\ soc_section = s /\ soc_section # "done"
  BY DEF Lost
<1>2. ~Sock!client_dies /\ ~Sock!fork
  BY <1>1 DEF Sock!client_dies, Sock!Gone, Sock!fork
<1>3. ~Sock!client
  BY <1>1 DEF Sock!client, Sock!make_client, Sock!make_client_fails, Sock!transfer,
              Sock!send_msg, Sock!send_len, Sock!send_body, Sock!send_short,
              Sock!recv_msg, Sock!recv_some, Sock!recv_len, Sock!recv_body,
              Sock!next_message, Sock!close_socket, Sock!sendto, Sock!recvfrom, Sock!At
<1>4. CASE Sock!server_waitpid
  <2>1. Sock!Start(IF s = "tcp" THEN "udp" ELSE IF s = "udp" THEN "unix" ELSE "done")
    BY <1>1, <1>4 DEF Sock!server_waitpid
  <2> QED
    BY <2>1, SockStart
<1>5. CASE Sock!hand_over_port \/ Sock!accept \/ Sock!transfer("server")
  <2> USE <1>1 DEF ServerPoints, ClientPoints, AllPoints
  <2>1. soc_replies' = soc_replies /\ soc_section' = soc_section
    BY <1>5 DEF Sock!hand_over_port, Sock!accept, Sock!transfer, Sock!send_msg,
                Sock!send_len,
                Sock!send_body, Sock!send_short, Sock!recv_msg, Sock!recv_some, Sock!recv_len,
                Sock!recv_body, Sock!next_message, Sock!close_socket, Sock!sendto, Sock!recvfrom
  <2>2. soc_pc["server"] = "accept" => soc_queue
    BY <1>5 DEF Sock!hand_over_port, Sock!accept, Sock!transfer, Sock!send_msg,
                Sock!send_len,
                Sock!send_body, Sock!send_short, Sock!recv_msg, Sock!recv_some, Sock!recv_len,
                Sock!recv_body, Sock!next_message, Sock!close_socket, Sock!sendto, Sock!recvfrom,
                Sock!At
  <2>3. \/ soc_pc' = soc_pc
        \/ \E x \in (ServerPoints \ {"fork"}) \cup {"sendto", "recvfrom"} :
              soc_pc' = [soc_pc EXCEPT !["server"] = x]
    BY <1>5 DEF Sock!hand_over_port, Sock!accept, Sock!transfer, Sock!send_msg,
                Sock!send_len,
                Sock!send_body, Sock!send_short, Sock!after_send, Sock!recv_msg, Sock!recv_some,
                Sock!recv_len, Sock!recv_body, Sock!next_message, Sock!close_socket, Sock!sendto,
                Sock!recvfrom, Sock!At
  <2>4. soc_pc["client"] # "exited"
    BY <2>2 DEF Lost
  <2>5. Lost(s)'
    BY <2>1, <2>3, <2>4 DEF Lost
  <2> QED
    BY <2>5 DEF SockInv
<1> QED
  BY <1>1, <1>2, <1>3, <1>4, <1>5 DEF Sock!Next, Sock!server

\* Every step of the UDP section.
LEMMA DatagramStep ==
  ASSUME Datagram, Sock!Next, ~MayBeShort
  PROVE  SockInv'
<1> USE DEF Sock!Procs, DatagramPoints
<1>1. /\ soc_pc["client"] \in {"unborn", "connect", "sendto", "recvfrom", "close", "exited"}
      /\ soc_pc["server"] \in {"fork", "port", "recvfrom", "sendto", "close", "waitpid"} /\ soc_section = "udp"
  BY DEF Datagram
<1>2. ASSUME Datagram' PROVE SockInv'
  BY <1>2 DEF SockInv
<1>3. /\ Message("udp", 1) \in Seq(Nat) /\ Echo("udp", 1) \in Seq(Nat)
      /\ Message("udp", 1) = Sock!Msgs["udp"][1] /\ Echo("udp", 1) = Sock!echo(Message("udp", 1))
  <2>1. "udp" \in DOMAIN Sock!Msgs
    BY DEF Sock!Msgs
  <2> QED
    BY <2>1, Messages DEF Goes, Message, Echo
<1>4. CASE Sock!make_client
  BY <1>2, <1>4 DEF Sock!make_client, Sock!At, Datagram
<1>5. CASE Sock!hand_over_port
  BY <1>2, <1>5 DEF Sock!hand_over_port, Sock!At, Datagram
<1>6. ASSUME NEW p \in Sock!Procs, Sock!sendto(p) PROVE Datagram'
  <2> DEFINE x == IF p = "client" THEN Message("udp", 1) ELSE Sock!echo(soc_buf[p])
  <2>1. soc_wire[Sock!Peer(p)] = <<>> /\ (p = "server" => soc_buf[p] = Message("udp", 1)) /\ Sock!Peer(p) \in Sock!Procs
    BY <1>6 DEF Sock!sendto, Sock!At, Datagram, Sock!Peer
  <2>2. x \in Seq(Nat) /\ x = IF p = "client" THEN Message("udp", 1) ELSE Echo("udp", 1)
    BY <1>3, <2>1
  <2>3. Append(<<>>, x) = <<x>> /\ <<x>> \in Seq(Seq(Nat))
    BY <2>2
  <2>4. soc_wire' = soc_wire \/ soc_wire' = [soc_wire EXCEPT ![Sock!Peer(p)] = <<x>>]
    BY <1>3, <1>6, <2>1, <2>3 DEF Sock!sendto
  <2>5. soc_wire' \in [Sock!Procs -> Seq(Seq(Nat))]
    BY <2>1, <2>3, <2>4 DEF Datagram
  <2>6. CASE p = "client"
    BY <1>6, <2>2, <2>4, <2>5, <2>6 DEF Sock!sendto, Sock!At, Datagram, Sock!Peer
  <2>7. CASE p = "server"
    BY <1>6, <2>2, <2>4, <2>5, <2>7 DEF Sock!sendto, Sock!At, Datagram, Sock!Peer
  <2> QED
    BY <2>6, <2>7
<1>7. ASSUME NEW p \in Sock!Procs, Sock!recvfrom(p) PROVE Datagram'
  <2>1. soc_wire[p] = <<IF p = "client" THEN Echo("udp", 1) ELSE Message("udp", 1)>>
    BY <1>7 DEF Sock!recvfrom, Sock!At, Datagram
  <2>2. Head(soc_wire[p]) = (IF p = "client" THEN Echo("udp", 1) ELSE Message("udp", 1)) /\ Tail(soc_wire[p]) = <<>>
    BY <2>1
  <2>3. soc_wire' = [soc_wire EXCEPT ![p] = <<>>] /\ <<>> \in Seq(Seq(Nat))
    BY <1>7, <2>2, EmptySeq DEF Sock!recvfrom
  <2>4. CASE p = "client"
    BY <1>3, <1>7, <2>2, <2>3, <2>4 DEF Sock!recvfrom, Sock!At, Datagram
  <2>5. CASE p = "server"
    BY <1>3, <1>7, <2>2, <2>3, <2>5 DEF Sock!recvfrom, Sock!At, Datagram
  <2> QED
    BY <2>4, <2>5
<1>8. ASSUME NEW p \in Sock!Procs, Sock!close_socket(p) PROVE Datagram'
  BY <1>8 DEF Sock!close_socket, Sock!At, Datagram
<1>9. ASSUME NEW p \in Sock!Procs, Sock!transfer(p) PROVE Datagram'
  BY <1>1, <1>6, <1>7, <1>8, <1>9
  DEF Sock!transfer, Sock!send_msg, Sock!send_len, Sock!send_body, Sock!send_short,
      Sock!recv_msg, Sock!recv_some, Sock!recv_len, Sock!recv_body, Sock!next_message, Sock!At
<1>10. CASE Sock!server_waitpid
  <2>1. Sock!Start("unix")
    BY <1>1, <1>10 DEF Sock!server_waitpid
  <2> QED
    BY <2>1, SockStart
<1>11. ~Sock!accept /\ ~Sock!make_client_fails
  BY <1>1 DEF Sock!accept, Sock!make_client_fails, Sock!At
<1>12. ASSUME soc_pc' \in [Sock!Procs -> AllPoints], soc_pc'["client"] \in {"none", "killed"},
              soc_pc'["server"] \in {"port", "recvfrom", "sendto", "close", "waitpid"},
              UNCHANGED <<soc_section, soc_replies>>
       PROVE  SockInv'
  <2>1. soc_replies \in {<<>>, <<Echo("udp", 1)>>}
    BY DEF Datagram
  <2>2. soc_replies \in Seq(Seq(Nat)) /\ \A j \in 1 .. Len(soc_replies) : soc_replies[j] = Echo("udp", j)
    <3>1. <<Echo("udp", 1)>> \in Seq(Seq(Nat)) /\ Len(<<Echo("udp", 1)>>) = 1
      BY <1>3
    <3>2. <<>> \in Seq(Seq(Nat)) /\ Len(<<>>) = 0
      BY EmptySeq
    <3>3. CASE soc_replies = <<>>
      BY <3>2, <3>3
    <3>4. CASE soc_replies = <<Echo("udp", 1)>>
      <4>1. soc_replies[1] = Echo("udp", 1)
        BY <3>4
      <4>2. \A j \in 1 .. 1 : j = 1
        OBVIOUS
      <4> QED
        BY <3>1, <3>4, <4>1, <4>2
    <3> QED
      BY <2>1, <3>3, <3>4
  <2>3. Lost("udp")'
    BY <1>1, <1>12, <2>2 DEF Lost, ServerPoints
  <2> QED
    BY <2>3 DEF SockInv
<1>13. CASE Sock!client_dies
  <2>1. soc_pc["server"] # "fork"
    BY <1>13 DEF Sock!client_dies, Datagram
  <2>2. /\ soc_pc' = [soc_pc EXCEPT !["client"] = "killed"]
        /\ UNCHANGED <<soc_section, soc_replies>>
    BY <1>13 DEF Sock!client_dies
  <2>3. soc_pc' \in [Sock!Procs -> AllPoints]
    BY <2>2 DEF Datagram, AllPoints, ClientPoints, ServerPoints
  <2> QED
    BY <1>1, <1>12, <2>1, <2>2, <2>3 DEF Datagram
<1>14. CASE Sock!fork
  <2>1. PICK c \in {"connect", "none"} :
          soc_pc' = [p \in Sock!Procs |-> IF p = "client" THEN c ELSE "port"]
    BY <1>1, <1>14 DEF Sock!fork
  <2>2. CASE c = "connect"
    <3>1. Datagram'
      BY <1>14, <2>1, <2>2 DEF Sock!fork, Datagram
    <3> QED
      BY <1>2, <3>1
  <2>3. CASE c = "none"
    BY <1>12, <1>14, <2>1, <2>3 DEF Sock!fork, AllPoints, ClientPoints, ServerPoints
  <2> QED
    BY <2>2, <2>3
<1> QED
  BY <1>1, <1>2, <1>4, <1>5, <1>9, <1>10, <1>11, <1>13, <1>14
     DEF Sock!Next, Sock!server,
                                                    Sock!client

\* Nothing happens after main has returned.
LEMMA DoneStep ==
  ASSUME Done, Sock!Next, ~MayBeShort
  PROVE  SockInv'
<1>1. soc_pc["client"] = "done" /\ soc_pc["server"] = "done" /\ soc_open = {}
  BY DEF Done, Sock!Procs
<1>2. ~Sock!server /\ ~Sock!client /\ ~Sock!client_dies
  BY <1>1 DEF Sock!server, Sock!client, Sock!client_dies, Sock!fork,
              Sock!hand_over_port, Sock!make_client_fails, Sock!send_len, Sock!send_body,
              Sock!send_short, Sock!accept, Sock!server_waitpid, Sock!make_client, Sock!transfer,
              Sock!send_msg, Sock!recv_msg, Sock!recv_some, Sock!recv_len, Sock!recv_body, Sock!next_message, Sock!close_socket, Sock!sendto,
              Sock!recvfrom, Sock!At
<1> QED
  BY <1>2 DEF Sock!Next, Sock!vars, SockInv, Done

\* The invariant is inductive.
LEMMA SockStep == SockInv /\ [Sock!Next]_Sock!vars => SockInv'
<1> SUFFICES ASSUME SockInv, [Sock!Next]_Sock!vars PROVE SockInv'
  OBVIOUS
<1>1. CASE Sock!Next
  BY <1>1, StreamStep, LostStep, DatagramStep, DoneStep DEF SockInv
<1>2. CASE UNCHANGED Sock!vars
  <2>1. Datagram' = Datagram /\ Done' = Done
    BY <1>2 DEF Sock!vars, Datagram, Done
  <2>2. ASSUME NEW s \in Streams \cup {"udp"} PROVE Stream(s)' = Stream(s) /\ Lost(s)' = Lost(s)
    BY <1>2 DEF Sock!vars, Stream, StreamTypes, Connected, Requests, Request,
                Answers, Answer, Answered, Received,
                Served, Cl, Sv, Left, Lost
  <2> QED
    BY <2>1, <2>2 DEF SockInv
<1> QED
  BY <1>1, <1>2

(***************************************************************************)
(* For any messages whose echo fits the buffers, however recv cuts and     *)
(* joins the bytes, whether or not the fork and the connect succeed and    *)
(* wherever a client is killed: as long as no send is short, the j-th      *)
(* reply is the echo of the j-th message in all three socket sections, and *)
(* a client that was served has every reply with no byte left over.        *)
(***************************************************************************)
THEOREM EveryReplyIsItsEcho == ~MayBeShort /\ Sock!Spec => []RightReply
<1>1. SockInv => RightReply
  <2> SUFFICES ASSUME SockInv PROVE RightReply
    OBVIOUS
  <2>1. ASSUME NEW s \in Streams, Stream(s) PROVE RightReply
    <3>1. /\ soc_section = s /\ soc_replies \in Seq(Seq(Nat))
          /\ soc_wire \in [Sock!Procs -> Seq(Nat)]
      BY <2>1 DEF Stream, StreamTypes
    <3>2. \A j \in DOMAIN soc_replies : soc_replies[j] = Sock!echo(Sock!Msgs[soc_section][j])
      BY <2>1, <3>1, LenProperties DEF Stream, Received, Echo
    <3>3. ASSUME soc_pc["server"] = "waitpid", soc_pc["client"] = "exited"
          PROVE  Len(soc_replies) = Len(Sock!Msgs[soc_section]) /\ soc_wire = [p \in Sock!Procs |-> <<>>]
      <4>1. Len(soc_replies) = Len(Sock!Msgs[soc_section])
        BY <2>1, <3>1, <3>3 DEF Stream, Received, Served
      <4>2. soc_wire["client"] = <<>> /\ soc_wire["server"] = <<>>
        BY <2>1, <3>3 DEF Stream, Requests, Answers, Served
      <4> QED
        BY <3>1, <4>1, <4>2 DEF Sock!Procs
    <3> QED
      BY <3>2, <3>3 DEF Sock!RightReply, RightReply
  <2>2. ASSUME NEW s \in Streams \cup {"udp"}, Lost(s) PROVE RightReply
    BY <2>2, LenProperties DEF Lost, Sock!RightReply, RightReply, Echo
  <2>3. CASE Datagram
    <3>1. Len(Sock!Msgs["udp"]) = 1
      BY SocketMessagesFit DEF Sock!MessagesFit, Sock!Msgs
    <3>2. /\ soc_replies \in {<<>>, <<Echo("udp", 1)>>}
          /\ soc_wire \in [Sock!Procs -> Seq(Seq(Nat))] /\ soc_section = "udp"
      BY <2>3 DEF Datagram
    <3>3. \A j \in DOMAIN soc_replies : soc_replies[j] = Sock!echo(Sock!Msgs[soc_section][j])
      BY <3>2 DEF Echo
    <3>4. ASSUME soc_pc["server"] = "waitpid", soc_pc["client"] = "exited"
          PROVE  Len(soc_replies) = 1 /\ soc_wire = [p \in Sock!Procs |-> <<>>]
      <4>1. /\ soc_replies = <<Echo("udp", 1)>> /\ soc_wire["server"] = <<>>
            /\ soc_wire["client"] = <<>>
        BY <2>3, <3>4 DEF Datagram
      <4> QED
        BY <3>2, <4>1 DEF Sock!Procs
    <3> QED
      BY <3>1, <3>2, <3>3, <3>4 DEF Sock!RightReply, RightReply
  <2>4. CASE Done
    BY <2>4 DEF Done, Sock!RightReply, RightReply, Sock!Procs
  <2> QED
    BY <2>1, <2>2, <2>3, <2>4 DEF SockInv
<1> QED
  BY <1>1, SockInit, SockStep, PTL DEF Sock!Spec
===============================================================================
