----------------------------- MODULE BoundedFifo -----------------------------
(***************************************************************************)
(* What exercise 24's BQueue promises its users: a channel of capacity     *)
(* QCAP that one producer fills with 0, 1, .., NITEMS - 1 and then closes, *)
(* and from which several consumers take.  No locks, no condition          *)
(* variables, no ring: a put, a get and a close are single steps.          *)
(*                                                                         *)
(* channel is what is in flight, taken[c] what consumer c has received,    *)
(* open whether the producer may still put.                                *)
(***************************************************************************)
EXTENDS Naturals, Sequences

CONSTANTS QCAP,       \* capacity of the channel
          NITEMS,     \* how many items the producer puts
          Consumers   \* the consuming threads

VARIABLES channel, taken, sent, open

fifoVars == <<channel, taken, sent, open>>

Items == 0 .. NITEMS - 1

FifoInit ==
    /\ channel = << >>
    /\ taken = [c \in Consumers |-> << >>]
    /\ sent = 0
    /\ open = TRUE

\* The producer puts the next item; never into a full or a closed channel.
Put ==
    /\ open
    /\ sent < NITEMS
    /\ Len(channel) < QCAP
    /\ channel' = Append(channel, sent)
    /\ sent' = sent + 1
    /\ UNCHANGED <<taken, open>>

\* Consumer c receives the oldest item in flight, open channel or not.
Get(c) ==
    /\ channel # << >>
    /\ taken' = [taken EXCEPT ![c] = Append(@, Head(channel))]
    /\ channel' = Tail(channel)
    /\ UNCHANGED <<sent, open>>

\* The producer closes the channel once, after its last item.
Close ==
    /\ open
    /\ sent = NITEMS
    /\ open' = FALSE
    /\ UNCHANGED <<channel, taken, sent>>

FifoNext == Put \/ Close \/ \E c \in Consumers : Get(c)

FifoSpec == FifoInit /\ [][FifoNext]_fifoVars
==============================================================================
