----------------------------- MODULE AtomicStack -----------------------------
(***************************************************************************)
(* What the lock-free stack of exercise 29 promises: threads push their    *)
(* nodes and then pop until they find the stack empty, every push and pop  *)
(* taking effect at one instant.                                           *)
(***************************************************************************)
EXTENDS Naturals, Sequences

CONSTANTS Threads,   \* the threads using the stack
          Mine       \* Mine[t]: the nodes t pushes, in order

VARIABLES stack,     \* the nodes on the stack, top first
          sent,      \* how many of its nodes each thread has pushed
          popped,    \* what each thread's pops returned, in order
          gone       \* the threads that found the stack empty

stackVars == <<stack, sent, popped, gone>>

StackInit ==
    /\ stack = << >>
    /\ sent = [t \in Threads |-> 0]
    /\ popped = [t \in Threads |-> << >>]
    /\ gone = {}

Push(t) ==
    /\ sent[t] < Len(Mine[t])
    /\ sent' = [sent EXCEPT ![t] = @ + 1]
    /\ stack' = <<Mine[t][sent[t] + 1]>> \o stack
    /\ UNCHANGED <<popped, gone>>

Pop(t) ==
    /\ t \notin gone
    /\ stack # << >>
    /\ popped' = [popped EXCEPT ![t] = Append(@, Head(stack))]
    /\ stack' = Tail(stack)
    /\ UNCHANGED <<sent, gone>>

\* A pop may report an empty stack only when it is empty.
PopEmpty(t) ==
    /\ stack = << >>
    /\ gone' = gone \cup {t}
    /\ UNCHANGED <<stack, sent, popped>>

StackNext == \E t \in Threads : Push(t) \/ Pop(t) \/ PopEmpty(t)

StackSpec == StackInit /\ [][StackNext]_stackVars
==============================================================================
