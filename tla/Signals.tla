------------------------------- MODULE Signals -------------------------------
(***************************************************************************)
(* Exercise 23: signal(), flags set by handlers, sigaction() and blocking, *)
(* alarm(), and the counting handler of the last section, in the order     *)
(* main runs them.                                                         *)
(*                                                                         *)
(* A section is the sequence of its signal-related steps.  Between any two *)
(* of them the alarm may go off, and another process may send any of the   *)
(* five signals.  A standard signal is not queued: one that is already     *)
(* pending absorbs the next.  The standard leaves open whether a handler   *)
(* installed with signal() is gone after its first run (it is with the     *)
(* -std=c11 build, it is not with GNU defaults): both are modelled.  One   *)
(* installed with sigaction() stays.  The program starts with nothing      *)
(* blocked, and with each signal either at its default or ignored, as its  *)
(* parent left it.                                                         *)
(***************************************************************************)
EXTENDS Naturals, Sequences

CONSTANTS Outside,     \* bound on the signals other processes send
          TICKS,       \* iterations of the work loop (5)
          ITERATIONS   \* iterations of slow_operation (5)

\* What the program's own numbers satisfy.
SignalsAssumption ==
    /\ Outside \in Nat
    /\ TICKS \in Nat /\ TICKS >= 5
    /\ ITERATIONS \in Nat \ {0}

Sigs == {"INT", "USR1", "USR2", "TERM", "ALRM"}

Op(o, s, a) == [op |-> o, sig |-> s, arg |-> a]
Do(o) == Op(o, "none", "none")
\* signal(s, h): the previous disposition is not kept.
Install(s, h) == Op("install", s, h)
\* prev = signal(s, h) or sigaction(s, h, &old), and putting it back.
Replace(s, h) == Op("replace", s, h)
Restore(s) == Op("restore", s, "none")
Raise(s) == Op("raise", s, "none")
RaiseAt(s, tick) == Op("raise_at", s, tick)
Alarm(on) == Op("alarm", "ALRM", on)

section_signal ==
    <<Replace("INT", "simple"), Raise("INT"), Restore("INT"),
      Install("USR1", "IGN"), Raise("USR1"), Install("USR1", "DFL")>>

\* One tick: the two flag tests, the report and reset, the work, the raises.
section_atomic_flag ==
    <<Install("TERM", "shutdown"), Install("USR1", "usr1"), Do("enter_loop"),
      Do("if_shutdown"), Do("if_usr1"), Do("reset_usr1"), Do("work"),
      RaiseAt("USR1", 2), RaiseAt("TERM", 3), Do("again"), Do("end_loop"),
      Do("clear_shutdown"), Install("TERM", "DFL"), Install("USR1", "DFL")>>

\* The last five are 4c: handler, block, raise, restore the mask, restore the
\* disposition.
section_sigaction ==
    <<Replace("USR1", "sa_simple"), Raise("USR1"), Restore("USR1"),
      Replace("USR2", "sa_info"), Raise("USR2"), Restore("USR2"),
      Replace("USR1", "sa_simple"), Op("block", "USR1", "none"), Raise("USR1"),
      Do("setmask"), Restore("USR1")>>

\* slow_operation is the loop: each iteration looks at g_timed_out and works.
section_alarm ==
    <<Install("ALRM", "alarm"), Do("clear_timed_out"), Alarm(TRUE),
      Do("enter_loop"), Do("if_timed_out"), Do("slow_work"), Do("again"),
      Do("end_slow"), Alarm(FALSE), Alarm(TRUE), Alarm(FALSE),
      Install("ALRM", "DFL")>>

section_safety ==
    <<Replace("USR1", "safe"), Raise("USR1"), Raise("USR1"), Raise("USR1"),
      Do("read_count"), Restore("USR1")>>

main == <<section_signal, section_atomic_flag, section_sigaction,
          section_alarm, section_safety>>

-----------------------------------------------------------------------------
VARIABLES oneshot,    \* signal() handlers are reset when they run
          inherited,  \* the dispositions the program was started with
          section, pc, \* the section main is in, and its next step
          n,          \* iterations of the current loop
          disp, old,  \* disposition of each signal, and the one saved
          mask, pend, \* blocked signals, and those pending
          armed,      \* an alarm is scheduled
          flags,      \* what the handlers write
          rc,         \* slow_operation's result: "none", "ok", "timeout"
          late,       \* loop work done since the flag that should stop it
          critical,   \* main is between block and setmask
          inside,     \* handlers run while critical
          sent,       \* signals other processes have sent
          safe_sent,  \* of them, those to the counting handler
          printed,    \* the count main printed at the end
          death       \* whose signal ended the process: "none", "own" (raise
                      \* or the alarm), "outside"

given == <<oneshot, inherited>>
vars == <<oneshot, inherited, section, pc, n, disp, old, mask, pend, armed,
          flags, rc, late, critical, inside, sent, safe_sent, printed, death>>

Init ==
    /\ oneshot \in BOOLEAN /\ inherited \in [Sigs -> {"DFL", "IGN"}]
    /\ section = 1 /\ pc = 1 /\ n = 0
    /\ disp = inherited /\ old = "DFL"
    /\ mask = {} /\ pend = {}
    /\ armed = FALSE
    /\ flags = [shutdown |-> 0, usr1 |-> 0, timed_out |-> 0, count |-> 0]
    /\ rc = "none" /\ late = 0
    /\ critical = FALSE /\ inside = 0
    /\ sent = 0 /\ safe_sent = 0 /\ printed = 0
    /\ death = "none"

\* What running the handler h writes.
shutdown_handler(f) == [f EXCEPT !.shutdown = 1]
usr1_handler(f) == [f EXCEPT !.usr1 = 1]
alarm_handler(f) == [f EXCEPT !.timed_out = 1]
safe_handler(f) == [f EXCEPT !.count = @ + 1]
handler(h, f) ==
    CASE h = "shutdown" -> shutdown_handler(f)
      [] h = "usr1" -> usr1_handler(f)
      [] h = "alarm" -> alarm_handler(f)
      [] h = "safe" -> safe_handler(f)
      [] OTHER -> f      \* simple, sa_simple, sa_info only write a message

\* The handlers that signal() installs.
BySignal == {"simple", "shutdown", "usr1", "alarm"}

\* The disposition of s acts: a default ends the process, a handler runs.
deliver(s, by) ==
    /\ death' = IF disp[s] = "DFL" THEN by ELSE death
    /\ flags' = handler(disp[s], flags)
    /\ disp' = IF oneshot /\ disp[s] \in BySignal
               THEN [disp EXCEPT ![s] = "DFL"] ELSE disp

\* Generating s: blocked it stays pending, otherwise it is delivered now.
generate(s, by) ==
    IF s \in mask
    THEN /\ pend' = pend \cup {s}
         /\ UNCHANGED <<flags, death, disp, inside>>
    ELSE /\ deliver(s, by)
         /\ inside' = IF critical /\ disp[s] = "sa_simple"
                      THEN inside + 1 ELSE inside
         /\ UNCHANGED pend

-----------------------------------------------------------------------------
Ended == section > Len(main)
here == main[section]
now == here[pc]
is(op) == ~Ended /\ death = "none" /\ pc <= Len(here) /\ now.op = op
step == pc' = pc + 1 /\ UNCHANGED <<given, section, n>>
\* Continue after the step of this section named op.
after(op) == 1 + (CHOOSE k \in DOMAIN here : here[k].op = op)
jump(op) == pc' = after(op) /\ UNCHANGED <<given, section, n>>

\* main calls the next section.
next_section ==
    /\ ~Ended /\ death = "none" /\ pc > Len(here)
    /\ section' = section + 1 /\ pc' = 1 /\ n' = 0
    /\ UNCHANGED <<given, disp, old, mask, pend, armed, flags, rc, late,
                   critical, inside, sent, safe_sent, printed, death>>

\* for (i = 0; i < bound; i++)
bound == IF section = 2 THEN TICKS ELSE ITERATIONS

for_loop ==
    /\ \/ is("enter_loop") /\ pc' = pc + 1 /\ n' = 0
          /\ UNCHANGED <<given, section>>
       \/ is("again") /\ n + 1 < bound /\ n' = n + 1
          /\ UNCHANGED <<given, section>>
          /\ pc' = after("enter_loop")
       \/ is("again") /\ n + 1 >= bound /\ step
    /\ UNCHANGED <<disp, old, mask, pend, armed, flags, rc, late, critical,
                   inside, sent, safe_sent, printed, death>>

\* signal() and sigaction(), with and without keeping what was there.
install ==
    /\ \/ /\ is("install") /\ UNCHANGED old
          /\ disp' = [disp EXCEPT ![now.sig] = now.arg]
       \/ /\ is("replace") /\ old' = disp[now.sig]
          /\ disp' = [disp EXCEPT ![now.sig] = now.arg]
       \/ /\ is("restore") /\ UNCHANGED old
          /\ disp' = [disp EXCEPT ![now.sig] = old]
    /\ step
    /\ UNCHANGED <<mask, pend, armed, flags, rc, late, critical, inside, sent,
                   safe_sent, printed, death>>

raise ==
    /\ is("raise") \/ (is("raise_at") /\ n = now.arg)
    /\ step
    /\ generate(now.sig, "own")
    /\ UNCHANGED <<old, mask, armed, rc, late, critical, sent, safe_sent,
                   printed>>

\* Another tick than the one that raises.
no_raise ==
    /\ is("raise_at") /\ n # now.arg /\ step
    /\ UNCHANGED <<disp, old, mask, pend, armed, flags, rc, late, critical,
                   inside, sent, safe_sent, printed, death>>

\* Wrong: the set that is passed does not hold the signal.
block_nothing ==
    /\ is("block") /\ step
    /\ critical' = TRUE
    /\ UNCHANGED <<disp, old, mask, pend, armed, flags, rc, late, inside,
                   sent, safe_sent, printed, death>>

block ==
    /\ is("block") /\ step
    /\ mask' = mask \cup {now.sig}
    /\ critical' = TRUE
    /\ UNCHANGED <<disp, old, pend, armed, flags, rc, late, inside, sent,
                   safe_sent, printed, death>>

\* Restoring the mask, which was empty, delivers what is pending before it
\* returns.
setmask ==
    /\ is("setmask") /\ step
    /\ mask' = {} /\ pend' = {}
    /\ critical' = FALSE
    /\ IF pend = {} THEN UNCHANGED <<flags, death, disp>>
       ELSE \E s \in pend : deliver(s, "own")
    /\ UNCHANGED <<old, armed, rc, late, inside, sent, safe_sent, printed>>

\* The work loop of section 3.
loop ==
    /\ \/ /\ is("if_shutdown")
          /\ IF flags.shutdown = 1 THEN jump("end_loop") ELSE step
          /\ UNCHANGED <<flags, late>>
       \/ /\ is("if_usr1")
          /\ IF flags.usr1 = 1 THEN step ELSE jump("reset_usr1")
          /\ UNCHANGED <<flags, late>>
       \/ /\ is("reset_usr1") /\ step
          /\ flags' = [flags EXCEPT !.usr1 = 0]
          /\ UNCHANGED late
       \/ /\ is("work") /\ step
          /\ late' = IF flags.shutdown = 1 THEN late + 1 ELSE late
          /\ UNCHANGED flags
       \/ /\ is("end_loop") /\ step
          /\ UNCHANGED <<flags, late>>
       \/ /\ is("clear_shutdown") /\ step
          /\ flags' = [flags EXCEPT !.shutdown = 0]
          /\ late' = 0
    /\ UNCHANGED <<disp, old, mask, pend, armed, rc, critical, inside, sent,
                   safe_sent, printed, death>>

\* alarm(n) schedules, alarm(0) cancels.
alarm ==
    /\ is("alarm") /\ step
    /\ armed' = now.arg
    /\ UNCHANGED <<disp, old, mask, pend, flags, rc, late, critical, inside,
                   sent, safe_sent, printed, death>>

slow ==
    /\ \/ /\ is("clear_timed_out") /\ step
          /\ flags' = [flags EXCEPT !.timed_out = 0]
          /\ UNCHANGED <<rc, late>>
       \/ /\ is("if_timed_out")
          /\ IF flags.timed_out = 1
             THEN jump("end_slow") /\ rc' = "timeout"
             ELSE step /\ UNCHANGED rc
          /\ UNCHANGED <<flags, late>>
       \/ /\ is("slow_work") /\ step
          /\ late' = IF flags.timed_out = 1 THEN late + 1 ELSE late
          /\ UNCHANGED <<flags, rc>>
       \/ /\ is("end_slow") /\ step
          /\ rc' = "ok"
          /\ UNCHANGED <<flags, late>>
    /\ UNCHANGED <<disp, old, mask, pend, armed, critical, inside, sent,
                   safe_sent, printed, death>>

read_count ==
    /\ is("read_count") /\ step
    /\ printed' = flags.count
    /\ UNCHANGED <<disp, old, mask, pend, armed, flags, rc, late, critical,
                   inside, sent, safe_sent, death>>

-----------------------------------------------------------------------------
alarm_goes_off ==
    /\ armed /\ death = "none"
    /\ armed' = FALSE
    /\ generate("ALRM", "own")
    /\ UNCHANGED <<given, section, pc, n, old, mask, rc, late, critical, sent,
                   safe_sent, printed>>

\* Another process sends s, whatever main is doing.
outside_signal(s) ==
    /\ sent < Outside /\ ~Ended /\ death = "none"
    /\ sent' = sent + 1
    /\ safe_sent' = IF disp[s] = "safe" THEN safe_sent + 1 ELSE safe_sent
    /\ generate(s, "outside")
    /\ UNCHANGED <<given, section, pc, n, old, mask, armed, rc, late,
                   critical, printed>>

run_main == next_section \/ for_loop \/ install \/ raise \/ no_raise \/ block
            \/ setmask \/ loop \/ alarm \/ slow \/ read_count

Next ==
    \/ run_main
    \/ alarm_goes_off
    \/ \E s \in Sigs : outside_signal(s)
    \/ (Ended \/ death # "none") /\ UNCHANGED vars

Spec == Init /\ [][Next]_vars

-----------------------------------------------------------------------------
(***************************************************************************)
(* Each handler is in place before its own signal can come, and the alarm  *)
(* is cancelled before its handler goes.  So a signal the program sends to *)
(* itself ends it only where signal() is one-shot and the handler has been *)
(* used up: by a signal from outside, or, in section_alarm, by the first   *)
(* of the two alarms.                                                      *)
(***************************************************************************)
Survives ==
    death = "own" => /\ oneshot /\ section \in {1, 2, 4}
                     /\ sent > 0 \/ (section = 4 /\ flags.timed_out = 1)

(***************************************************************************)
(* SIGUSR1 is not handled between sigprocmask(SIG_BLOCK) and the restored  *)
(* mask, and nothing is blocked or pending outside that section.           *)
(***************************************************************************)
CriticalSectionUndisturbed ==
    /\ inside = 0
    /\ ~critical => mask = {} /\ pend = {}

\* After the flag of a handler is set, at most one more unit of work is done.
StopsPromptly == late <= 1

\* The printed count has the three raised signals and no more than the outside
\* ones besides: no raise() is lost, because it returns after its handler.
CountExact ==
    Ended => printed \in 3 .. 3 + safe_sent

\* At the end no alarm is scheduled, the dispositions that were saved are as
\* they were inherited, and those that were not are at their default.
RestoredAtEnd ==
    Ended => /\ \A s \in {"INT", "USR2"} : disp[s] = inherited[s]
             /\ \A s \in {"USR1", "TERM", "ALRM"} : disp[s] = "DFL"
             /\ ~armed
==============================================================================
