------------------------------ MODULE Terminal ------------------------------
(***************************************************************************)
(* Exercise 33: raw mode and getting out of it.  The program inspects the  *)
(* terminal, switches it to raw mode, reads up to MaxKeys keys, and        *)
(* restores it, directly and through an atexit handler; a signal from      *)
(* outside may kill it at any step.  The terminal's settings are a name;   *)
(* Settings are the ones it may have when the program starts.              *)
(***************************************************************************)
EXTENDS Integers

CONSTANTS Settings, MaxKeys

VARIABLES pc,
          tty0, tty,            \* the terminal's settings: at the start, now
          g_saved, g_raw_fd,    \* the statics; g_saved is zeroed at the start
          handlers,             \* whether restore_terminal is registered
          fd,                   \* the local of the current section
          opened,               \* descriptors on /dev/tty (number 3)
          count,                \* keys read in raw mode
          stdin_tty, stdout_tty, dev_tty,     \* what isatty and open will say
          badfd                 \* a tcsetattr on a closed descriptor was made

env == <<tty0, stdin_tty, stdout_tty, dev_tty>>
raw_mode == <<tty, g_saved, g_raw_fd, handlers, count, badfd>>
vars == <<pc, fd, opened, raw_mode, env>>

TTYFD == 3
Usable(d) == d \in {0, 1} \cup opened

Init ==
    /\ pc = "inspect_open"
    /\ tty0 \in Settings /\ tty = tty0
    /\ g_saved = "zeroed" /\ g_raw_fd = -1 /\ handlers = FALSE
    /\ fd = -1 /\ opened = {} /\ count = 0 /\ badfd = FALSE
    /\ stdin_tty \in BOOLEAN /\ stdout_tty \in BOOLEAN /\ dev_tty \in BOOLEAN

Go(from, to) == pc = from /\ pc' = to

\* fd = a standard descriptor if it is a terminal, else open("/dev/tty").
\* Without either, continue at without.
open_tty(from, to, without, std, isatty) ==
    /\ pc = from
    /\ \/ isatty /\ fd' = std /\ pc' = to /\ UNCHANGED opened
       \/ ~isatty /\ dev_tty /\ fd' = TTYFD /\ opened' = opened \cup {TTYFD} /\ pc' = to
       \/ ~isatty /\ ~dev_tty /\ fd' = -1 /\ pc' = without /\ UNCHANGED opened

\* if (fd != std) close(fd)
close_tty(std) == opened' = opened \ (IF fd # std THEN {fd} ELSE {})

section2_inspect ==
    /\ \/ open_tty("inspect_open", "inspect_close", "raw_open", 0, stdin_tty)
       \/ Go("inspect_close", "raw_open") /\ close_tty(0) /\ UNCHANGED fd
    /\ UNCHANGED <<raw_mode, env>>

-----------------------------------------------------------------------------
\* tcsetattr(d, TCSAFLUSH, new): nothing happens when d is not open.
tcsetattr(d, new) ==
    IF Usable(d) THEN tty' = new /\ UNCHANGED badfd
                 ELSE badfd' = TRUE /\ UNCHANGED tty

restore_terminal ==
    IF g_raw_fd >= 0 THEN tcsetattr(g_raw_fd, g_saved) ELSE UNCHANGED <<tty, badfd>>

\* Wrong: the settings are saved after they were changed.
enter_raw_late ==
    \/ /\ Go("save", "arm")
       /\ tcsetattr(fd, "raw") /\ g_raw_fd' = fd
       /\ UNCHANGED <<fd, opened, g_saved, handlers, count>>
    \/ /\ Go("arm", "set_raw")
       /\ g_saved' = tty
       /\ UNCHANGED <<fd, opened, tty, g_raw_fd, handlers, count, badfd>>
    \/ /\ Go("set_raw", "read")
       /\ handlers' = TRUE
       /\ UNCHANGED <<fd, opened, tty, g_saved, g_raw_fd, count, badfd>>

enter_raw ==
    \/ /\ Go("save", "arm")
       /\ g_saved' = tty /\ g_raw_fd' = fd
       /\ UNCHANGED <<fd, opened, tty, handlers, count, badfd>>
    \/ /\ Go("arm", "set_raw")
       /\ handlers' = TRUE
       /\ UNCHANGED <<fd, opened, tty, g_saved, g_raw_fd, count, badfd>>
    \/ /\ Go("set_raw", "read")
       /\ tcsetattr(fd, "raw")
       /\ UNCHANGED <<fd, opened, g_saved, g_raw_fd, handlers, count>>

\* A key: read fails, or the key is counted; q, Ctrl-C and Ctrl-D end the loop.
read_key ==
    /\ pc = "read" /\ count < MaxKeys
    /\ \/ pc' = "restore" /\ UNCHANGED count
       \/ pc' \in {"read", "restore"} /\ count' = count + 1
    /\ UNCHANGED <<fd, opened, tty, g_saved, g_raw_fd, handlers, badfd>>

read_all ==
    /\ Go("read", "restore") /\ count = MaxKeys
    /\ UNCHANGED <<fd, opened, raw_mode>>

disarm == g_raw_fd' = -1

leave_raw ==
    /\ Go("restore", "raw_close")
    /\ restore_terminal
    /\ disarm

section3_raw_mode ==
    /\ \/ open_tty("raw_open", "save", "size_open", 0, stdin_tty) /\ UNCHANGED raw_mode
       \/ enter_raw
       \/ read_key
       \/ read_all
       \/ leave_raw /\ UNCHANGED <<fd, opened, g_saved, handlers, count>>
       \/ Go("raw_close", "size_open") /\ close_tty(0) /\ UNCHANGED <<fd, raw_mode>>
    /\ UNCHANGED env

section5_size ==
    /\ \/ open_tty("size_open", "size_close", "exit", 1, stdout_tty)
       \/ Go("size_close", "exit") /\ close_tty(1) /\ UNCHANGED fd
    /\ UNCHANGED <<raw_mode, env>>

\* main returns: the registered handler runs.
exit ==
    /\ Go("exit", "exited")
    /\ IF handlers THEN restore_terminal ELSE UNCHANGED <<tty, badfd>>
    /\ UNCHANGED <<fd, opened, g_saved, g_raw_fd, handlers, count, env>>

\* SIGTERM, SIGHUP or SIGINT from another process: no handler is installed.
killed ==
    /\ pc \notin {"exited", "killed"}
    /\ pc' = "killed"
    /\ UNCHANGED <<fd, opened, raw_mode, env>>

Next ==
    \/ section2_inspect \/ section3_raw_mode \/ section5_size \/ exit
    \/ killed
    \/ pc \in {"exited", "killed"} /\ UNCHANGED vars

Spec == Init /\ [][Next]_vars

-----------------------------------------------------------------------------
(***************************************************************************)
(* However the key loop ends, the terminal has the settings it had at the  *)
(* start when the program exits.                                           *)
(***************************************************************************)
Restored == pc = "exited" => tty = tty0

(***************************************************************************)
(* The terminal is raw only while the way back is prepared: an exit() at   *)
(* any step of raw mode would run the handler, on an open descriptor, with *)
(* the original settings.                                                  *)
(***************************************************************************)
WayBackPrepared ==
    tty # tty0 => handlers /\ g_saved = tty0 /\ g_raw_fd >= 0 /\ Usable(g_raw_fd)

\* The atexit handler never acts on a descriptor section 3 has closed.
NoStaleDescriptor == ~badfd

\* No section keeps /dev/tty open.
DescriptorsClosed == pc \in {"raw_open", "size_open", "exit", "exited"} => opened = {}

=============================================================================
