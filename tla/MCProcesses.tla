------------------------------ MODULE MCProcesses ------------------------------
(***************************************************************************)
(* The instance of the operating-system exercises that TLC checks, one of  *)
(* them in each behaviour: the process demo (25) with every fork able to   *)
(* fail, the mapping demo (27) with every call able to fail, the signal    *)
(* demo (23) with its alarm and signals from outside at any step, raw mode *)
(* (33) with any kind of terminal and a kill at any step, the file demo    *)
(* (9) on a disk that may fill up, or the plugin demo (31) with any plugin *)
(* and failing loads.                                                      *)
(***************************************************************************)
EXTENDS Processes

CONSTANTS Outside, TICKS, ITERATIONS,   \* of the signal demo
          Settings, MaxKeys,            \* of the terminal
          LINES, ROWS, Faulty           \* of the file demo

VARIABLES demo, map_pc, map_fds, map_maps, map_files, map_rw, map_verified,
          map_shm, map_priv, map_kid, map_seen, map_unmapped,
          sig_oneshot, sig_inherited, sig_section, sig_pc, sig_n, sig_disp,
          sig_old, sig_mask, sig_pend, sig_armed, sig_flags, sig_rc, sig_late,
          sig_critical, sig_inside, sig_sent, sig_safe_sent, sig_printed,
          sig_death,
          tty_pc, tty_tty0, tty_tty, tty_g_saved, tty_g_raw_fd,
          tty_handlers, tty_fd, tty_opened, tty_count, tty_stdin_tty,
          tty_stdout_tty, tty_dev_tty, tty_badfd,
          fio_at, fio_files, fio_f, fio_records, fio_count, fio_lines,
          fio_rows, fio_recs, fio_sizes, fio_cut, fio_status,
          dl_pc, dl_exports, dl_refs, dl_object, dl_error, dl_strlen

Map == INSTANCE Mmap WITH
    pc <- map_pc, fds <- map_fds, maps <- map_maps, files <- map_files,
    rw <- map_rw, verified <- map_verified, shm <- map_shm, priv <- map_priv,
    kid <- map_kid, seen <- map_seen, unmapped <- map_unmapped

Sig == INSTANCE Signals WITH
    oneshot <- sig_oneshot, inherited <- sig_inherited,
    section <- sig_section, pc <- sig_pc, n <- sig_n, disp <- sig_disp,
    old <- sig_old, mask <- sig_mask, pend <- sig_pend, armed <- sig_armed,
    flags <- sig_flags, rc <- sig_rc, late <- sig_late,
    critical <- sig_critical, inside <- sig_inside, sent <- sig_sent,
    safe_sent <- sig_safe_sent, printed <- sig_printed, death <- sig_death

ASSUME SignalNumbers == Sig!SignalsAssumption

Term == INSTANCE Terminal WITH
    pc <- tty_pc, tty0 <- tty_tty0, tty <- tty_tty, g_saved <- tty_g_saved,
    g_raw_fd <- tty_g_raw_fd, handlers <- tty_handlers, fd <- tty_fd,
    opened <- tty_opened, count <- tty_count, stdin_tty <- tty_stdin_tty,
    stdout_tty <- tty_stdout_tty, dev_tty <- tty_dev_tty, badfd <- tty_badfd

File == INSTANCE FileIO WITH
    at <- fio_at, files <- fio_files, f <- fio_f, records <- fio_records,
    count <- fio_count, lines <- fio_lines, rows <- fio_rows,
    recs <- fio_recs, sizes <- fio_sizes, cut <- fio_cut,
    status <- fio_status

ASSUME FileNumbers == File!FileAssumption

Dl == INSTANCE Plugin WITH
    pc <- dl_pc, exports <- dl_exports, refs <- dl_refs, object <- dl_object,
    error <- dl_error, strlen <- dl_strlen

mapVars == <<map_pc, map_fds, map_maps, map_files, map_rw, map_verified,
            map_shm, map_priv, map_kid, map_seen, map_unmapped>>
sigVars == <<sig_oneshot, sig_inherited, sig_section, sig_pc, sig_n, sig_disp,
            sig_old, sig_mask, sig_pend, sig_armed, sig_flags, sig_rc,
            sig_late, sig_critical, sig_inside, sig_sent, sig_safe_sent,
            sig_printed, sig_death>>
ttyVars == <<tty_pc, tty_tty0, tty_tty, tty_g_saved, tty_g_raw_fd,
            tty_handlers, tty_fd, tty_opened, tty_count, tty_stdin_tty,
            tty_stdout_tty, tty_dev_tty, tty_badfd>>
fioVars == <<fio_at, fio_files, fio_f, fio_records, fio_count, fio_lines,
            fio_rows, fio_recs, fio_sizes, fio_cut, fio_status>>
dlVars == <<dl_pc, dl_exports, dl_refs, dl_object, dl_error, dl_strlen>>
mcVars == <<demo, vars, mapVars, sigVars, ttyVars, fioVars, dlVars>>

MCInit ==
    /\ demo \in {"fork", "mmap", "signals", "terminal", "files", "plugin"}
    /\ tty_tty0 \in IF demo = "terminal" THEN Settings ELSE {CHOOSE s \in Settings : TRUE}
    /\ tty_stdin_tty \in IF demo = "terminal" THEN BOOLEAN ELSE {TRUE}
    /\ tty_stdout_tty \in IF demo = "terminal" THEN BOOLEAN ELSE {TRUE}
    /\ tty_dev_tty \in IF demo = "terminal" THEN BOOLEAN ELSE {TRUE}
    /\ sig_oneshot \in IF demo = "signals" THEN BOOLEAN ELSE {FALSE}
    /\ sig_inherited \in {[s \in Sig!Sigs |-> d] : d \in
                            IF demo = "signals" THEN {"DFL", "IGN"} ELSE {"DFL"}}
    /\ dl_exports \in IF demo = "plugin" THEN SUBSET Dl!Entries ELSE {Dl!Entries}
    /\ Init /\ Map!Init /\ Sig!Init /\ Term!Init /\ File!Init /\ Dl!Init

MCNext ==
    \/ /\ demo = "fork" /\ Next
       /\ UNCHANGED <<demo, mapVars, sigVars, ttyVars, fioVars, dlVars>>
    \/ /\ demo = "mmap" /\ Map!Next
       /\ UNCHANGED <<demo, vars, sigVars, ttyVars, fioVars, dlVars>>
    \/ /\ demo = "signals" /\ Sig!Next
       /\ UNCHANGED <<demo, vars, mapVars, ttyVars, fioVars, dlVars>>
    \/ /\ demo = "terminal" /\ Term!Next
       /\ UNCHANGED <<demo, vars, mapVars, sigVars, fioVars, dlVars>>
    \/ /\ demo = "files" /\ File!Next
       /\ UNCHANGED <<demo, vars, mapVars, sigVars, ttyVars, dlVars>>
    \/ /\ demo = "plugin" /\ Dl!Next
       /\ UNCHANGED <<demo, vars, mapVars, sigVars, ttyVars, fioVars>>

\* Parent and child are scheduled independently of each other; nothing is
\* assumed of the user at the terminal, the alarm or other processes.
MCFairness ==
    /\ WF_vars(demo = "fork" /\ parent)
    /\ WF_vars(demo = "fork" /\ child)
    /\ WF_mapVars(demo = "mmap" /\ Map!Parent)
    /\ WF_mapVars(demo = "mmap" /\ Map!child)
    /\ WF_sigVars(demo = "signals" /\ Sig!run_main)
    /\ WF_fioVars(demo = "files" /\ File!step)
    /\ WF_dlVars(demo = "plugin" /\ Dl!main)

MCSpec == MCInit /\ [][MCNext]_mcVars /\ MCFairness

-----------------------------------------------------------------------------
(***************************************************************************)
(* Parent and child keep step: messages arrive, end of file comes when the *)
(* last writer is gone, every child is collected before the next fork,     *)
(* nobody waits with a pipe end still open, and no output appears twice.   *)
(***************************************************************************)
InStep == ReadsAsExpected /\ NoZombies /\ NoEndsLeaked /\ NothingTwice

(***************************************************************************)
(* Whichever call of the mapping demo failed: no descriptor or page is     *)
(* held between two sections, and a temporary file is left behind only     *)
(* where the code returns without unlink, after a failed mmap.             *)
(***************************************************************************)
Released == Map!Released /\ Map!TemporariesRemoved

(***************************************************************************)
(* A store through a shared mapping is seen by whoever looks afterwards,   *)
(* the file's reader and the parent after waitpid, and one through a       *)
(* private mapping by nobody else.                                         *)
(***************************************************************************)
SharedPageVisible == Map!StoreReachesFile /\ Map!SharedPageVisible

(***************************************************************************)
(* Whenever the alarm and the outside signals come: the blocked section is *)
(* not interrupted, the program's own signals end it only through a used   *)
(* up one-shot handler, no raised signal is missing from the count, what   *)
(* was saved is put back, and after its flag is set a loop does at most    *)
(* one more unit of work.                                                  *)
(***************************************************************************)
Undisturbed ==
    /\ Sig!CriticalSectionUndisturbed /\ Sig!Survives /\ Sig!CountExact
    /\ Sig!RestoredAtEnd /\ Sig!StopsPromptly

(***************************************************************************)
(* The terminal is raw only while the way back is prepared, however the    *)
(* key loop ends it has its first settings again at exit, and nothing is   *)
(* done through a descriptor that is closed, of which none is kept.        *)
(***************************************************************************)
TerminalRestored ==
    /\ Term!WayBackPrepared /\ Term!Restored
    /\ Term!NoStaleDescriptor /\ Term!DescriptorsClosed

(***************************************************************************)
(* Wherever a flush stopped, what is read back is the beginning of what    *)
(* was written, all of it without a short flush, with at most the last     *)
(* line or CSV row cut inside; appending keeps what was there, no exit     *)
(* leaves a stream open, and the normal one leaves no scratch file.        *)
(***************************************************************************)
FilesFaithful == File!ReadBackFaithful /\ File!AppendKeeps /\ File!StreamsClosed

(***************************************************************************)
(* Whatever fails, a section leaves no plugin loaded and no object behind, *)
(* plugin code runs only while mapped, a null function is called only by   *)
(* the section that does not look at its lookup, and no error of one       *)
(* section is taken for another's.                                         *)
(***************************************************************************)
PluginsUnloaded ==
    Dl!Unloaded /\ Dl!CodeMapped /\ Dl!FaultOnlyUnchecked /\ Dl!NoStaleError

\* The programs end: no read, wait or pause lasts forever, with or without the
\* child it was meant for, and no signal keeps a loop going (one whose
\* disposition is the default ends it early).
Terminates ==
    demo # "terminal" =>
      <>(\/ demo = "fork" /\ todo["parent"] = <<>>
         \/ demo = "mmap" /\ Map!Ended
         \/ demo = "signals" /\ (Sig!Ended \/ sig_death # "none")
         \/ demo = "files" /\ File!Ended
         \/ demo = "plugin" /\ Dl!Ended)
=============================================================================
