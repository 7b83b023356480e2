--------------------------- MODULE ProcessesProofs ---------------------------
(***************************************************************************)
(* Proofs about the operating-system exercises: raw mode and the way out   *)
(* of it (33), mappings and shared pages (27), plugins (31), signals (23), *)
(* and the files written and read back (09).                               *)
(***************************************************************************)
EXTENDS MCProcesses, WellFoundedInduction, SequenceTheorems, TLAPS

\* The points between saving the settings and leaving raw mode.
RawPoints == {"arm", "set_raw", "read", "restore"}

\* Which descriptor a section works on, and that it is closed in between.
TermFds ==
    /\ tty_pc \in {"inspect_open", "inspect_close", "raw_open", "save", "raw_close", "size_open",
                   "size_close", "exit", "exited", "killed"} \cup RawPoints
    /\ tty_pc \in {"inspect_open", "raw_open", "size_open", "exit", "exited"} => tty_opened = {}
    /\ tty_pc \in {"inspect_close", "save", "raw_close"} \cup RawPoints
         => \/ tty_fd = 0 /\ tty_opened = {}
            \/ tty_fd = Term!TTYFD /\ tty_opened = {Term!TTYFD}
    /\ tty_pc = "size_close" => \/ tty_fd = 1 /\ tty_opened = {}
                                \/ tty_fd = Term!TTYFD /\ tty_opened = {Term!TTYFD}

\* The statics are armed before the terminal is touched and disarmed with it.
TermArmed ==
    /\ tty_pc \in RawPoints => tty_g_raw_fd = tty_fd /\ tty_g_saved = tty_tty0
    /\ tty_pc \notin RawPoints \cup {"killed"} => tty_g_raw_fd = -1
    /\ tty_pc \in {"set_raw", "read", "restore"} => tty_handlers
    /\ tty_pc \notin {"read", "restore", "killed"} => tty_tty = tty_tty0

\* The inductive invariant of the terminal demo.
TermInv == TermFds /\ TermArmed /\ Term!WayBackPrepared /\ Term!NoStaleDescriptor

\* It holds when the program starts, on any terminal.
LEMMA TermInit == Term!Init => TermInv
BY DEF Term!Init, TermInv, TermFds, TermArmed, RawPoints, Term!WayBackPrepared,
   Term!NoStaleDescriptor

(***************************************************************************)
(* Every step of section2_inspect, section3_raw_mode, section5_size and of *)
(* the atexit handler keeps it, and so does a kill at any point.           *)
(***************************************************************************)
LEMMA TermStep == TermInv /\ [Term!Next]_Term!vars => TermInv'
<1> SUFFICES ASSUME TermInv, [Term!Next]_Term!vars PROVE TermInv'
  OBVIOUS
<1> USE DEF TermInv, RawPoints, Term!Go, Term!open_tty, Term!close_tty, Term!env, Term!raw_mode, Term!TTYFD
<1>1. CASE Term!section2_inspect
  <2> USE <1>1 DEF Term!section2_inspect
  <2>1. TermFds'
    BY DEF TermFds
  <2>2. TermArmed'
    BY DEF TermArmed
  <2>3. Term!WayBackPrepared' /\ Term!NoStaleDescriptor'
    BY DEF TermFds, TermArmed, Term!WayBackPrepared, Term!NoStaleDescriptor,
       Term!Usable
  <2> QED
    BY <2>1, <2>2, <2>3
<1>2. CASE Term!section5_size
  <2> USE <1>2 DEF Term!section5_size
  <2>1. TermFds'
    BY DEF TermFds
  <2>2. TermArmed'
    BY DEF TermArmed
  <2>3. Term!WayBackPrepared' /\ Term!NoStaleDescriptor'
    BY DEF TermFds, TermArmed, Term!WayBackPrepared, Term!NoStaleDescriptor,
       Term!Usable
  <2> QED
    BY <2>1, <2>2, <2>3
<1>3. CASE Term!section3_raw_mode
  <2> USE <1>3 DEF Term!section3_raw_mode
  <2>1. TermFds'
    BY DEF TermFds, Term!enter_raw, Term!read_key, Term!read_all, Term!leave_raw
  <2>2. TermArmed'
    BY DEF TermFds, TermArmed, Term!enter_raw, Term!read_key, Term!read_all,
       Term!leave_raw, Term!restore_terminal, Term!tcsetattr, Term!disarm,
       Term!Usable
  <2>3. Term!WayBackPrepared' /\ Term!NoStaleDescriptor'
    BY DEF TermFds, TermArmed, Term!WayBackPrepared, Term!NoStaleDescriptor,
       Term!Usable, Term!enter_raw, Term!read_key, Term!read_all, Term!leave_raw,
       Term!restore_terminal, Term!tcsetattr, Term!disarm
  <2> QED
    BY <2>1, <2>2, <2>3
<1>4. CASE Term!exit
  BY <1>4 DEF Term!exit, Term!restore_terminal, TermFds, TermArmed,
              Term!WayBackPrepared, Term!NoStaleDescriptor, Term!Usable
<1>5. CASE Term!killed
  BY <1>5 DEF Term!killed, TermFds, TermArmed, Term!WayBackPrepared,
              Term!NoStaleDescriptor, Term!Usable
<1>6. CASE UNCHANGED Term!vars
  BY <1>6 DEF Term!vars, TermFds, TermArmed, Term!WayBackPrepared,
              Term!NoStaleDescriptor, Term!Usable
<1> QED
  BY <1>1, <1>2, <1>3, <1>4, <1>5, <1>6 DEF Term!Next

(***************************************************************************)
(* For any settings and whichever descriptors are terminals: raw mode is   *)
(* entered only with the way back armed, the program exits with the        *)
(* terminal as it found it, restore_terminal is never called on a closed   *)
(* descriptor, and /dev/tty is closed at exit.                             *)
(***************************************************************************)
THEOREM TerminalComesBack == Term!Spec => []TerminalRestored
<1>1. TermInv => TerminalRestored
  BY DEF TermInv, TermFds, TermArmed, RawPoints, TerminalRestored, Term!Restored,
     Term!DescriptorsClosed
<1> QED
  BY <1>1, TermInit, TermStep, PTL DEF Term!Spec

-----------------------------------------------------------------------------
\* The descriptors, mappings and files that are held at a point of the parent.
FdsAt(p) ==
    IF p \in {"ro_stat", "ro_map"} THEN {"RO"}
    ELSE IF p \in {"rw_write", "rw_map", "rw_verify"} THEN {"RW"}
    ELSE IF p \in {"trunc_size", "trunc_map"} THEN {"TRUNC"} ELSE {}

MapsAt(p) ==
    IF p = "ro_done" THEN {"RO"} ELSE IF p = "rw_edit" THEN {"RW"}
    ELSE IF p = "anon_done" THEN {"anon"} ELSE IF p = "trunc_use" THEN {"TRUNC"}
    ELSE IF p \in {"fork1", "wait1", "priv_map", "dead"} THEN {"shm"}
    ELSE IF p \in {"fork2", "wait2"} THEN {"shm", "priv"} ELSE {}

FilesAt(p) ==
    IF p \in {"ro_open", "ro_stat", "ro_map", "ro_done"} THEN {"RO"}
    ELSE IF p \in {"rw_write", "rw_map", "rw_edit", "rw_reopen", "rw_verify"} THEN {"RW"}
    ELSE IF p \in {"trunc_size", "trunc_map", "trunc_use", "trunc_unlink"} THEN {"TRUNC"} ELSE {}

\* They are exactly those, and a file beside them was left by a failed mmap.
MapHeld ==
    /\ map_fds = FdsAt(map_pc) /\ map_maps = MapsAt(map_pc)
    /\ map_files \subseteq FilesAt(map_pc) \cup ({"RO", "RW"} \cap map_unmapped)

\* Section 3 re-opens the file only after storing through its mapping.
MapFile ==
    /\ Map!StoreReachesFile
    /\ map_pc \in {"rw_reopen", "rw_verify"} => map_rw = "modified"

\* The child's progress and the pages it writes, while its parent waits.
MapPages ==
    /\ map_pc = "wait1" => \/ map_kid = "none" /\ map_shm = Map!Fresh
                           \/ map_kid = "counter" /\ map_shm = Map!Fresh
                           \/ map_kid = "message" /\ map_shm = [Map!Fresh EXCEPT !.counter = 99]
                           \/ map_kid = "zombie" /\ map_shm = Map!Written
    /\ map_pc = "wait2" => map_kid \in {"none", "private", "zombie"}
    /\ map_pc \notin {"wait1", "wait2"} => map_kid = "none"
    /\ map_pc = "fork1" => map_shm = Map!Fresh
    /\ map_priv \in [{"parent", "child"} -> {0, 999}] /\ map_priv["parent"] = 0

\* What the parent printed after the first waitpid.
SeenOnce == map_seen = <<TRUE, Map!Written>> \/ map_seen = <<FALSE, Map!Fresh>>

\* Both of the child's stores to the shared page have been seen, or none.
MapSeen == Map!SharedPageVisible /\ (map_pc \in {"priv_map", "fork2", "wait2"} => SeenOnce)

(***************************************************************************)
(* The inductive invariant of the mapping demo.  What is released at the   *)
(* end of a section depends on what was acquired at each of its points,    *)
(* and what the parent sees on how far its child is.                       *)
(***************************************************************************)
MapInv == MapHeld /\ MapFile /\ MapPages /\ MapSeen

\* It holds when the program starts.
LEMMA MapInit == Map!Init => MapInv
BY DEF Map!Init, MapInv, MapHeld, MapFile, MapPages, MapSeen, FdsAt, MapsAt,
   FilesAt, Map!StoreReachesFile,
       Map!SharedPageVisible, Map!Nothing

\* A step that leaves what was seen keeps MapSeen.
LEMMA SeenKept ==
    ASSUME MapSeen, UNCHANGED map_seen,
           map_pc' \in {"priv_map", "fork2", "wait2"} => map_pc \in {"priv_map", "fork2", "wait2"}
    PROVE  MapSeen'
<1>1. (Map!SharedPageVisible' <=> Map!SharedPageVisible) /\ (SeenOnce' <=> SeenOnce)
  BY DEF Map!SharedPageVisible, SeenOnce
<1> QED
  BY <1>1 DEF MapSeen

\* What is printed after the second waitpid: the shared page as before, the private one unchanged.
LEMMA SeenTwice == map_seen' = <<TRUE, Map!Written, 0>> \/ map_seen' = <<FALSE, Map!Fresh, 0>> => Map!SharedPageVisible'
<1>1. ASSUME map_seen' = <<TRUE, Map!Written, 0>> PROVE Map!SharedPageVisible'
  <2>1. map_seen'[1] = TRUE /\ map_seen'[2] = Map!Written /\ map_seen'[3] = 0
    BY <1>1
  <2> QED
    BY <2>1 DEF Map!SharedPageVisible
<1>2. ASSUME map_seen' = <<FALSE, Map!Fresh, 0>> PROVE Map!SharedPageVisible'
  <2>1. map_seen'[1] = FALSE /\ map_seen'[2] = Map!Fresh /\ map_seen'[3] = 0
    BY <1>2
  <2> QED
    BY <2>1 DEF Map!SharedPageVisible
<1> QED
  BY <1>1, <1>2

(***************************************************************************)
(* Every call of every section keeps it whether it succeeds or fails, and  *)
(* so do the stores of the children at any point of their parent.          *)
(***************************************************************************)
LEMMA MapStep == MapInv /\ [Map!Next]_Map!vars => MapInv'
<1> SUFFICES ASSUME MapInv, [Map!Next]_Map!vars PROVE MapInv'
  OBVIOUS
<1> USE DEF MapInv, Map!Go, Map!Open, Map!Close, Map!Unlink, Map!Munmap, Map!Mmap_ok, Map!Mmap_failed, Map!resources, Map!memory
<1>1. CASE Map!section_read_mapping
  <2> USE <1>1 DEF Map!section_read_mapping, Map!ro_open_failed
  <2>1. MapHeld'
    BY DEF MapHeld, FdsAt, MapsAt, FilesAt
  <2>2. MapFile' /\ MapPages' /\ MapSeen'
    BY SeenKept DEF MapFile, MapPages, Map!StoreReachesFile
  <2> QED
    BY <2>1, <2>2
<1>2. CASE Map!section_write_mapping
  <2> USE <1>2 DEF Map!section_write_mapping, Map!store
  <2>1. MapHeld'
    BY DEF MapHeld, FdsAt, MapsAt, FilesAt
  <2>2. MapFile' /\ MapPages' /\ MapSeen'
    BY SeenKept DEF MapFile, MapPages, Map!StoreReachesFile
  <2> QED
    BY <2>1, <2>2
<1>3. CASE Map!section_anonymous
  <2> USE <1>3 DEF Map!section_anonymous
  <2>1. MapHeld'
    BY DEF MapHeld, FdsAt, MapsAt, FilesAt
  <2>2. MapFile' /\ MapPages' /\ MapSeen'
    BY SeenKept DEF MapFile, MapPages, Map!StoreReachesFile
  <2> QED
    BY <2>1, <2>2
<1>4. CASE Map!shared_page
  <2> USE <1>4 DEF Map!shared_page
  <2>1. MapHeld'
    BY DEF MapHeld, FdsAt, MapsAt, FilesAt
  <2>2. MapFile' /\ MapPages'
    BY DEF MapFile, MapPages, Map!StoreReachesFile
  <2>3. MapSeen'
    <3>1. CASE map_pc = "wait1"
      <4>1. CASE map_kid = "none"
        <5>1. /\ map_shm = Map!Fresh /\ map_seen' = <<FALSE, map_shm>>
              /\ map_pc' = "priv_map"
          BY ZenonT(60), <3>1, <4>1 DEF MapPages
        <5> QED
          BY <5>1 DEF MapSeen, Map!SharedPageVisible, SeenOnce
      <4>2. CASE map_kid # "none"
        <5>1. /\ map_shm = Map!Written /\ map_seen' = <<TRUE, map_shm>>
              /\ map_pc' = "priv_map"
          BY <3>1, <4>2 DEF MapPages, Map!reaped
        <5> QED
          BY <5>1 DEF MapSeen, Map!SharedPageVisible, SeenOnce
      <4> QED
        BY <4>1, <4>2
    <3>2. CASE map_pc # "wait1"
      BY <3>2, SeenKept
    <3> QED
      BY <3>1, <3>2
  <2> QED
    BY <2>1, <2>2, <2>3
<1>5. CASE Map!priv_map
  <2> USE <1>5 DEF Map!priv_map
  <2>1. MapHeld'
    BY DEF MapHeld, FdsAt, MapsAt, FilesAt
  <2>2. MapFile' /\ MapPages' /\ MapSeen'
    BY SeenKept DEF MapFile, MapPages, Map!StoreReachesFile
  <2> QED
    BY <2>1, <2>2
<1>6. CASE Map!private_page
  <2> USE <1>6 DEF Map!private_page
  <2>1. MapHeld'
    BY DEF MapHeld, FdsAt, MapsAt, FilesAt, Map!unmap_pages
  <2>2. MapFile' /\ MapPages'
    BY DEF MapFile, MapPages, Map!StoreReachesFile
  <2>3. CASE map_pc = "fork2"
    BY <2>1, <2>2, <2>3, SeenKept
  <2>4. CASE map_pc = "wait2"
    <3>1. /\ SeenOnce /\ map_seen' = <<map_seen[1], map_seen[2], 0>>
          /\ map_pc' = "trunc_open"
      BY <2>4 DEF MapPages, MapSeen
    <3>2. CASE map_seen = <<TRUE, Map!Written>>
      <4>1. map_seen' = <<TRUE, Map!Written, 0>>
        BY <3>1, <3>2
      <4> QED
        BY <2>1, <2>2, <3>1, <4>1, SeenTwice DEF MapSeen
    <3>3. CASE map_seen = <<FALSE, Map!Fresh>>
      <4>1. map_seen' = <<FALSE, Map!Fresh, 0>>
        BY <3>1, <3>3
      <4> QED
        BY <2>1, <2>2, <3>1, <4>1, SeenTwice DEF MapSeen
    <3> QED
      BY <3>1, <3>2, <3>3 DEF SeenOnce
  <2> QED
    BY <2>3, <2>4
<1>7. CASE Map!child
  <2>1. UNCHANGED <<map_pc, map_fds, map_maps, map_files, map_rw, map_verified,
                    map_seen, map_unmapped>>
    BY <1>7 DEF Map!child
  <2>2. MapHeld' /\ MapFile' /\ MapSeen'
    BY <2>1, SeenKept DEF MapHeld, MapFile, Map!StoreReachesFile
  <2>3. CASE map_kid = "counter"
    <3>1. /\ map_pc = "wait1" /\ map_kid' = "message"
          /\ map_shm' = [Map!Fresh EXCEPT !.counter = 99] /\ UNCHANGED map_priv
      BY <1>7, <2>3 DEF Map!child, MapPages
    <3> QED
      BY <2>1, <2>2, <3>1 DEF MapPages
  <2>4. CASE map_kid = "message"
    <3>0. map_pc = "wait1" /\ map_shm = [Map!Fresh EXCEPT !.counter = 99]
      BY <2>4 DEF MapPages
    <3>1. /\ map_kid' = "zombie" /\ UNCHANGED map_priv
          /\ map_shm' = [map_shm EXCEPT !.message = "written by child"]
      BY ZenonT(60), <1>7, <2>4 DEF Map!child
    <3>2. map_shm' = Map!Written
      BY <3>0, <3>1 DEF Map!Fresh, Map!Written
    <3> QED
      BY <2>1, <2>2, <3>0, <3>1, <3>2 DEF MapPages
  <2>5. CASE map_kid = "private"
    <3>1. /\ map_pc = "wait2" /\ map_kid' = "zombie"
          /\ map_priv' = [map_priv EXCEPT !["child"] = 999] /\ UNCHANGED map_shm
      BY <1>7, <2>5 DEF Map!child, MapPages
    <3>2. map_priv' \in [{"parent", "child"} -> {0, 999}] /\ map_priv'["parent"] = 0
      BY <3>1 DEF MapPages
    <3> QED
      BY <2>1, <2>2, <3>1, <3>2 DEF MapPages
  <2> QED
    BY <1>7, <2>3, <2>4, <2>5 DEF Map!child
<1>8. CASE Map!section_pitfalls
  <2> USE <1>8 DEF Map!section_pitfalls
  <2>1. MapHeld'
    BY DEF MapHeld, FdsAt, MapsAt, FilesAt
  <2>2. MapFile' /\ MapPages' /\ MapSeen'
    BY SeenKept DEF MapFile, MapPages, Map!StoreReachesFile
  <2> QED
    BY <2>1, <2>2
<1>9. CASE UNCHANGED Map!vars
  BY <1>9, SeenKept DEF Map!vars, MapHeld, MapFile, MapPages, Map!StoreReachesFile
<1> QED
  BY <1>1, <1>2, <1>3, <1>4, <1>5, <1>6, <1>7, <1>8, <1>9 DEF Map!Next, Map!Parent

(***************************************************************************)
(* Whichever calls of the mapping demo fail: every descriptor is closed    *)
(* and every page unmapped between two sections, and a temporary file is   *)
(* left only by a return after a failed mmap.                              *)
(***************************************************************************)
THEOREM MappingsReleased == Map!Spec => []Released
<1>1. MapInv => Released
  BY DEF MapInv, MapHeld, FdsAt, MapsAt, FilesAt, Released, Map!Released,
     Map!TemporariesRemoved
<1> QED
  BY <1>1, MapInit, MapStep, PTL DEF Map!Spec

(***************************************************************************)
(* However parent and child interleave: a store through a shared mapping   *)
(* reaches the file and the parent after waitpid, one through a private    *)
(* mapping stays with the child.                                           *)
(***************************************************************************)
THEOREM PagesVisible == Map!Spec => []SharedPageVisible
<1>1. MapInv => SharedPageVisible
  BY DEF MapInv, MapFile, MapSeen, SharedPageVisible
<1> QED
  BY <1>1, MapInit, MapStep, PTL DEF Map!Spec

-----------------------------------------------------------------------------
\* The library is loaded once between its dlopen and its dlclose, and only there.
Loaded(t) ==
    dl_refs = IF t \in {"lookup", "create", "use", "destroy", "close", "fault"} THEN 1 ELSE 0

\* The object is alive while it is used, and what is known of the lookups then.
Used(s, t) ==
    /\ dl_object <=> t \in {"use", "destroy", "fault"}
    /\ t = "fault" => s = 2 /\ "plugin_destroy" \notin dl_exports
    /\ s = 3 /\ t \in {"create", "use", "destroy"} => "plugin_destroy" \in dl_exports
    /\ dl_strlen # "not found" /\ (t = "strlen" => ~dl_error)

\* The two for step t of section s.
PlugState(s, t) == Loaded(t) /\ Used(s, t)

\* The inductive invariant of the plugin demo: the state its step calls for.
PlugInv == \E s, t : dl_pc = <<s, t>> /\ PlugState(s, t)

\* It holds when main starts, with any plugin on disk.
LEMMA PlugInit == Dl!Init => PlugInv
<1> SUFFICES ASSUME Dl!Init PROVE PlugInv
  OBVIOUS
<1>1. dl_pc = <<2, "open">> /\ PlugState(2, "open")
  BY DEF Dl!Init, PlugState, Loaded, Used
<1> QED
  BY <1>1 DEF PlugInv

(***************************************************************************)
(* Every step of every section keeps it, with dlopen and the plugin's      *)
(* malloc failing or not, and whichever entry points are missing.          *)
(***************************************************************************)
LEMMA PlugStep == PlugInv /\ [Dl!Next]_Dl!vars => PlugInv'
<1> SUFFICES ASSUME PlugInv, [Dl!Next]_Dl!vars PROVE PlugInv'
  OBVIOUS
<1>0. ASSUME NEW s, NEW t, dl_pc = <<s, t>> PROVE PlugState(s, t)
  BY <1>0 DEF PlugInv
<1>a. ASSUME NEW s, NEW t, dl_pc' = <<s, t>>, PlugState(s, t)' PROVE PlugInv'
  BY <1>a DEF PlugInv
<1>1. ASSUME NEW s, NEW t, NEW u, NEW v, Dl!open_plugin(s, <<s, t>>, <<u, v>>),
             t \in {"lookup", "close"}, v \in {"exit(1)", "report", "open"}
      PROVE  PlugInv'
  <2>1. PlugState(s, "open")
    BY <1>0, <1>1 DEF Dl!open_plugin, Dl!Begin
  <2>2. CASE dl_pc' = <<s, t>> /\ dl_refs' = dl_refs + 1 /\ UNCHANGED <<dl_exports,
                                                                        dl_object,
                                                                        dl_strlen>>
    <3>1. PlugState(s, t)'
      <4>1. Loaded(t)'
        BY <1>1, <2>1, <2>2 DEF Loaded, PlugState
      <4>2. Used(s, t)'
        BY <1>1, <2>1, <2>2 DEF Used, PlugState
      <4> QED
        BY <4>1, <4>2 DEF PlugState
    <3> QED
      BY <1>a, <2>2, <3>1
  <2>3. CASE dl_pc' = <<u, v>> /\ UNCHANGED <<dl_refs, dl_exports, dl_object,
                                              dl_strlen>>
    <3>1. PlugState(u, v)'
      <4>1. Loaded(v)'
        BY <1>1, <2>1, <2>3 DEF Loaded, PlugState
      <4>2. Used(u, v)'
        BY <1>1, <2>1, <2>3 DEF Used, PlugState
      <4> QED
        BY <4>1, <4>2 DEF PlugState
    <3> QED
      BY <1>a, <2>3, <3>1
  <2> QED
    BY <1>1, <2>2, <2>3 DEF Dl!open_plugin
<1>2. CASE Dl!lookup_basic
  <2>1. PlugState(2, "lookup")
    BY <1>0, <1>2 DEF Dl!lookup_basic, Dl!Goto
  <2>2. CASE "plugin_create" \in dl_exports
    <3>1. dl_pc' = <<2, "create">> /\ PlugState(2, "create")'
      <4>1. dl_pc' = <<2, "create">> /\ Loaded("create")'
        BY <1>2, <2>1, <2>2 DEF Loaded, PlugState, Dl!lookup_basic, Dl!Goto
      <4>2. UNCHANGED <<dl_exports, dl_object, dl_strlen>>
        BY <1>2 DEF Dl!lookup_basic
      <4>3. Used(2, "create")'
        <5>1. Used(2, "lookup") /\ 2 # 3
          BY <2>1 DEF PlugState
        <5> QED
          BY <4>2, <5>1 DEF Used
      <4> QED
        BY <4>1, <4>3 DEF PlugState
    <3> QED
      BY <1>a, <3>1
  <2>3. CASE "plugin_create" \notin dl_exports
    <3>1. dl_pc' = <<3, "open">> /\ PlugState(3, "open")'
      <4>1. dl_pc' = <<3, "open">> /\ Loaded("open")'
        BY <1>2, <2>1, <2>3 DEF Loaded, PlugState, Dl!lookup_basic, Dl!Goto,
                                Dl!Begin, Dl!dlclose
      <4>2. Used(3, "open")'
        BY <1>2, <2>1, <2>3 DEF Used, PlugState, Dl!lookup_basic, Dl!Goto,
                                Dl!Begin, Dl!dlclose
      <4> QED
        BY <4>1, <4>2 DEF PlugState
    <3> QED
      BY <1>a, <3>1
  <2> QED
    BY <2>2, <2>3
<1>3. CASE Dl!lookup_both
  <2>1. PlugState(3, "lookup")
    BY <1>0, <1>3 DEF Dl!lookup_both, Dl!Goto
  <2>2. CASE Dl!Entries \subseteq dl_exports
    <3>1. dl_pc' = <<3, "create">> /\ PlugState(3, "create")'
      <4>1. dl_pc' = <<3, "create">> /\ Loaded("create")'
        BY <1>3, <2>1, <2>2 DEF Loaded, PlugState, Dl!lookup_both, Dl!Goto,
                                Dl!Entries
      <4>2. Used(3, "create")'
        BY <1>3, <2>1, <2>2 DEF Used, PlugState, Dl!lookup_both, Dl!Goto, Dl!Entries
      <4> QED
        BY <4>1, <4>2 DEF PlugState
    <3> QED
      BY <1>a, <3>1
  <2>3. CASE ~(Dl!Entries \subseteq dl_exports)
    <3>1. dl_pc' = <<4, "open">> /\ PlugState(4, "open")'
      <4>1. dl_pc' = <<4, "open">> /\ Loaded("open")'
        BY <1>3, <2>1, <2>3 DEF Loaded, PlugState, Dl!lookup_both, Dl!Goto,
                                Dl!Begin, Dl!dlclose
      <4>2. Used(4, "open")'
        BY <1>3, <2>1, <2>3 DEF Used, PlugState, Dl!lookup_both, Dl!Goto, Dl!Begin,
                                Dl!dlclose
      <4> QED
        BY <4>1, <4>2 DEF PlugState
    <3> QED
      BY <1>a, <3>1
  <2> QED
    BY <2>2, <2>3
<1>4. ASSUME NEW s \in {2, 3}, Dl!create(s) PROVE PlugInv'
  <2>1. PlugState(s, "create")
    BY <1>0, <1>4 DEF Dl!create, Dl!Goto
  <2>2. CASE dl_object'
    <3>1. dl_pc' = <<s, "use">> /\ PlugState(s, "use")'
      <4>1. dl_pc' = <<s, "use">> /\ Loaded("use")'
        BY <1>4, <2>1, <2>2 DEF Loaded, PlugState, Dl!create, Dl!Goto
      <4>2. Used(s, "use")'
        BY <1>4, <2>1, <2>2 DEF Used, PlugState, Dl!create, Dl!Goto
      <4> QED
        BY <4>1, <4>2 DEF PlugState
    <3> QED
      BY <1>a, <3>1
  <2>3. CASE ~dl_object'
    <3>1. dl_pc' = <<s + 1, "open">> /\ PlugState(s + 1, "open")'
      <4>1. dl_pc' = <<s + 1, "open">> /\ Loaded("open")'
        BY <1>4, <2>1, <2>3 DEF Loaded, PlugState, Dl!create, Dl!Goto, Dl!Begin,
                                Dl!dlclose
      <4>2. Used(s + 1, "open")'
        BY <1>4, <2>1, <2>3 DEF Used, PlugState, Dl!create, Dl!Goto, Dl!Begin,
                                Dl!dlclose
      <4> QED
        BY <4>1, <4>2 DEF PlugState
    <3> QED
      BY <1>a, <3>1
  <2> QED
    BY <2>2, <2>3
<1>5. ASSUME NEW s \in {2, 3}, Dl!use(s) PROVE PlugInv'
  <2>1. PlugState(s, "use")
    BY <1>0, <1>5 DEF Dl!use, Dl!Goto
  <2>2. dl_pc' = <<s, "destroy">> /\ PlugState(s, "destroy")'
    <3>1. dl_pc' = <<s, "destroy">> /\ Loaded("destroy")'
      BY <1>5, <2>1 DEF Loaded, PlugState, Dl!use, Dl!Goto
    <3>2. Used(s, "destroy")'
      BY <1>5, <2>1 DEF Used, PlugState, Dl!use, Dl!Goto
    <3> QED
      BY <3>1, <3>2 DEF PlugState
  <2> QED
    BY <1>a, <2>2
<1>6. ASSUME NEW s \in {2, 3}, Dl!destroy(s) PROVE PlugInv'
  <2>1. PlugState(s, "destroy")
    BY <1>0, <1>6 DEF Dl!destroy, Dl!Goto
  <2>2. CASE "plugin_destroy" \in dl_exports
    <3>1. dl_pc' = <<s, "close">> /\ PlugState(s, "close")'
      <4>1. dl_pc' = <<s, "close">> /\ Loaded("close")'
        BY <1>6, <2>1, <2>2 DEF Loaded, PlugState, Dl!destroy, Dl!Goto,
                                Dl!plugin_destroy
      <4>2. Used(s, "close")'
        BY <1>6, <2>1, <2>2 DEF Used, PlugState, Dl!destroy, Dl!Goto,
                                Dl!plugin_destroy
      <4> QED
        BY <4>1, <4>2 DEF PlugState
    <3> QED
      BY <1>a, <3>1
  <2>3. CASE "plugin_destroy" \notin dl_exports
    <3>1. dl_pc' = <<s, "fault">> /\ PlugState(s, "fault")'
      <4>1. dl_pc' = <<s, "fault">> /\ Loaded("fault")'
        BY <1>6, <2>1, <2>3 DEF Loaded, PlugState, Dl!destroy, Dl!Goto
      <4>2. Used(s, "fault")'
        BY <1>6, <2>1, <2>3 DEF Used, PlugState, Dl!destroy, Dl!Goto
      <4> QED
        BY <4>1, <4>2 DEF PlugState
    <3> QED
      BY <1>a, <3>1
  <2> QED
    BY <2>2, <2>3
<1>7. ASSUME NEW s \in {2, 3, 4}, Dl!close(s) PROVE PlugInv'
  <2>1. PlugState(s, "close")
    BY <1>0, <1>7 DEF Dl!close, Dl!Goto
  <2>2. dl_pc' = <<s + 1, "open">> /\ PlugState(s + 1, "open")'
    <3>1. dl_pc' = <<s + 1, "open">> /\ Loaded("open")'
      BY <1>7, <2>1 DEF Loaded, PlugState, Dl!close, Dl!Goto, Dl!Begin, Dl!dlclose
    <3>2. Used(s + 1, "open")'
      BY <1>7, <2>1 DEF Used, PlugState, Dl!close, Dl!Goto, Dl!Begin, Dl!dlclose
    <3> QED
      BY <3>1, <3>2 DEF PlugState
  <2> QED
    BY <1>a, <2>2
<1>8. CASE Dl!section2_basic
  BY <1>8, <1>1, <1>2, <1>4, <1>5, <1>6, <1>7 DEF Dl!section2_basic, Dl!End
<1>9. CASE Dl!section3_dispatch
  <2>1. ASSUME Dl!Goto(3, "report", Dl!Begin(4)), UNCHANGED <<dl_exports, dl_refs, dl_object, dl_strlen>> PROVE PlugInv'
    <3>1. PlugState(3, "report")
      BY <1>0, <2>1 DEF Dl!Goto
    <3>2. dl_pc' = <<4, "open">> /\ PlugState(4, "open")'
      <4>1. dl_pc' = <<4, "open">> /\ Loaded("open")'
        BY <2>1, <3>1 DEF Loaded, PlugState, Dl!Goto, Dl!Begin
      <4>2. Used(4, "open")'
        BY <2>1, <3>1 DEF Used, PlugState, Dl!Goto, Dl!Begin
      <4> QED
        BY <4>1, <4>2 DEF PlugState
    <3> QED
      BY <1>a, <3>2
  <2> QED
    BY <1>9, <2>1, <1>1, <1>3, <1>4, <1>5, <1>6, <1>7 DEF Dl!section3_dispatch
<1>10. CASE Dl!section4_rtld_now
  BY <1>10, <1>1, <1>7 DEF Dl!section4_rtld_now, Dl!Begin
<1>11. CASE Dl!section5_rtld_default
  <2>1. CASE dl_pc = <<5, "open">>
    <3>1. PlugState(5, "open")
      BY <1>0, <2>1
    <3>2. /\ dl_pc' = <<5, "strlen">>
          /\ UNCHANGED <<dl_exports, dl_refs, dl_object, dl_strlen>>
      BY <1>11, <2>1 DEF Dl!section5_rtld_default, Dl!Goto
    <3>3. dl_error' = FALSE
      BY <1>11, <2>1 DEF Dl!section5_rtld_default, Dl!Goto
    <3>4. Loaded("strlen")'
      BY <3>1, <3>2 DEF PlugState, Loaded
    <3>5. Used(5, "strlen")'
      BY <3>1, <3>2, <3>3 DEF PlugState, Used
    <3>6. PlugState(5, "strlen")'
      BY <3>4, <3>5 DEF PlugState
    <3> QED
      BY <1>a, <3>2, <3>6
  <2>2. CASE dl_pc = <<5, "strlen">>
    <3>1. PlugState(5, "strlen")
      BY <1>0, <2>2
    <3>2. dl_pc' = <<0, "exit(0)">> /\ UNCHANGED <<dl_exports, dl_refs, dl_object>>
      BY <1>11, <2>2 DEF Dl!section5_rtld_default, Dl!Goto, Dl!End
    <3>3. dl_strlen' = IF dl_error THEN "not found" ELSE "found"
      BY <1>11, <2>2 DEF Dl!section5_rtld_default, Dl!Goto
    <3>4. dl_strlen' = "found"
      BY <3>1, <3>3 DEF PlugState, Used
    <3>5. Loaded("exit(0)")'
      BY <3>1, <3>2 DEF PlugState, Loaded
    <3>6. Used(0, "exit(0)")'
      BY <3>1, <3>2, <3>4 DEF PlugState, Used
    <3>7. PlugState(0, "exit(0)")'
      BY <3>5, <3>6 DEF PlugState
    <3> QED
      BY <1>a, <3>2, <3>7
  <2> QED
    BY <1>11, <2>1, <2>2 DEF Dl!section5_rtld_default, Dl!Goto
<1>12. CASE UNCHANGED Dl!vars
  BY <1>12 DEF Dl!vars, PlugInv, PlugState, Loaded, Used
<1> QED
  BY <1>8, <1>9, <1>10, <1>11, <1>12 DEF Dl!Next, Dl!main

(***************************************************************************)
(* Whatever fails in the plugin demo: no section leaves the library loaded *)
(* or the object allocated, plugin code is called only while it is mapped, *)
(* only the unchecked second dlsym leads to a null call, and no stale      *)
(* dlerror is taken for strlen's.                                          *)
(***************************************************************************)
THEOREM PluginsComeAndGo == Dl!Spec => []PluginsUnloaded
<1>1. ASSUME PlugInv PROVE PluginsUnloaded
  <2>1. PICK s, t : dl_pc = <<s, t>> /\ PlugState(s, t)
    BY <1>1 DEF PlugInv
  <2>2. dl_pc[1] = s /\ dl_pc[2] = t
    BY <2>1
  <2>3. Dl!CodeMapped
    <3>1. dl_pc[2] \in {"create", "use", "destroy"} => dl_refs > 0
      BY <2>1, <2>2 DEF PlugState, Loaded
    <3>2. dl_pc[2] \in {"use", "destroy"} => dl_object
      BY <2>1, <2>2 DEF PlugState, Used
    <3> QED
      BY <3>1, <3>2 DEF Dl!CodeMapped
  <2>6. Dl!FaultOnlyUnchecked /\ Dl!NoStaleError
    BY <2>1, <2>2 DEF PlugState, Used, Dl!FaultOnlyUnchecked, Dl!NoStaleError
  <2>4. dl_pc \in {Dl!End("exit(0)"), Dl!End("exit(1)")} => t \in {"exit(0)", "exit(1)"}
    BY <2>2 DEF Dl!End
  <2>5. Dl!Unloaded
    <3>1. t \in {"open", "exit(0)", "exit(1)"} => dl_refs = 0
      BY <2>1 DEF PlugState, Loaded
    <3>2. t \in {"open", "exit(0)", "exit(1)"} => ~dl_object
      BY <2>1 DEF PlugState, Used
    <3> QED
      BY <2>2, <2>4, <3>1, <3>2 DEF Dl!Unloaded
  <2> QED
    BY <2>3, <2>5, <2>6 DEF PluginsUnloaded
<1> QED
  BY <1>1, PlugInit, PlugStep, PTL DEF Dl!Spec

-----------------------------------------------------------------------------
\* The length of each section.
Lengths == <<6, 14, 11, 12, 6>>

\* Where main can be, and what it was given.
SigPos ==
    /\ sig_oneshot \in BOOLEAN /\ sig_inherited \in [Sig!Sigs -> {"DFL", "IGN"}]
    /\ sig_section \in 1 .. 6 /\ sig_pc \in Nat \ {0} /\ sig_n \in Nat
    /\ sig_section < 6 => sig_pc <= Lengths[sig_section] + 1
    /\ sig_section = 2 /\ sig_pc <= 3 => sig_n = 0
    /\ sig_sent \in Nat
\* A handler of signal() that has been used up.
Lost(s) == sig_oneshot /\ sig_disp[s] = "DFL"
\* The disposition each signal has there: a one-shot handler may be lost, and
\* what used it up is a signal from outside or a step main has passed.
DispINT ==
    IF sig_section = 1 /\ sig_pc \in 2 .. 3
    THEN sig_disp["INT"] = "simple" \/ (Lost("INT") /\ (sig_pc = 3 \/ sig_sent > 0))
    ELSE sig_disp["INT"] = sig_inherited["INT"]
DispUSR1 ==
    CASE sig_section = 1 /\ sig_pc \in 1 .. 4 -> sig_disp["USR1"] = sig_inherited["USR1"]
      [] sig_section = 1 /\ sig_pc \in 5 .. 6 -> sig_disp["USR1"] = "IGN"
      [] sig_section = 2 /\ sig_pc \in 3 .. 14 ->
           \/ sig_disp["USR1"] = "usr1"
           \/ Lost("USR1") /\ (sig_sent > 0 \/ sig_n > 2 \/ (sig_n = 2 /\ sig_pc > 8))
      [] sig_section = 3 /\ sig_pc \in 2 .. 3 \cup 8 .. 11 -> sig_disp["USR1"] = "sa_simple"
      [] sig_section = 5 /\ sig_pc \in 2 .. 6 -> sig_disp["USR1"] = "safe"
      [] OTHER -> sig_disp["USR1"] = "DFL"
DispUSR2 ==
    sig_disp["USR2"] = IF sig_section = 3 /\ sig_pc \in 5 .. 6 THEN "sa_info"
                       ELSE sig_inherited["USR2"]
DispTERM ==
    CASE sig_section = 1 \/ (sig_section = 2 /\ sig_pc = 1) ->
           sig_disp["TERM"] = sig_inherited["TERM"]
      [] sig_section = 2 /\ sig_pc \in 2 .. 13 ->
           \/ sig_disp["TERM"] = "shutdown"
           \/ Lost("TERM") /\ (sig_sent > 0 \/ sig_n > 3 \/ (sig_n = 3 /\ sig_pc > 9))
      [] OTHER -> sig_disp["TERM"] = "DFL"
DispALRM ==
    CASE sig_section < 4 \/ (sig_section = 4 /\ sig_pc = 1) ->
           sig_disp["ALRM"] = sig_inherited["ALRM"]
      [] sig_section = 4 /\ sig_pc \in 2 .. 12 ->
           \/ sig_disp["ALRM"] = "alarm"
           \/ Lost("ALRM") /\ (sig_sent > 0 \/ (sig_pc > 3 /\ sig_flags.timed_out = 1))
      [] OTHER -> sig_disp["ALRM"] = "DFL"
SigDisp ==
    /\ sig_disp = [s \in Sig!Sigs |-> sig_disp[s]]
    /\ DispINT /\ DispUSR1 /\ DispUSR2 /\ DispTERM /\ DispALRM
\* The disposition that waits to be put back.
SigOld ==
    /\ sig_section = 1 /\ sig_pc \in 2 .. 3 => sig_old = sig_inherited["INT"]
    /\ sig_section = 3 /\ sig_pc \in 5 .. 6 => sig_old = sig_inherited["USR2"]
    /\ sig_section = 3 /\ sig_pc \in 2 .. 3 \cup 8 .. 11 => sig_old = "DFL"
    /\ sig_section = 5 /\ sig_pc \in 2 .. 6 => sig_old = "DFL"
\* Between sigprocmask(SIG_BLOCK) and the restored mask.
Blocking == sig_section = 3 /\ sig_pc \in 9 .. 10
\* What is blocked and pending there, and that no handler ran.
SigMask ==
    /\ sig_critical <=> Blocking
    /\ sig_mask = IF Blocking THEN {"USR1"} ELSE {}
    /\ sig_pend \subseteq sig_mask /\ sig_inside = 0
\* An alarm is scheduled only while alarm_handler is installed.
SigAlarm ==
    /\ sig_armed \in BOOLEAN
    /\ sig_armed => sig_section = 4 /\ sig_pc \in 4 .. 9 \cup {11}
\* The type of what the handlers write.
Flags == [shutdown : {0, 1}, usr1 : {0, 1}, timed_out : {0, 1}, count : Nat]
SigFlags == sig_flags \in Flags
\* Work was done after the flag only where the next test will see the flag.
SigLate ==
    /\ sig_late \in {0, 1}
    /\ sig_late = 1 =>
         \/ sig_section = 2 /\ sig_pc \in {4} \cup 8 .. 12 /\ sig_flags.shutdown = 1
         \/ sig_section = 4 /\ sig_pc \in {5} \cup 7 .. 13 /\ sig_flags.timed_out = 1
         \/ sig_section > 4
\* How many of its three signals section_safety has raised.
Raised == IF sig_pc <= 2 THEN 0 ELSE IF sig_pc <= 5 THEN sig_pc - 2 ELSE 3
\* The counter has each raised and each outside signal.
SigCount ==
    /\ sig_safe_sent \in Nat /\ sig_printed \in Nat
    /\ sig_section < 5 => sig_flags.count = 0 /\ sig_safe_sent = 0
    /\ sig_section = 5 => sig_flags.count = Raised + sig_safe_sent
    /\ sig_section = 6 \/ (sig_section = 5 /\ sig_pc > 5) => sig_printed \in 3 .. 3 + sig_safe_sent
\* Main is running.
SigLive == /\ sig_death = "none"
           /\ SigPos /\ SigDisp /\ SigOld /\ SigMask /\ SigAlarm /\ SigFlags
           /\ SigLate /\ SigCount
\* A default action has ended it.
SigDead == /\ sig_death \in {"own", "outside"} /\ Sig!Survives
           /\ sig_section \in 1 .. 5
           /\ sig_inside = 0 /\ (~sig_critical => sig_mask = {} /\ sig_pend = {})
           /\ sig_late \in {0, 1}
(***************************************************************************)
(* The inductive invariant of the signal demo: what is installed, saved,   *)
(* blocked, scheduled and counted at each step of each section while main  *)
(* runs, and why it stopped when it did not reach its end.                 *)
(***************************************************************************)
SigInv == SigLive \/ SigDead

\* It holds when main starts.
LEMMA SigInit == Sig!Init => SigInv
  <1>1. ASSUME Sig!Init PROVE SigLive
    <2>1. SigPos /\ SigLate /\ SigCount
      BY <1>1 DEF Sig!Init, SigPos, SigLate, SigCount, Lengths
    <2>2. SigDisp /\ SigOld
      BY <1>1 DEF Sig!Init, SigDisp, DispINT, DispUSR1, DispUSR2, DispTERM,
                  DispALRM, SigOld, Sig!Sigs
    <2>3. SigAlarm /\ sig_death = "none"
      BY <1>1 DEF Sig!Init, SigAlarm
    <2>4. SigMask
      BY <1>1 DEF Sig!Init, SigMask, Blocking
    <2>5. SigFlags
      BY <1>1 DEF Sig!Init, SigFlags, Flags
    <2> QED BY <2>1, <2>2, <2>3, <2>4, <2>5 DEF SigLive
  <1> QED BY <1>1 DEF SigInv

\* The number of sections and their lengths.
LEMMA SigSteps ==
    ASSUME SigPos
    PROVE  /\ Len(Sig!main) = 5 /\ DOMAIN Sig!main = 1 .. 5
           /\ sig_section < 6 => Len(Sig!here) = Lengths[sig_section]
  <1>1. Len(Sig!main) = 5 /\ DOMAIN Sig!main = 1 .. 5 BY DEF Sig!main
  <1>2. CASE sig_section = 1 BY <1>1, <1>2 DEF Sig!here, Sig!main,
                                               Sig!section_signal, Lengths
  <1>3. CASE sig_section = 2 BY <1>1, <1>3 DEF Sig!here, Sig!main,
                                               Sig!section_atomic_flag, Lengths
  <1>4. CASE sig_section = 3 BY <1>1, <1>4 DEF Sig!here, Sig!main,
                                               Sig!section_sigaction, Lengths
  <1>5. CASE sig_section = 4 BY <1>1, <1>5 DEF Sig!here, Sig!main,
                                               Sig!section_alarm, Lengths
  <1>6. CASE sig_section = 5 BY <1>1, <1>6 DEF Sig!here, Sig!main,
                                               Sig!section_safety, Lengths
  <1> QED BY <1>1, <1>2, <1>3, <1>4, <1>5, <1>6 DEF SigPos

\* Main is at step p of section s, which is the operation o of g with a.
At(s, p, o, g, a) ==
    sig_section = s /\ sig_pc = p /\ Sig!now.op = o /\ Sig!now.sig = g /\ Sig!now.arg = a

\* The steps of each section, one by one.
InSignal ==
    \/ At(1, 1, "replace", "INT", "simple")
    \/ At(1, 2, "raise", "INT", "none")
    \/ At(1, 3, "restore", "INT", "none")
    \/ At(1, 4, "install", "USR1", "IGN")
    \/ At(1, 5, "raise", "USR1", "none")
    \/ At(1, 6, "install", "USR1", "DFL")

InAtomicFlag ==
    \/ At(2, 1, "install", "TERM", "shutdown")
    \/ At(2, 2, "install", "USR1", "usr1")
    \/ At(2, 3, "enter_loop", "none", "none")
    \/ At(2, 4, "if_shutdown", "none", "none")
    \/ At(2, 5, "if_usr1", "none", "none")
    \/ At(2, 6, "reset_usr1", "none", "none")
    \/ At(2, 7, "work", "none", "none")
    \/ At(2, 8, "raise_at", "USR1", 2)
    \/ At(2, 9, "raise_at", "TERM", 3)
    \/ At(2, 10, "again", "none", "none")
    \/ At(2, 11, "end_loop", "none", "none")
    \/ At(2, 12, "clear_shutdown", "none", "none")
    \/ At(2, 13, "install", "TERM", "DFL")
    \/ At(2, 14, "install", "USR1", "DFL")

InSigaction ==
    \/ At(3, 1, "replace", "USR1", "sa_simple")
    \/ At(3, 2, "raise", "USR1", "none")
    \/ At(3, 3, "restore", "USR1", "none")
    \/ At(3, 4, "replace", "USR2", "sa_info")
    \/ At(3, 5, "raise", "USR2", "none")
    \/ At(3, 6, "restore", "USR2", "none")
    \/ At(3, 7, "replace", "USR1", "sa_simple")
    \/ At(3, 8, "block", "USR1", "none")
    \/ At(3, 9, "raise", "USR1", "none")
    \/ At(3, 10, "setmask", "none", "none")
    \/ At(3, 11, "restore", "USR1", "none")

InAlarm ==
    \/ At(4, 1, "install", "ALRM", "alarm")
    \/ At(4, 2, "clear_timed_out", "none", "none")
    \/ At(4, 3, "alarm", "ALRM", TRUE)
    \/ At(4, 4, "enter_loop", "none", "none")
    \/ At(4, 5, "if_timed_out", "none", "none")
    \/ At(4, 6, "slow_work", "none", "none")
    \/ At(4, 7, "again", "none", "none")
    \/ At(4, 8, "end_slow", "none", "none")
    \/ At(4, 9, "alarm", "ALRM", FALSE)
    \/ At(4, 10, "alarm", "ALRM", TRUE)
    \/ At(4, 11, "alarm", "ALRM", FALSE)
    \/ At(4, 12, "install", "ALRM", "DFL")

InSafety ==
    \/ At(5, 1, "replace", "USR1", "safe")
    \/ At(5, 2, "raise", "USR1", "none")
    \/ At(5, 3, "raise", "USR1", "none")
    \/ At(5, 4, "raise", "USR1", "none")
    \/ At(5, 5, "read_count", "none", "none")
    \/ At(5, 6, "restore", "USR1", "none")

Table == InSignal \/ InAtomicFlag \/ InSigaction \/ InAlarm \/ InSafety

\* There is no other.
LEMMA StepTable ==
    ASSUME sig_section \in 1 .. 5, sig_pc \in 1 .. Lengths[sig_section]
    PROVE  Table
  <1>1. sig_section = 1 /\ sig_pc \in 1 .. 6 => InSignal
    BY DEF InSignal, At, Sig!now, Sig!here, Sig!main, Sig!section_signal, Sig!Op,
       Sig!Do, Sig!Install, Sig!Replace, Sig!Restore, Sig!Raise, Sig!RaiseAt, Sig!Alarm
  <1>2. sig_section = 2 /\ sig_pc \in 1 .. 14 => InAtomicFlag
    BY DEF InAtomicFlag, At, Sig!now, Sig!here, Sig!main, Sig!section_atomic_flag,
       Sig!Op, Sig!Do, Sig!Install, Sig!Replace, Sig!Restore, Sig!Raise, Sig!RaiseAt, Sig!Alarm
  <1>3. sig_section = 3 /\ sig_pc \in 1 .. 11 => InSigaction
    BY DEF InSigaction, At, Sig!now, Sig!here, Sig!main, Sig!section_sigaction,
       Sig!Op, Sig!Do, Sig!Install, Sig!Replace, Sig!Restore, Sig!Raise, Sig!RaiseAt, Sig!Alarm
  <1>4. sig_section = 4 /\ sig_pc \in 1 .. 12 => InAlarm
    BY DEF InAlarm, At, Sig!now, Sig!here, Sig!main, Sig!section_alarm, Sig!Op,
       Sig!Do, Sig!Install, Sig!Replace, Sig!Restore, Sig!Raise, Sig!RaiseAt, Sig!Alarm
  <1>5. sig_section = 5 /\ sig_pc \in 1 .. 6 => InSafety
    BY DEF InSafety, At, Sig!now, Sig!here, Sig!main, Sig!section_safety, Sig!Op,
       Sig!Do, Sig!Install, Sig!Replace, Sig!Restore, Sig!Raise, Sig!RaiseAt, Sig!Alarm
  <1>6. CASE sig_section = 1
    BY <1>1, <1>6 DEF Table, Lengths
  <1>7. CASE sig_section = 2
    BY <1>2, <1>7 DEF Table, Lengths
  <1>8. CASE sig_section = 3
    BY <1>3, <1>8 DEF Table, Lengths
  <1>9. CASE sig_section = 4
    BY <1>4, <1>9 DEF Table, Lengths
  <1>10. CASE sig_section = 5
    BY <1>5, <1>10 DEF Table, Lengths
  <1> QED BY <1>6, <1>7, <1>8, <1>9, <1>10

\* Where the loops and their breaks continue.
LEMMA Jumps ==
    /\ sig_section = 2 => /\ Sig!after("enter_loop") = 4
                          /\ Sig!after("end_loop") = 12
                          /\ Sig!after("reset_usr1") = 7
    /\ sig_section = 4 => Sig!after("enter_loop") = 5 /\ Sig!after("end_slow") = 9
  <1>1. CASE sig_section = 2
    <2>1. DOMAIN Sig!here = 1 .. 14 /\ \A k \in 1 .. 14 :
            /\ Sig!here[k].op = "enter_loop" <=> k = 3
            /\ Sig!here[k].op = "end_loop" <=> k = 11
            /\ Sig!here[k].op = "reset_usr1" <=> k = 6
      BY <1>1 DEF Sig!here, Sig!main, Sig!section_atomic_flag, Sig!Op, Sig!Do,
                  Sig!Install, Sig!Replace, Sig!Restore, Sig!Raise, Sig!RaiseAt, Sig!Alarm
    <2> QED BY <1>1, <2>1 DEF Sig!after
  <1>2. CASE sig_section = 4
    <2>1. DOMAIN Sig!here = 1 .. 12 /\ \A k \in 1 .. 12 :
            /\ Sig!here[k].op = "enter_loop" <=> k = 4
            /\ Sig!here[k].op = "end_slow" <=> k = 8
      BY <1>2 DEF Sig!here, Sig!main, Sig!section_alarm, Sig!Op, Sig!Do,
                  Sig!Install, Sig!Replace, Sig!Restore, Sig!Raise, Sig!RaiseAt, Sig!Alarm
    <2> QED BY <1>2, <2>1 DEF Sig!after
  <1> QED BY <1>1, <1>2

\* A step that is taken is a step of the table.
LEMMA Where ==
    ASSUME SigLive, NEW o, Sig!is(o)
    PROVE  Table /\ Sig!now.op = o
  <1>1. SigPos BY DEF SigLive
  <1>5. ~(sig_section > 5) /\ sig_pc <= Len(Sig!here) /\ Sig!now.op = o
    BY <1>1, SigSteps DEF Sig!is, Sig!Ended
  <1>2. sig_section \in 1 .. 5
    BY <1>1, <1>5 DEF SigPos
  <1>3. Len(Sig!here) = Lengths[sig_section]
    BY <1>1, <1>2, SigSteps
  <1>4. Lengths[sig_section] \in Nat
    BY <1>2 DEF Lengths
  <1>6. sig_pc \in 1 .. Lengths[sig_section]
    BY <1>1, <1>3, <1>4, <1>5 DEF SigPos
  <1> QED BY <1>2, <1>5, <1>6, StepTable

\* signal() and sigaction() keep the invariant: the dispositions follow main.
LEMMA InstallStep == ASSUME SigLive, Sig!install PROVE SigLive'
  <1>0. /\ SigPos /\ SigDisp /\ SigOld /\ SigMask /\ SigAlarm /\ SigFlags
        /\ SigLate /\ SigCount /\ sig_death = "none"
    BY DEF SigLive
  <1> DEFINE To == IF Sig!now.op = "restore" THEN sig_old ELSE Sig!now.arg
  <1>1. Table /\ Sig!now.op \in {"install", "replace", "restore"}
    BY Where DEF Sig!install
  <1>2. \/ sig_section = 1 /\ sig_pc = 1 /\ Sig!now.sig = "INT" /\ Sig!now.op = "replace" /\ To = "simple"
        \/ sig_section = 1 /\ sig_pc = 3 /\ Sig!now.sig = "INT" /\ To = sig_inherited["INT"]
        \/ sig_section = 1 /\ sig_pc = 4 /\ Sig!now.sig = "USR1" /\ To = "IGN"
        \/ sig_section = 1 /\ sig_pc = 6 /\ Sig!now.sig = "USR1" /\ To = "DFL"
        \/ sig_section = 2 /\ sig_pc = 1 /\ Sig!now.sig = "TERM" /\ To = "shutdown"
        \/ sig_section = 2 /\ sig_pc = 2 /\ Sig!now.sig = "USR1" /\ To = "usr1"
        \/ sig_section = 2 /\ sig_pc = 13 /\ Sig!now.sig = "TERM" /\ To = "DFL"
        \/ sig_section = 2 /\ sig_pc = 14 /\ Sig!now.sig = "USR1" /\ To = "DFL"
        \/ sig_section = 3 /\ sig_pc = 1 /\ Sig!now.sig = "USR1" /\ Sig!now.op = "replace" /\ To = "sa_simple"
        \/ sig_section = 3 /\ sig_pc = 3 /\ Sig!now.sig = "USR1" /\ To = "DFL"
        \/ sig_section = 3 /\ sig_pc = 4 /\ Sig!now.sig = "USR2" /\ Sig!now.op = "replace" /\ To = "sa_info"
        \/ sig_section = 3 /\ sig_pc = 6 /\ Sig!now.sig = "USR2" /\ To = sig_inherited["USR2"]
        \/ sig_section = 3 /\ sig_pc = 7 /\ Sig!now.sig = "USR1" /\ Sig!now.op = "replace" /\ To = "sa_simple"
        \/ sig_section = 3 /\ sig_pc = 11 /\ Sig!now.sig = "USR1" /\ To = "DFL"
        \/ sig_section = 4 /\ sig_pc = 1 /\ Sig!now.sig = "ALRM" /\ To = "alarm"
        \/ sig_section = 4 /\ sig_pc = 12 /\ Sig!now.sig = "ALRM" /\ To = "DFL"
        \/ sig_section = 5 /\ sig_pc = 1 /\ Sig!now.sig = "USR1" /\ Sig!now.op = "replace" /\ To = "safe"
        \/ sig_section = 5 /\ sig_pc = 6 /\ Sig!now.sig = "USR1" /\ To = "DFL"
    BY <1>0, <1>1 DEF Table, InSignal, InAtomicFlag, InSigaction, InAlarm,
                      InSafety, At, SigOld
  <1>6. /\ sig_disp' = [sig_disp EXCEPT ![Sig!now.sig] = To]
        /\ sig_section' = sig_section /\ sig_pc' = sig_pc + 1
        /\ sig_old' = IF Sig!now.op = "replace" THEN sig_disp[Sig!now.sig] ELSE sig_old
        /\ UNCHANGED <<sig_oneshot, sig_inherited, sig_n, sig_mask, sig_pend,
                       sig_armed, sig_flags, sig_late, sig_critical, sig_inside,
                       sig_sent, sig_safe_sent, sig_printed, sig_death>>
    <2>1. Sig!now.op = "install" \/ Sig!now.op = "replace" \/ Sig!now.op = "restore"
      BY <1>1
    <2> QED BY <2>1 DEF Sig!install, Sig!is, Sig!step, Sig!given
  <1> HIDE DEF To
  <1>3. SigDisp'
    <2>1. Sig!now.sig \in Sig!Sigs
      BY <1>2 DEF Sig!Sigs
    <2>2. sig_disp' = [s \in Sig!Sigs |-> sig_disp'[s]] BY <1>0, <1>6, <2>1
                                                           DEF SigDisp
    <2>3. sig_disp'["INT"] = IF Sig!now.sig = "INT" THEN To ELSE sig_disp["INT"]
      BY <1>0, <1>6, <2>1 DEF SigDisp, Sig!Sigs
    <2>4. sig_disp'["USR1"] = IF Sig!now.sig = "USR1" THEN To ELSE sig_disp["USR1"]
      BY <1>0, <1>6, <2>1 DEF SigDisp, Sig!Sigs
    <2>5. sig_disp'["USR2"] = IF Sig!now.sig = "USR2" THEN To ELSE sig_disp["USR2"]
      BY <1>0, <1>6, <2>1 DEF SigDisp, Sig!Sigs
    <2>6. sig_disp'["TERM"] = IF Sig!now.sig = "TERM" THEN To ELSE sig_disp["TERM"]
      BY <1>0, <1>6, <2>1 DEF SigDisp, Sig!Sigs
    <2>7. sig_disp'["ALRM"] = IF Sig!now.sig = "ALRM" THEN To ELSE sig_disp["ALRM"]
      BY <1>0, <1>6, <2>1 DEF SigDisp, Sig!Sigs
    <2>8. DispINT /\ DispUSR1 /\ DispUSR2 /\ DispTERM /\ DispALRM
      BY <1>0 DEF SigDisp
    <2>9. DispINT' BY <1>2, <1>6, <2>3, <2>8 DEF DispINT, Lost
    <2>10. DispUSR1' BY <1>2, <1>6, <2>4, <2>8 DEF DispUSR1, Lost
    <2>11. DispUSR2' BY <1>2, <1>6, <2>5, <2>8 DEF DispUSR2
    <2>12. DispTERM' BY <1>2, <1>6, <2>6, <2>8 DEF DispTERM, Lost
    <2>13. DispALRM' BY <1>2, <1>6, <2>7, <2>8 DEF DispALRM, Lost
    <2> QED BY <2>2, <2>9, <2>10, <2>11, <2>12, <2>13 DEF SigDisp
  <1>7. SigOld'
    <2>1. DispINT /\ DispUSR1 /\ DispUSR2
      BY <1>0 DEF SigDisp
    <2> QED BY <1>0, <1>2, <1>6, <2>1 DEF SigOld, DispINT, DispUSR1, DispUSR2
  <1>4. SigPos' /\ SigMask' /\ SigAlarm'
    BY <1>0, <1>2, <1>6 DEF SigPos, SigMask, Blocking, SigAlarm, Lengths
  <1>5. SigFlags' /\ SigLate' /\ SigCount' /\ sig_death' = "none"
    BY <1>0, <1>2, <1>6 DEF SigFlags, Flags, SigLate, SigCount, Raised, SigPos
  <1> QED BY <1>3, <1>4, <1>5, <1>7 DEF SigLive

\* What is blocked is not at its default, so such a signal ends the program.
LEMMA DieStep ==
    ASSUME SigLive, NEW s \in Sig!Sigs, NEW by, sig_disp[s] = "DFL", Sig!generate(s, by)
    PROVE  /\ sig_death' = by
           /\ UNCHANGED <<sig_flags, sig_inside, sig_pend>>
  <1>1. SigMask /\ DispUSR1 BY DEF SigLive, SigDisp
  <1>2. s \notin sig_mask
    BY <1>1 DEF SigMask, DispUSR1, Blocking
  <1>3. Sig!handler("DFL", sig_flags) = sig_flags
    BY DEF Sig!handler
  <1>4. sig_flags' = Sig!handler(sig_disp[s], sig_flags) /\ sig_death' = by
    BY <1>2 DEF Sig!generate, Sig!deliver
  <1> QED BY <1>2, <1>3, <1>4 DEF Sig!generate

\* A signal that is not at its default neither ends the program nor disturbs the
\* blocked section; it uses up a one-shot handler.
LEMMA GenerateStep ==
    ASSUME SigLive, NEW s \in Sig!Sigs, NEW by, sig_disp[s] # "DFL", Sig!generate(s, by)
    PROVE  /\ sig_death' = "none" /\ sig_inside' = 0
           /\ sig_pend' \subseteq sig_mask
           /\ sig_flags' = IF s \in sig_mask THEN sig_flags
                           ELSE Sig!handler(sig_disp[s], sig_flags)
           /\ sig_disp' = IF s \notin sig_mask /\ sig_oneshot /\ sig_disp[s] \in Sig!BySignal
                          THEN [sig_disp EXCEPT ![s] = "DFL"] ELSE sig_disp
  <1>1. SigMask /\ SigDisp /\ sig_death = "none" BY DEF SigLive
  <1>2. sig_pend' \subseteq sig_mask
    BY <1>1 DEF SigMask, Sig!generate
  <1>3. sig_death' = "none"
    BY <1>1 DEF Sig!generate, Sig!deliver
  <1>4. sig_flags' = IF s \in sig_mask THEN sig_flags
                     ELSE Sig!handler(sig_disp[s], sig_flags)
    BY DEF Sig!generate, Sig!deliver
  <1>5. sig_inside' = 0
    <2>1. CASE s \in sig_mask BY <2>1, <1>1 DEF Sig!generate, SigMask
    <2>2. CASE s \notin sig_mask
      <3>2. DispINT /\ DispUSR2 /\ DispTERM /\ DispALRM /\ SigPos
        BY <1>1 DEF SigDisp, SigLive
      <3>1. ~(sig_critical /\ sig_disp[s] = "sa_simple")
        BY <1>1, <3>2, <2>2 DEF SigMask, SigPos, DispINT, DispUSR2, DispTERM,
                                DispALRM, Lost, Sig!Sigs, Blocking
      <3> QED BY <3>1, <2>2, <1>1 DEF Sig!generate, SigMask
    <2> QED BY <2>1, <2>2
  <1>6. sig_disp' = IF s \notin sig_mask /\ sig_oneshot /\ sig_disp[s] \in Sig!BySignal
                    THEN [sig_disp EXCEPT ![s] = "DFL"] ELSE sig_disp
    BY DEF Sig!generate, Sig!deliver
  <1> QED BY <1>2, <1>3, <1>4, <1>5, <1>6

\* The signal ended the program, and nothing but main's position, the alarm and
\* the number of outside signals changed with it.
LEMMA DeadStep ==
    ASSUME SigLive, sig_death' \in {"own", "outside"}, sig_section \in 1 .. 5,
           UNCHANGED <<sig_section, sig_flags, sig_inside, sig_pend, sig_mask,
                       sig_critical, sig_late, sig_oneshot>>,
           sig_death' = "own" => Sig!Survives'
    PROVE  SigInv'
  <1>1. SigMask /\ SigLate BY DEF SigLive
  <1>2. Sig!Survives'
    <2>1. CASE sig_death' = "outside" BY <2>1 DEF Sig!Survives
    <2> QED BY <2>1
  <1>3. sig_late \in {0, 1} /\ sig_inside = 0
    BY <1>1 DEF SigLate, SigMask
  <1>4. ~sig_critical => sig_mask = {} /\ sig_pend = {}
    BY <1>1 DEF SigMask
  <1> QED BY <1>2, <1>3, <1>4 DEF SigInv, SigDead

\* A handler sets its flag, and never clears one; only safe_handler counts.
LEMMA HandlerTypes ==
    ASSUME SigFlags, NEW h
    PROVE  /\ Sig!handler(h, sig_flags) \in Flags
           /\ sig_flags.shutdown = 1 => Sig!handler(h, sig_flags).shutdown = 1
           /\ sig_flags.timed_out = 1 => Sig!handler(h, sig_flags).timed_out = 1
           /\ Sig!handler(h, sig_flags).count = IF h = "safe" THEN sig_flags.count + 1 ELSE sig_flags.count
  BY DEF SigFlags, Flags, Sig!handler, Sig!shutdown_handler, Sig!usr1_handler,
     Sig!alarm_handler, Sig!safe_handler

\* The dispositions after s was delivered to its handler: those of the others
\* are as they were.
LEMMA UsedUp ==
    ASSUME SigLive, NEW s \in Sig!Sigs, sig_disp[s] # "DFL",
           sig_disp' = IF s \notin sig_mask /\ sig_oneshot /\ sig_disp[s] \in Sig!BySignal
                       THEN [sig_disp EXCEPT ![s] = "DFL"] ELSE sig_disp
    PROVE  /\ sig_disp' = [g \in Sig!Sigs |-> sig_disp'[g]]
           /\ \A g \in Sig!Sigs \ {s} : sig_disp'[g] = sig_disp[g]
           /\ \/ sig_disp'[s] = sig_disp[s]
              \/ sig_oneshot /\ sig_disp[s] \in Sig!BySignal /\ sig_disp'[s] = "DFL"
  <1>1. sig_disp = [g \in Sig!Sigs |-> sig_disp[g]]
    BY DEF SigLive, SigDisp
  <1> QED BY <1>1

\* raise(): a signal main raises has a handler or is ignored then, unless a
\* signal from outside has used the handler up.
LEMMA RaiseStep == ASSUME SigLive, Sig!raise PROVE SigInv'
  <1>0. /\ SigPos /\ SigDisp /\ SigOld /\ SigMask /\ SigAlarm /\ SigFlags
        /\ SigLate /\ SigCount /\ sig_death = "none"
    BY DEF SigLive
  <1>1. Table /\ (Sig!now.op = "raise" \/ Sig!now.op = "raise_at")
    BY Where DEF Sig!raise
  <1>2. \/ sig_section = 1 /\ sig_pc = 2 /\ Sig!now.sig = "INT"
        \/ sig_section = 1 /\ sig_pc = 5 /\ Sig!now.sig = "USR1"
        \/ sig_section = 2 /\ sig_pc = 8 /\ Sig!now.sig = "USR1" /\ sig_n = 2
        \/ sig_section = 2 /\ sig_pc = 9 /\ Sig!now.sig = "TERM" /\ sig_n = 3
        \/ sig_section = 3 /\ sig_pc = 2 /\ Sig!now.sig = "USR1"
        \/ sig_section = 3 /\ sig_pc = 5 /\ Sig!now.sig = "USR2"
        \/ sig_section = 3 /\ sig_pc = 9 /\ Sig!now.sig = "USR1"
        \/ sig_section = 5 /\ sig_pc \in 2 .. 4 /\ Sig!now.sig = "USR1"
    <2>1. Sig!now.op = "raise" \/ sig_n = Sig!now.arg
      BY <1>1 DEF Sig!raise, Sig!is
    <2> QED BY <1>1, <2>1 DEF Table, InSignal, InAtomicFlag, InSigaction, InAlarm,
                              InSafety, At
  <1>3. Sig!now.sig \in Sig!Sigs /\ Sig!generate(Sig!now.sig, "own")
    BY <1>2 DEF Sig!raise, Sig!Sigs
  <1>5. /\ sig_pc' = sig_pc + 1
        /\ UNCHANGED <<sig_oneshot, sig_inherited, sig_section, sig_n, sig_old,
                       sig_mask, sig_armed, sig_late, sig_critical, sig_sent,
                       sig_safe_sent, sig_printed>>
    BY DEF Sig!raise, Sig!step, Sig!given
  <1>6. /\ DispINT /\ DispUSR1 /\ DispUSR2 /\ DispTERM /\ DispALRM
    BY <1>0 DEF SigDisp
  <1>7. CASE sig_disp[Sig!now.sig] = "DFL"
    <2>1. sig_death' = "own" /\ UNCHANGED <<sig_flags, sig_inside, sig_pend>>
      BY <1>3, <1>7, DieStep
    <2>2. sig_oneshot /\ sig_section \in {1, 2, 4} /\ sig_sent > 0
      BY <1>2, <1>6, <1>7, <1>0 DEF DispINT, DispUSR1, DispUSR2, DispTERM, Lost,
                                    SigPos
    <2>3. Sig!Survives'
      BY <2>2, <1>5 DEF Sig!Survives
    <2>4. sig_section \in 1 .. 5
      BY <2>2
    <2> QED BY <2>1, <2>3, <2>4, <1>5, DeadStep
  <1>8. CASE sig_disp[Sig!now.sig] # "DFL"
    <2>1. /\ sig_death' = "none" /\ sig_inside' = 0
          /\ sig_pend' \subseteq sig_mask
          /\ sig_flags' = IF Sig!now.sig \in sig_mask THEN sig_flags
                          ELSE Sig!handler(sig_disp[Sig!now.sig], sig_flags)
          /\ sig_disp' = IF Sig!now.sig \notin sig_mask /\ sig_oneshot /\ sig_disp[Sig!now.sig] \in Sig!BySignal
                         THEN [sig_disp EXCEPT ![Sig!now.sig] = "DFL"] ELSE sig_disp
      BY <1>3, <1>8, GenerateStep
    <2>2. /\ sig_disp' = [g \in Sig!Sigs |-> sig_disp'[g]]
          /\ \A g \in Sig!Sigs \ {Sig!now.sig} : sig_disp'[g] = sig_disp[g]
          /\ \/ sig_disp'[Sig!now.sig] = sig_disp[Sig!now.sig]
             \/ sig_oneshot /\ sig_disp[Sig!now.sig] \in Sig!BySignal /\ sig_disp'[Sig!now.sig] = "DFL"
      BY <1>3, <1>8, <2>1, UsedUp
    <2>3. SigFlags' /\ SigLate'
      BY <1>0, <1>2, <1>5, <2>1, HandlerTypes DEF SigFlags, Flags, SigLate
    <2>4. DispINT'
      BY <1>2, <1>5, <1>6, <2>2 DEF DispINT, Lost, Sig!Sigs
    <2>5. DispUSR1'
      BY <1>2, <1>5, <1>6, <2>2 DEF DispUSR1, Lost, Sig!Sigs, Sig!BySignal
    <2>6. DispUSR2'
      BY <1>2, <1>5, <1>6, <2>2 DEF DispUSR2, Sig!Sigs, Sig!BySignal
    <2>7. DispTERM'
      BY <1>2, <1>5, <1>6, <2>2 DEF DispTERM, Lost, Sig!Sigs
    <2>8. DispALRM'
      BY <1>2, <1>5, <1>6, <2>2 DEF DispALRM, Sig!Sigs
    <2>9. SigDisp'
      BY <2>2, <2>4, <2>5, <2>6, <2>7, <2>8 DEF SigDisp
    <2>10. SigPos' /\ SigAlarm' /\ SigMask' /\ SigOld'
      BY <1>0, <1>2, <1>5, <2>1 DEF SigPos, SigMask, Blocking, SigAlarm, Lengths,
                                    SigOld
    <2>11. SigCount'
      <3>1. sig_flags'.count = IF sig_section = 5 THEN sig_flags.count + 1 ELSE sig_flags.count
        BY <1>0, <1>2, <1>6, <2>1, HandlerTypes DEF DispINT, DispUSR1, DispUSR2,
           DispTERM, Lost, SigMask, Blocking
      <3> QED BY <3>1, <1>0, <1>2, <1>5 DEF SigCount, Raised, SigFlags, Flags
    <2> QED BY <2>1, <2>3, <2>9, <2>10, <2>11 DEF SigInv, SigLive
  <1> QED BY <1>7, <1>8

\* The alarm may go off wherever it is scheduled; the second one finds no handler
\* if the first has used it up.
LEMMA AlarmStep == ASSUME SigLive, Sig!alarm_goes_off PROVE SigInv'
  <1>0. /\ SigPos /\ SigDisp /\ SigOld /\ SigMask /\ SigAlarm /\ SigFlags
        /\ SigLate /\ SigCount /\ sig_death = "none"
    BY DEF SigLive
  <1>1. sig_section = 4 /\ sig_pc \in 4 .. 9 \cup {11}
    BY <1>0 DEF Sig!alarm_goes_off, SigAlarm
  <1>3. "ALRM" \in Sig!Sigs /\ Sig!generate("ALRM", "own")
    BY DEF Sig!alarm_goes_off, Sig!Sigs
  <1>5. /\ sig_armed' = FALSE
        /\ UNCHANGED <<sig_oneshot, sig_inherited, sig_section, sig_pc, sig_n,
                       sig_old, sig_mask, sig_late, sig_critical, sig_sent,
                       sig_safe_sent, sig_printed>>
    BY DEF Sig!alarm_goes_off, Sig!given
  <1>6. /\ DispINT /\ DispUSR1 /\ DispUSR2 /\ DispTERM /\ DispALRM
    BY <1>0 DEF SigDisp
  <1>2. \/ sig_disp["ALRM"] = "alarm"
        \/ sig_oneshot /\ (sig_sent > 0 \/ sig_flags.timed_out = 1)
    BY <1>1, <1>6 DEF DispALRM, Lost
  <1>7. CASE sig_disp["ALRM"] = "DFL"
    <2>1. sig_death' = "own" /\ UNCHANGED <<sig_flags, sig_inside, sig_pend>>
      BY <1>3, <1>7, DieStep
    <2>3. Sig!Survives'
      BY <2>1, <1>1, <1>2, <1>5, <1>7 DEF Sig!Survives
    <2> QED BY <2>1, <2>3, <1>1, <1>5, DeadStep
  <1>8. CASE sig_disp["ALRM"] # "DFL"
    <2>1. /\ sig_death' = "none" /\ sig_inside' = 0
          /\ sig_pend' \subseteq sig_mask
          /\ sig_flags' = IF "ALRM" \in sig_mask THEN sig_flags
                          ELSE Sig!handler(sig_disp["ALRM"], sig_flags)
          /\ sig_disp' = IF "ALRM" \notin sig_mask /\ sig_oneshot /\ sig_disp["ALRM"] \in Sig!BySignal
                         THEN [sig_disp EXCEPT !["ALRM"] = "DFL"] ELSE sig_disp
      BY <1>3, <1>8, GenerateStep
    <2>2. /\ sig_disp' = [g \in Sig!Sigs |-> sig_disp'[g]]
          /\ \A g \in Sig!Sigs \ {"ALRM"} : sig_disp'[g] = sig_disp[g]
          /\ \/ sig_disp'["ALRM"] = sig_disp["ALRM"]
             \/ sig_oneshot /\ sig_disp["ALRM"] \in Sig!BySignal /\ sig_disp'["ALRM"] = "DFL"
      BY <1>3, <1>8, <2>1, UsedUp
    <2>3. SigFlags' /\ SigLate'
      BY <1>0, <1>5, <2>1, HandlerTypes DEF SigFlags, Flags, SigLate
    <2>4. sig_disp["ALRM"] = "alarm"
      BY <1>1, <1>6, <1>8 DEF DispALRM, Lost
    <2>5. sig_flags'.timed_out = 1
      <3>1. "ALRM" \notin sig_mask
        BY <1>0 DEF SigMask
      <3> QED BY <3>1, <2>1, <2>4, <1>0 DEF Sig!handler, Sig!alarm_handler,
                                            SigFlags,
                                            Flags
    <2>6. DispINT' /\ DispUSR1' /\ DispUSR2' /\ DispTERM'
      BY <1>1, <1>5, <1>6, <2>2 DEF DispINT, DispUSR1, DispUSR2, DispTERM, Sig!Sigs
    <2>8. DispALRM'
      BY <1>1, <1>5, <2>2, <2>4, <2>5 DEF DispALRM, Lost
    <2>9. SigDisp'
      BY <2>2, <2>6, <2>8 DEF SigDisp
    <2>10. SigPos' /\ SigAlarm' /\ SigMask' /\ SigOld'
      BY <1>0, <1>5, <2>1 DEF SigPos, SigMask, Blocking, SigAlarm, SigOld
    <2>11. SigCount'
      BY <1>0, <2>4, <2>1, <1>5, HandlerTypes DEF SigCount, Raised
    <2> QED BY <2>1, <2>3, <2>9, <2>10, <2>11 DEF SigInv, SigLive
  <1> QED BY <1>7, <1>8

\* Another process may send any signal at any step.
LEMMA OutsideStep ==
    ASSUME SigLive, NEW s \in Sig!Sigs, Sig!outside_signal(s)
    PROVE  SigInv'
  <1>0. /\ SigPos /\ SigDisp /\ SigOld /\ SigMask /\ SigAlarm /\ SigFlags
        /\ SigLate /\ SigCount /\ sig_death = "none"
    BY DEF SigLive
  <1>3. Sig!generate(s, "outside")
    BY DEF Sig!outside_signal
  <1>5. UNCHANGED <<sig_oneshot, sig_inherited, sig_section, sig_pc, sig_n,
                    sig_old, sig_mask, sig_armed, sig_late, sig_critical,
                    sig_printed>>
    BY DEF Sig!outside_signal, Sig!given
  <1>4. sig_sent' \in Nat /\ sig_sent' > 0 /\ sig_sent' = sig_sent + 1
    BY <1>0 DEF Sig!outside_signal, SigPos
  <1>6. /\ DispINT /\ DispUSR1 /\ DispUSR2 /\ DispTERM /\ DispALRM
    BY <1>0 DEF SigDisp
  <1>1. sig_section \in 1 .. 5
    <2>1. ~(sig_section > 5)
      BY <1>0, SigSteps DEF Sig!outside_signal, Sig!Ended
    <2> QED BY <1>0, <2>1 DEF SigPos
  <1>7. CASE sig_disp[s] = "DFL"
    <2>1. sig_death' = "outside" /\ UNCHANGED <<sig_flags, sig_inside, sig_pend>>
      BY <1>3, <1>7, DieStep
    <2> QED BY <2>1, <1>1, <1>5, DeadStep
  <1>8. CASE sig_disp[s] # "DFL"
    <2>1. /\ sig_death' = "none" /\ sig_inside' = 0
          /\ sig_pend' \subseteq sig_mask
          /\ sig_flags' = IF s \in sig_mask THEN sig_flags
                          ELSE Sig!handler(sig_disp[s], sig_flags)
          /\ sig_disp' = IF s \notin sig_mask /\ sig_oneshot /\ sig_disp[s] \in Sig!BySignal
                         THEN [sig_disp EXCEPT ![s] = "DFL"] ELSE sig_disp
      BY <1>3, <1>8, GenerateStep
    <2>2. /\ sig_disp' = [g \in Sig!Sigs |-> sig_disp'[g]]
          /\ \A g \in Sig!Sigs \ {s} : sig_disp'[g] = sig_disp[g]
          /\ \/ sig_disp'[s] = sig_disp[s]
             \/ sig_oneshot /\ sig_disp[s] \in Sig!BySignal /\ sig_disp'[s] = "DFL"
      BY <1>8, <2>1, UsedUp
    <2>12. \A g \in Sig!Sigs : \/ sig_disp'[g] = sig_disp[g]
                              \/ /\ sig_oneshot /\ sig_disp[g] \in Sig!BySignal
                                 /\ sig_disp'[g] = "DFL"
      BY <2>2
    <2>3. SigFlags' /\ SigLate'
      BY <1>0, <1>5, <2>1, HandlerTypes DEF SigFlags, Flags, SigLate
    <2>13. sig_flags.timed_out = 1 => sig_flags'.timed_out = 1
      BY <1>0, <2>1, HandlerTypes
    <2>4. DispINT'
      BY <1>0, <1>4, <1>5, <1>6, <2>12 DEF DispINT, Lost, Sig!Sigs, Sig!BySignal,
                                           SigPos
    <2>5. DispUSR1'
      BY <1>0, <1>4, <1>5, <1>6, <2>12 DEF DispUSR1, Lost, Sig!Sigs, Sig!BySignal,
                                           SigPos
    <2>6. DispUSR2'
      BY <1>0, <1>5, <1>6, <2>12 DEF DispUSR2, Sig!Sigs, Sig!BySignal, SigPos
    <2>7. DispTERM'
      BY <1>0, <1>4, <1>5, <1>6, <2>12 DEF DispTERM, Lost, Sig!Sigs, Sig!BySignal,
                                           SigPos
    <2>8. DispALRM'
      BY <1>0, <1>4, <1>5, <1>6, <2>12, <2>13 DEF DispALRM, Lost, Sig!Sigs,
                                                  Sig!BySignal, SigPos
    <2>9. SigDisp'
      BY <2>2, <2>4, <2>5, <2>6, <2>7, <2>8 DEF SigDisp
    <2>10. SigPos' /\ SigAlarm' /\ SigMask' /\ SigOld'
      BY <1>0, <1>4, <1>5, <2>1 DEF SigPos, SigMask, Blocking, SigAlarm, SigOld
    <2>11. SigCount'
      <3>1. sig_disp[s] = "safe" => sig_section = 5 /\ s \notin sig_mask
        BY <1>0, <1>6 DEF DispINT, DispUSR1, DispUSR2, DispTERM, DispALRM, Lost,
                          SigMask, Blocking, SigPos, Sig!Sigs
      <3>2. sig_flags'.count = IF sig_disp[s] = "safe" THEN sig_flags.count + 1 ELSE sig_flags.count
        BY <3>1, <1>0, <2>1, HandlerTypes
      <3>3. sig_safe_sent' = IF sig_disp[s] = "safe" THEN sig_safe_sent + 1 ELSE sig_safe_sent
        BY DEF Sig!outside_signal
      <3> QED BY <3>1, <3>2, <3>3, <1>0, <1>5 DEF SigCount, Raised, SigPos,
                                                  SigFlags,
                                                  Flags
    <2> QED BY <2>1, <2>3, <2>9, <2>10, <2>11 DEF SigInv, SigLive
  <1> QED BY <1>7, <1>8

\* Going to the next section, the loops, and the ticks that raise nothing.
LEMMA PlainSteps ==
    ASSUME SigLive, Sig!next_section \/ Sig!for_loop \/ Sig!no_raise
    PROVE  SigLive'
  <1>0. /\ SigPos /\ SigDisp /\ SigOld /\ SigMask /\ SigAlarm /\ SigFlags
        /\ SigLate /\ SigCount /\ sig_death = "none"
    BY DEF SigLive
  <1>1. UNCHANGED <<sig_oneshot, sig_inherited, sig_sent, sig_disp, sig_old, sig_mask, sig_pend, sig_armed, sig_flags, sig_rc,
                    sig_late, sig_critical, sig_inside, sig_safe_sent,
                    sig_printed, sig_death>>
    BY DEF Sig!step, Sig!given, Sig!next_section, Sig!for_loop, Sig!no_raise
  <1>2. \/ /\ sig_section \in 1 .. 5 /\ sig_pc = Lengths[sig_section] + 1
           /\ sig_section' = sig_section + 1 /\ sig_pc' = 1 /\ sig_n' = 0
        \/ sig_section' = sig_section /\ sig_section = 2 /\ sig_pc = 3 /\ sig_pc' = 4 /\ sig_n' = 0
        \/ sig_section' = sig_section /\ sig_section = 2 /\ sig_pc = 10 /\ sig_pc' = 4 /\ sig_n' = sig_n + 1
        \/ sig_section' = sig_section /\ sig_section = 2 /\ sig_pc = 10 /\ sig_pc' = 11 /\ sig_n' = sig_n
        \/ sig_section' = sig_section /\ sig_section = 2 /\ sig_pc \in 8 .. 9 /\ sig_pc' = sig_pc + 1 /\ sig_n' = sig_n
        \/ sig_section' = sig_section /\ sig_section = 4 /\ sig_pc = 4 /\ sig_pc' = 5
        \/ sig_section' = sig_section /\ sig_section = 4 /\ sig_pc = 7 /\ sig_pc' \in {5, 8}
    <2>1. CASE Sig!next_section
      <3>3. ~(sig_section > 5)
        BY <1>0, <2>1, SigSteps DEF Sig!next_section, Sig!Ended
      <3>1. sig_section \in 1 .. 5
        BY <1>0, <3>3 DEF SigPos
      <3>2. Len(Sig!here) = Lengths[sig_section] /\ Lengths[sig_section] \in Nat
        BY <3>1, <1>0, SigSteps DEF Lengths
      <3> QED BY <3>1, <3>2, <1>0, <2>1 DEF Sig!next_section, SigPos
    <2>2. CASE Sig!for_loop
      <3>1. CASE Sig!is("enter_loop") /\ sig_pc' = sig_pc + 1 /\ sig_section' = sig_section /\ sig_n' = 0
        <4>1. Table /\ Sig!now.op = "enter_loop"
          BY <3>1, Where
        <4> QED BY <3>1, <4>1 DEF Table, InSignal, InAtomicFlag, InSigaction,
                                  InAlarm, InSafety, At
      <3>2. CASE /\ Sig!is("again") /\ sig_section' = sig_section
                 /\ \/ sig_pc' = sig_pc + 1 /\ sig_n' = sig_n
                    \/ sig_pc' = Sig!after("enter_loop") /\ sig_n' = sig_n + 1
        <4>1. Table /\ Sig!now.op = "again"
          BY <3>2, Where
        <4>2. (sig_section = 2 /\ sig_pc = 10) \/ (sig_section = 4 /\ sig_pc = 7)
          BY <4>1 DEF Table, InSignal, InAtomicFlag, InSigaction, InAlarm,
                      InSafety, At
        <4> QED BY <3>2, <4>2, Jumps
      <3> QED BY <2>2, <3>1, <3>2 DEF Sig!for_loop, Sig!step, Sig!given
    <2>3. CASE Sig!no_raise
      <3>1. Table /\ Sig!now.op = "raise_at"
        BY <2>3, Where DEF Sig!no_raise
      <3>2. sig_section = 2 /\ sig_pc \in 8 .. 9
        BY <3>1 DEF Table, InSignal, InAtomicFlag, InSigaction, InAlarm, InSafety,
                    At
      <3> QED BY <2>3, <3>2 DEF Sig!no_raise, Sig!step, Sig!given
    <2> QED BY <2>1, <2>2, <2>3
  <1>3. sig_n' \in Nat
    BY <1>0 DEF Sig!next_section, Sig!for_loop, Sig!no_raise, Sig!step, Sig!given,
                SigPos
  <1>4. SigPos'
    BY <1>0, <1>1, <1>2, <1>3 DEF SigPos, Lengths
  <1>9. DispINT /\ DispUSR1 /\ DispUSR2 /\ DispTERM /\ DispALRM
    BY <1>0 DEF SigDisp
  <1>10. DispINT' /\ DispUSR2' /\ DispALRM'
    BY <1>0, <1>1, <1>2, <1>9 DEF SigPos, DispINT, DispUSR2, DispALRM, Lost, Lengths
  <1>11. DispUSR1'
    BY <1>0, <1>1, <1>2, <1>9 DEF SigPos, DispUSR1, Lost, Lengths
  <1>12. DispTERM'
    BY <1>0, <1>1, <1>2, <1>9 DEF SigPos, DispTERM, Lost, Lengths
  <1>5. SigDisp' /\ SigOld'
    BY <1>0, <1>1, <1>2, <1>10, <1>11, <1>12 DEF SigDisp, SigOld, Lengths
  <1>6. SigMask' /\ SigAlarm'
    BY <1>0, <1>1, <1>2 DEF SigMask, Blocking, SigAlarm, Lengths
  <1>7. SigFlags' /\ SigLate'
    BY <1>0, <1>1, <1>2 DEF SigFlags, Flags, SigLate, Lengths
  <1>8. SigCount'
    BY <1>0, <1>1, <1>2 DEF SigCount, Raised, Lengths
  <1> QED BY <1>0, <1>1, <1>4, <1>5, <1>6, <1>7, <1>8 DEF SigLive

\* Steps after which each signal should have the disposition it has.
LEMMA SameDisp ==
    ASSUME SigLive, sig_section' = sig_section, sig_pc' \in Nat,
           \/ sig_section = 2 /\ sig_pc \in 4 .. 12 /\ sig_pc' \in sig_pc + 1 .. 13
           \/ sig_section = 3 /\ sig_pc \in {8, 10} /\ sig_pc' = sig_pc + 1
           \/ sig_section = 4 /\ sig_pc \in 2 .. 11 /\ sig_pc' \in sig_pc + 1 .. 12
           \/ sig_section = 5 /\ sig_pc = 5 /\ sig_pc' = 6,
           sig_section = 4 /\ sig_pc > 3 => sig_flags'.timed_out = sig_flags.timed_out,
           UNCHANGED <<sig_oneshot, sig_inherited, sig_n, sig_disp, sig_old,
                       sig_sent>>
    PROVE  SigDisp' /\ SigOld' /\ SigPos'
  <1>1. SigPos /\ SigDisp /\ SigOld
    BY DEF SigLive
  <1>2. DispINT /\ DispUSR1 /\ DispUSR2 /\ DispTERM /\ DispALRM
    BY <1>1 DEF SigDisp
  <1>3. DispINT' /\ DispUSR2'
    BY <1>2 DEF DispINT, DispUSR2, Lost
  <1>4. DispUSR1'
    BY <1>2 DEF DispUSR1, Lost
  <1>5. DispTERM'
    BY <1>2 DEF DispTERM, Lost
  <1>6. DispALRM'
    BY <1>2 DEF DispALRM, Lost
  <1>7. SigOld' /\ SigPos'
    BY <1>1 DEF SigOld, SigPos, Lengths
  <1> QED BY <1>1, <1>3, <1>4, <1>5, <1>6, <1>7 DEF SigDisp

\* Blocking SIGUSR1, and restoring the mask with it pending.
LEMMA BlockStep == ASSUME SigLive, Sig!block \/ Sig!setmask PROVE SigLive'
  <1>0. /\ SigPos /\ SigDisp /\ SigOld /\ SigMask /\ SigAlarm /\ SigFlags
        /\ SigLate /\ SigCount /\ sig_death = "none"
    BY DEF SigLive
  <1>1. /\ sig_pc' = sig_pc + 1 /\ sig_section = 3
        /\ UNCHANGED <<sig_oneshot, sig_inherited, sig_section, sig_n, sig_old,
                       sig_armed, sig_late, sig_inside, sig_sent, sig_safe_sent,
                       sig_printed>>
        /\ \/ sig_pc = 8 /\ Sig!now.sig = "USR1" /\ Sig!block
           \/ sig_pc = 10 /\ Sig!setmask
    <2>1. CASE Sig!block
      <3>1. Table /\ Sig!now.op = "block"
        BY <2>1, Where DEF Sig!block
      <3>2. sig_section = 3 /\ sig_pc = 8 /\ Sig!now.sig = "USR1"
        BY <3>1 DEF Table, InSignal, InAtomicFlag, InSigaction, InAlarm, InSafety,
                    At
      <3> QED BY <2>1, <3>2 DEF Sig!block, Sig!step, Sig!given
    <2>2. CASE Sig!setmask
      <3>1. Table /\ Sig!now.op = "setmask"
        BY <2>2, Where DEF Sig!setmask
      <3>2. sig_section = 3 /\ sig_pc = 10
        BY <3>1 DEF Table, InSignal, InAtomicFlag, InSigaction, InAlarm, InSafety,
                    At
      <3> QED BY <2>2, <3>2 DEF Sig!setmask, Sig!step, Sig!given
    <2> QED BY <2>1, <2>2
  <1>2. sig_death' = "none" /\ SigMask' /\ UNCHANGED <<sig_disp, sig_flags>>
    <2>1. CASE sig_pc = 8 /\ Sig!now.sig = "USR1" /\ Sig!block
      BY <2>1, <1>0, <1>1 DEF Sig!block, SigMask, Blocking
    <2>2. CASE sig_pc = 10 /\ Sig!setmask
      <3>1. \A s \in sig_pend : sig_disp[s] = "sa_simple"
        BY <2>2, <1>0, <1>1 DEF SigMask, SigDisp, DispUSR1, Blocking
      <3>2. Sig!handler("sa_simple", sig_flags) = sig_flags
        BY DEF Sig!handler
      <3>4. ASSUME NEW s \in sig_pend, Sig!deliver(s, "own")
            PROVE  sig_death' = "none" /\ UNCHANGED <<sig_disp, sig_flags>>
        <4>1. sig_disp[s] = "sa_simple"
          BY <3>1
        <4> QED BY <3>2, <3>4, <4>1, <1>0 DEF Sig!deliver, Sig!BySignal
      <3>5. sig_death' = "none" /\ UNCHANGED <<sig_disp, sig_flags>>
        BY <3>4, <2>2, <1>0 DEF Sig!setmask
      <3>3. SigMask'
        BY <2>2, <1>0, <1>1 DEF Sig!setmask, SigMask, Blocking
      <3> QED BY <3>5, <3>3
    <2> QED BY <1>1, <2>1, <2>2
  <1>3. SigPos' /\ SigDisp' /\ SigOld'
    BY <1>1, <1>2, SameDisp
  <1>4. SigAlarm' /\ SigFlags' /\ SigLate' /\ SigCount'
    BY <1>0, <1>1, <1>2 DEF SigAlarm, SigFlags, Flags, SigLate, SigCount
  <1> QED BY <1>2, <1>3, <1>4 DEF SigLive

\* The tests and the work of section_atomic_flag.
LEMMA LoopStep == ASSUME SigLive, Sig!loop PROVE SigLive'
  <1>0. /\ SigPos /\ SigDisp /\ SigOld /\ SigMask /\ SigAlarm /\ SigFlags
        /\ SigLate /\ SigCount /\ sig_death = "none"
    BY DEF SigLive
  <1>1. /\ sig_section = 2 /\ sig_section' = sig_section /\ sig_n' = sig_n
        /\ UNCHANGED <<sig_oneshot, sig_inherited, sig_sent, sig_disp, sig_old, sig_mask, sig_pend, sig_armed, sig_critical,
                       sig_inside, sig_safe_sent, sig_printed, sig_death>>
        /\ \/ /\ sig_pc = 4 /\ sig_pc' = (IF sig_flags.shutdown = 1 THEN 12 ELSE 5)
              /\ UNCHANGED <<sig_flags, sig_late>>
           \/ sig_pc = 5 /\ sig_pc' \in {6, 7} /\ UNCHANGED <<sig_flags, sig_late>>
           \/ sig_pc = 6 /\ sig_pc' = 7 /\ sig_flags' = [sig_flags EXCEPT !.usr1 = 0] /\ UNCHANGED sig_late
           \/ /\ sig_pc = 7 /\ sig_pc' = 8 /\ UNCHANGED sig_flags
              /\ sig_late' = IF sig_flags.shutdown = 1 THEN sig_late + 1 ELSE sig_late
           \/ sig_pc = 11 /\ sig_pc' = 12 /\ UNCHANGED <<sig_flags, sig_late>>
           \/ sig_pc = 12 /\ sig_pc' = 13 /\ sig_flags' = [sig_flags EXCEPT !.shutdown = 0] /\ sig_late' = 0
    <2>1. Table
          /\ \/ Sig!now.op = "if_shutdown" /\ Sig!is("if_shutdown")
             \/ Sig!now.op = "if_usr1" /\ Sig!is("if_usr1")
             \/ Sig!now.op = "reset_usr1" /\ Sig!is("reset_usr1")
             \/ Sig!now.op = "work" /\ Sig!is("work")
             \/ Sig!now.op = "end_loop" /\ Sig!is("end_loop")
             \/ Sig!now.op = "clear_shutdown" /\ Sig!is("clear_shutdown")
      BY Where DEF Sig!loop
    <2>2. sig_section = 2 /\ \/ sig_pc = 4 /\ Sig!now.op = "if_shutdown"
                             \/ sig_pc = 5 /\ Sig!now.op = "if_usr1"
                             \/ sig_pc = 6 /\ Sig!now.op = "reset_usr1"
                             \/ sig_pc = 7 /\ Sig!now.op = "work"
                             \/ sig_pc = 11 /\ Sig!now.op = "end_loop"
                             \/ sig_pc = 12 /\ Sig!now.op = "clear_shutdown"
      BY <2>1 DEF Table, InSignal, InAtomicFlag, InSigaction, InAlarm, InSafety, At
    <2> QED BY <2>2, Jumps DEF Sig!loop, Sig!is, Sig!step, Sig!given, Sig!jump
  <1>4. SigPos' /\ SigDisp' /\ SigOld'
    BY <1>0, <1>1, SameDisp DEF SigFlags, Flags
  <1>6. SigMask' /\ SigAlarm'
    BY <1>0, <1>1 DEF SigMask, Blocking, SigAlarm
  <1>7. SigFlags' /\ SigLate'
    BY <1>0, <1>1 DEF SigFlags, Flags, SigLate
  <1>8. SigCount'
    BY <1>0, <1>1 DEF SigCount, SigFlags, Flags
  <1> QED BY <1>0, <1>1, <1>4, <1>6, <1>7, <1>8 DEF SigLive

\* The tests and the work of slow_operation.
LEMMA SlowStep == ASSUME SigLive, Sig!slow PROVE SigLive'
  <1>0. /\ SigPos /\ SigDisp /\ SigOld /\ SigMask /\ SigAlarm /\ SigFlags
        /\ SigLate /\ SigCount /\ sig_death = "none"
    BY DEF SigLive
  <1>1. /\ sig_section = 4 /\ sig_section' = sig_section /\ sig_n' = sig_n
        /\ UNCHANGED <<sig_oneshot, sig_inherited, sig_sent, sig_disp, sig_old, sig_mask, sig_pend, sig_armed, sig_critical,
                       sig_inside, sig_safe_sent, sig_printed, sig_death>>
        /\ \/ sig_pc = 2 /\ sig_pc' = 3 /\ sig_flags' = [sig_flags EXCEPT !.timed_out = 0] /\ UNCHANGED sig_late
           \/ /\ sig_pc = 5 /\ sig_pc' = (IF sig_flags.timed_out = 1 THEN 9 ELSE 6)
              /\ UNCHANGED <<sig_flags, sig_late>>
           \/ /\ sig_pc = 6 /\ sig_pc' = 7 /\ UNCHANGED sig_flags
              /\ sig_late' = IF sig_flags.timed_out = 1 THEN sig_late + 1 ELSE sig_late
           \/ sig_pc = 8 /\ sig_pc' = 9 /\ UNCHANGED <<sig_flags, sig_late>>
    <2>1. Table
          /\ \/ Sig!now.op = "clear_timed_out" /\ Sig!is("clear_timed_out")
             \/ Sig!now.op = "if_timed_out" /\ Sig!is("if_timed_out")
             \/ Sig!now.op = "slow_work" /\ Sig!is("slow_work")
             \/ Sig!now.op = "end_slow" /\ Sig!is("end_slow")
      BY Where DEF Sig!slow
    <2>2. sig_section = 4 /\ \/ sig_pc = 2 /\ Sig!now.op = "clear_timed_out"
                             \/ sig_pc = 5 /\ Sig!now.op = "if_timed_out"
                             \/ sig_pc = 6 /\ Sig!now.op = "slow_work"
                             \/ sig_pc = 8 /\ Sig!now.op = "end_slow"
      BY <2>1 DEF Table, InSignal, InAtomicFlag, InSigaction, InAlarm, InSafety, At
    <2> QED BY <2>2, Jumps DEF Sig!slow, Sig!is, Sig!step, Sig!given, Sig!jump
  <1>4. SigPos' /\ SigDisp' /\ SigOld'
    BY <1>0, <1>1, SameDisp DEF SigFlags, Flags
  <1>6. SigMask' /\ SigAlarm'
    BY <1>0, <1>1 DEF SigMask, Blocking, SigAlarm
  <1>7. SigFlags' /\ SigLate'
    BY <1>0, <1>1 DEF SigFlags, Flags, SigLate
  <1>8. SigCount'
    BY <1>0, <1>1 DEF SigCount, SigFlags, Flags
  <1> QED BY <1>0, <1>1, <1>4, <1>6, <1>7, <1>8 DEF SigLive

\* alarm(n) and alarm(0).
LEMMA ArmStep == ASSUME SigLive, Sig!alarm PROVE SigLive'
  <1>0. /\ SigPos /\ SigDisp /\ SigOld /\ SigMask /\ SigAlarm /\ SigFlags
        /\ SigLate /\ SigCount /\ sig_death = "none"
    BY DEF SigLive
  <1>1. Table /\ Sig!now.op = "alarm"
    BY Where DEF Sig!alarm
  <1>2. sig_section = 4 /\ \/ sig_pc \in {3, 10} /\ Sig!now.arg = TRUE
                           \/ sig_pc \in {9, 11} /\ Sig!now.arg = FALSE
    BY <1>1 DEF Table, InSignal, InAtomicFlag, InSigaction, InAlarm, InSafety, At
  <1>3. /\ sig_pc' = sig_pc + 1 /\ sig_armed' = Sig!now.arg
        /\ UNCHANGED <<sig_oneshot, sig_inherited, sig_sent, sig_section, sig_n, sig_disp, sig_old, sig_mask, sig_pend, sig_flags,
                       sig_late, sig_critical, sig_inside, sig_safe_sent,
                       sig_printed, sig_death>>
    BY DEF Sig!alarm, Sig!step, Sig!given
  <1>4. SigAlarm'
    <2>1. CASE sig_pc \in {3, 10} /\ Sig!now.arg = TRUE
      <3>1. sig_section' = 4 /\ sig_pc' \in 4 .. 9 \cup {11}
        BY <1>2, <1>3, <2>1
      <3>2. sig_armed' = TRUE
        BY <1>3, <2>1
      <3> QED BY <3>1, <3>2 DEF SigAlarm
    <2>2. CASE Sig!now.arg = FALSE
      <3>1. sig_armed' = FALSE
        BY <1>3, <2>2
      <3> QED BY <3>1 DEF SigAlarm
    <2> QED BY <1>2, <2>1, <2>2
  <1>7. SigPos' /\ SigDisp' /\ SigOld'
    BY <1>2, <1>3, SameDisp
  <1>5. SigFlags' /\ SigLate' /\ SigCount'
    BY <1>0, <1>2, <1>3 DEF SigFlags, Flags, SigLate, SigCount
  <1>6. SigMask'
    BY <1>0, <1>2, <1>3 DEF SigMask, Blocking
  <1> QED BY <1>0, <1>3, <1>4, <1>5, <1>6, <1>7 DEF SigLive

\* Reading the counter, after three raises.
LEMMA ReadStep == ASSUME SigLive, Sig!read_count PROVE SigLive'
  <1>0. /\ SigPos /\ SigDisp /\ SigOld /\ SigMask /\ SigAlarm /\ SigFlags
        /\ SigLate /\ SigCount /\ sig_death = "none"
    BY DEF SigLive
  <1>1. Table /\ Sig!now.op = "read_count"
    BY Where DEF Sig!read_count
  <1>2. sig_section = 5 /\ sig_pc = 5
    BY <1>1 DEF Table, InSignal, InAtomicFlag, InSigaction, InAlarm, InSafety, At
  <1>3. /\ sig_pc' = sig_pc + 1 /\ sig_printed' = sig_flags.count
        /\ UNCHANGED <<sig_oneshot, sig_inherited, sig_sent, sig_section, sig_n, sig_disp, sig_old, sig_mask, sig_pend, sig_armed,
                       sig_flags, sig_late, sig_critical, sig_inside,
                       sig_safe_sent, sig_death>>
    BY DEF Sig!read_count, Sig!step, Sig!given
  <1>6. SigPos' /\ SigDisp' /\ SigOld'
    BY <1>2, <1>3, SameDisp
  <1>4. SigMask' /\ SigAlarm' /\ SigFlags' /\ SigLate'
    BY <1>0, <1>2, <1>3 DEF SigMask, Blocking, SigAlarm, SigFlags, Flags, SigLate
  <1>5. SigCount'
    BY <1>0, <1>2, <1>3 DEF SigCount, Raised
  <1> QED BY <1>0, <1>3, <1>4, <1>5, <1>6 DEF SigLive

\* Every step of the program, of the alarm and of other processes keeps it.
LEMMA SigStep == SigInv /\ [Sig!Next]_Sig!vars => SigInv'
  <1> SUFFICES ASSUME SigInv, [Sig!Next]_Sig!vars PROVE SigInv'
    OBVIOUS
  <1>1. CASE UNCHANGED Sig!vars
    <2>1. SigLive => SigLive'
      BY <1>1 DEF Sig!vars, SigLive, SigPos, SigDisp, DispINT, DispUSR1, DispUSR2,
                  DispTERM, DispALRM, Lost, SigOld, SigMask, Blocking, SigAlarm,
                  SigFlags, Flags, SigLate, SigCount, Raised
    <2>2. SigDead => SigDead'
      BY <1>1 DEF Sig!vars, SigDead, Sig!Survives
    <2> QED BY <2>1, <2>2 DEF SigInv
  <1>5. CASE sig_death # "none"
    <2>1. ~Sig!next_section /\ \A o : ~Sig!is(o)
      BY <1>5 DEF Sig!next_section, Sig!is
    <2>2. ~Sig!run_main
      BY <2>1 DEF Sig!run_main, Sig!for_loop, Sig!install, Sig!raise, Sig!no_raise,
                  Sig!block, Sig!setmask, Sig!loop, Sig!alarm, Sig!slow,
                  Sig!read_count
    <2>3. ~Sig!alarm_goes_off /\ \A s \in Sig!Sigs : ~Sig!outside_signal(s)
      BY <1>5 DEF Sig!alarm_goes_off, Sig!outside_signal
    <2> QED BY <1>1, <2>2, <2>3 DEF Sig!Next
  <1>6. CASE sig_death = "none"
    <2>1. SigLive
      BY <1>6 DEF SigInv, SigDead
    <2>2. CASE Sig!run_main
      BY <2>1, <2>2, PlainSteps, InstallStep, RaiseStep, BlockStep, LoopStep,
         ArmStep, SlowStep, ReadStep DEF Sig!run_main, SigInv
    <2>3. CASE Sig!alarm_goes_off BY <2>1, <2>3, AlarmStep
    <2>4. CASE \E s \in Sig!Sigs : Sig!outside_signal(s) BY <2>1, <2>4, OutsideStep
    <2> QED BY <1>1, <2>2, <2>3, <2>4 DEF Sig!Next
  <1> QED BY <1>5, <1>6

(***************************************************************************)
(* Whenever the alarm and any number of outside signals come, whatever the *)
(* inherited dispositions, for one-shot and for persistent signal(), and   *)
(* for any number of iterations: the program's own signals end it only     *)
(* through a used up one-shot handler, the blocked section is not          *)
(* interrupted, at most one unit of work follows a flag, no raised signal  *)
(* is missing from the printed count, and at the end the saved             *)
(* dispositions are back.                                                  *)
(***************************************************************************)
THEOREM SignalsUndisturbed == Sig!Spec => []Undisturbed
  <1>1. SigInv => Undisturbed
    <2>1. ASSUME SigLive PROVE Undisturbed
      <3>0. /\ SigPos /\ SigDisp /\ SigMask /\ SigAlarm /\ SigLate /\ SigCount
            /\ sig_death = "none"
        BY <2>1 DEF SigLive
      <3>1. Sig!Ended => sig_section = 6
        <4>1. Len(Sig!main) = 5 BY <3>0, SigSteps
        <4> QED BY <3>0, <4>1 DEF Sig!Ended, SigPos
      <3>2. Sig!CriticalSectionUndisturbed /\ Sig!Survives /\ Sig!StopsPromptly
        BY <3>0 DEF Sig!CriticalSectionUndisturbed, Sig!Survives,
                    Sig!StopsPromptly, SigMask, SigLate
      <3>3. Sig!CountExact
        BY <3>0, <3>1 DEF Sig!CountExact, SigCount
      <3>4. sig_section = 6 => /\ \A s \in {"INT", "USR2"} : sig_disp[s] = sig_inherited[s]
                               /\ \A s \in {"USR1", "TERM", "ALRM"} : sig_disp[s] = "DFL"
        BY <3>0 DEF SigDisp, DispINT, DispUSR1, DispUSR2, DispTERM, DispALRM
      <3>5. Sig!RestoredAtEnd
        BY <3>0, <3>1, <3>4 DEF Sig!RestoredAtEnd, SigAlarm
      <3> QED BY <3>2, <3>3, <3>5 DEF Undisturbed
    <2>2. ASSUME SigDead PROVE Undisturbed
      <3>1. ~Sig!Ended
        <4>1. Len(Sig!main) = 5 BY DEF Sig!main
        <4> QED BY <2>2, <4>1 DEF Sig!Ended, SigDead
      <3> QED BY <2>2, <3>1 DEF SigDead, Undisturbed,
                   Sig!CriticalSectionUndisturbed, Sig!CountExact,
                   Sig!RestoredAtEnd, Sig!StopsPromptly
    <2> QED BY <2>1, <2>2 DEF SigInv
  <1> QED BY <1>1, SigInit, SigStep, PTL DEF Sig!Spec

-----------------------------------------------------------------------------
\* Part k of line, row or record i.
Piece == Nat \X Nat

\* A non-empty set of numbers has a smallest, and Min is it.
LEMMA Smallest ==
    ASSUME NEW S \in SUBSET Nat, S # {}
    PROVE  File!Min(S) \in S /\ \A y \in S : File!Min(S) <= y
  <1> DEFINE Less == {ss \in Nat \X Nat : ss[1] < ss[2]}
  <1>1. IsWellFoundedOn(Less, Nat)
    BY NatLessThanWellFounded, Zenon DEF OpToRel
  <1>2. \A a, b \in Nat : a < b => <<a, b>> \in Less
    OBVIOUS
  <1> HIDE DEF Less
  <1>3. PICK x \in S : \A y \in S : ~ (<<y, x>> \in Less)
    BY <1>1, WFMin
  <1>4. ASSUME NEW y \in S PROVE x <= y
    <2>1. x \in Nat /\ y \in Nat /\ ~ (<<y, x>> \in Less)
      BY <1>3
    <2>2. ~ (y < x)
      BY <1>2, <2>1
    <2> QED BY <2>1, <2>2
  <1> QED BY <1>4 DEF File!Min

\* How long a written text is, and its j-th piece.
LEMMA ItemsLen ==
    ASSUME NEW n \in Nat, NEW first \in Nat
    PROVE  /\ File!Items(first, n, 2) \in Seq(Piece) /\ Len(File!Items(first, n, 2)) = 2 * n
           /\ File!Items(first, n, 4) \in Seq(Piece) /\ Len(File!Items(first, n, 4)) = 4 * n
           /\ \A j \in 1 .. 2 * n : File!Items(first, n, 2)[j] = <<first + ((j - 1) \div 2), 1 + ((j - 1) % 2)>>
           /\ \A j \in 1 .. 4 * n : File!Items(first, n, 4)[j] = <<first + ((j - 1) \div 4), 1 + ((j - 1) % 4)>>
  <1>1. n * 2 = 2 * n /\ n * 4 = 4 * n /\ 2 * n \in Nat /\ 4 * n \in Nat
    OBVIOUS
  <1>2. File!Items(first, n, 2) \in [1 .. 2 * n -> Piece]
    BY <1>1 DEF File!Items, Piece
  <1>3. File!Items(first, n, 4) \in [1 .. 4 * n -> Piece]
    BY <1>1 DEF File!Items, Piece
  <1>4. /\ File!Items(first, n, 2) \in Seq(Piece)
        /\ File!Items(first, n, 4) \in Seq(Piece)
    BY <1>1, <1>2, <1>3, SeqDef
  <1>5. Len(File!Items(first, n, 2)) = 2 * n /\ Len(File!Items(first, n, 4)) = 4 * n
    BY <1>1, <1>2, <1>3, <1>4, LenProperties
  <1>6. \A j \in 1 .. 2 * n : File!Items(first, n, 2)[j] = <<first + ((j - 1) \div 2), 1 + ((j - 1) % 2)>>
    BY <1>1 DEF File!Items
  <1>7. \A j \in 1 .. 4 * n : File!Items(first, n, 4)[j] = <<first + ((j - 1) \div 4), 1 + ((j - 1) % 4)>>
    BY <1>1 DEF File!Items
  <1> QED BY <1>4, <1>5, <1>6, <1>7

\* The same for one line, row or record.
LEMMA PiecesAre ==
    ASSUME NEW i \in Nat, NEW n \in Nat
    PROVE  File!Pieces(i, n) \in Seq(Piece) /\ Len(File!Pieces(i, n)) = n /\ \A k \in 1 .. n : File!Pieces(i, n)[k] = <<i, k>>
  <1>1. File!Pieces(i, n) \in [1 .. n -> Piece]
    BY DEF File!Pieces, Piece
  <1>2. File!Pieces(i, n) \in Seq(Piece)
    BY <1>1, SeqDef
  <1> QED BY <1>1, <1>2, LenProperties DEF File!Pieces

\* Texts with the same pieces are the same.
LEMMA SameSeq ==
    ASSUME NEW s \in Seq(Piece), NEW t \in Seq(Piece), Len(s) = Len(t), \A k \in 1 .. Len(s) : s[k] = t[k]
    PROVE  s = t
  BY SeqEqual

\* The pieces of a stretch of a text.
LEMMA SubSeqIs ==
    ASSUME NEW S, NEW s \in Seq(S), NEW a \in Nat \ {0}, NEW b \in Nat, b <= Len(s)
    PROVE  /\ SubSeq(s, a, b) \in Seq(S)
           /\ Len(SubSeq(s, a, b)) = IF a <= b THEN b - a + 1 ELSE 0
           /\ \A k \in 1 .. b - a + 1 : SubSeq(s, a, b)[k] = s[a + k - 1]
  BY SubSeqProperties

\* The scratch files.
Names == {"txt", "csv", "bin"}
\* A stream is open.
Open == fio_f.file # "none"

\* Where main can be.
FPos ==
    /\ fio_at \in 1 .. 11
    /\ fio_status \in {"running", "exit(0)", "exit(1)"}
    /\ fio_status = "exit(0)" <=> fio_at = 11

\* The files there are; the text file is there once it was written.
FFiles ==
    /\ fio_files = [x \in DOMAIN fio_files |-> fio_files[x]]
    /\ DOMAIN fio_files \subseteq Names
    /\ \A x \in DOMAIN fio_files : fio_files[x] \in Seq(Piece)
    /\ fio_at \in 2 .. 10 => "txt" \in DOMAIN fio_files
    /\ fio_at = 11 => fio_files = <<>>

\* A stream is open only inside a call, on the file of that call.
FStream ==
    /\ fio_f \in [file : Names \cup {"none"}, pos : Nat]
    /\ ~Open => fio_f = File!Closed
    /\ Open => /\ fio_status = "running" /\ fio_at \in 1 .. 8
               /\ fio_f.file = File!FileOf(File!call) /\ fio_f.file \in DOMAIN fio_files

\* A file holds the beginning of a text, all of it unless a flush was cut short.
PrefixOf(name, all) ==
    name \in DOMAIN fio_files =>
        /\ Len(fio_files[name]) <= Len(all)
        /\ \A k \in 1 .. Len(fio_files[name]) : fio_files[name][k] = all[k]
        /\ Len(fio_files[name]) < Len(all) => name \in fio_cut

\* That is so of the CSV and the binary file once they were written.
FStored ==
    /\ fio_at > 3 => PrefixOf("csv", File!csv_rows)
    /\ fio_at > 5 => PrefixOf("bin", File!bin_records)
    /\ fio_at \in {3, 5} /\ Open => fio_files[fio_f.file] = <<>>

\* The rows printed are the rows written; the last may have lost its end.
RowsOk ==
    \A i \in 1 .. Len(fio_rows) :
        \/ fio_rows[i] = File!Pieces(i, 4)
        \/ i = Len(fio_rows) /\ "csv" \in fio_cut /\ fio_rows[i] = File!Pieces(i, 3)

\* While the stream is inside the file the rows printed are whole and end at its
\* position; the row that was cut is the last there is.
FRows ==
    /\ fio_rows \in Seq(Seq(Piece))
    /\ fio_at < 4 \/ (fio_at = 4 /\ fio_f.pos = 0) => fio_rows = <<>>
    /\ fio_at = 4 /\ fio_f.pos > 0 =>
         \/ /\ \A i \in 1 .. Len(fio_rows) : fio_rows[i] = File!Pieces(i, 4)
            /\ fio_f.pos = 4 * (Len(fio_rows) + 1) /\ fio_f.pos <= Len(fio_files["csv"])
         \/ RowsOk /\ fio_f.pos >= Len(fio_files["csv"]) /\ "csv" \in fio_cut
    /\ fio_at > 4 => RowsOk /\ ("csv" \in fio_cut \/ Len(fio_rows) = ROWS)

\* The array is there between malloc and free; the count is that of the file
\* wherever the file has one.
FRecs ==
    /\ fio_at <= 6 => fio_recs = <<>>
    /\ fio_at > 6 => /\ \A i \in DOMAIN fio_recs : fio_recs[i] = File!Pieces(i, 2)
                     /\ "bin" \in fio_cut \/ Len(fio_recs) = ROWS
    /\ fio_at # 6 \/ fio_f.pos = 0 => fio_records = -1
    /\ fio_at = 6 /\ fio_f.pos # 0 =>
         /\ fio_f.pos = 2 /\ fio_records \in {-1, fio_count} /\ fio_count \in {0, ROWS}
         /\ Len(fio_files["bin"]) >= 2 => fio_count = ROWS

\* Listing i is the first n pieces of the text file.
Listed(i, n) ==
    /\ Len(fio_lines[i]) = n /\ n <= Len(fio_files["txt"])
    /\ \A k \in 1 .. n : fio_lines[i][k] = fio_files["txt"][k]

\* What each read_text printed is what its stream went over.
FLines ==
    /\ fio_lines \in Seq(Seq(Piece))
    /\ Len(fio_lines) = IF fio_at = 1 \/ (fio_at = 2 /\ ~Open) THEN 0
                        ELSE IF fio_at < 8 \/ (fio_at = 8 /\ ~Open) THEN 1 ELSE 2
    /\ fio_at = 2 /\ Open => Listed(1, fio_f.pos)
    /\ fio_at \in 3 .. 7 => Listed(1, Len(fio_files["txt"]))
    /\ fio_at \in 8 .. 10 => Listed(1, Len(fio_lines[1]))
    /\ fio_at = 8 /\ Open => Listed(2, fio_f.pos)
    /\ fio_at \in 9 .. 10 => Listed(2, Len(fio_files["txt"]))
    /\ fio_at >= 10 => fio_sizes["txt"] \in {-1, Len(fio_lines[2])}
    /\ fio_at = 11 => /\ Len(fio_lines[1]) <= Len(fio_lines[2])
                      /\ \A k \in 1 .. Len(fio_lines[1]) : fio_lines[1][k] = fio_lines[2][k]

\* The beginning of the text, all of it unless a flush was cut short.
Begins(s) ==
    /\ Len(s) <= 2 * LINES
    /\ \A k \in 1 .. Len(s) : s[k] = File!text_lines[k]
    /\ Len(s) < 2 * LINES => "txt" \in fio_cut
\* The first n pieces of the text, and after them the appended line or its
\* beginning.
Continues(s, n) ==
    /\ n \in 0 .. 2 * LINES /\ n <= Len(s) /\ Len(s) <= n + 2
    /\ \A k \in 1 .. Len(s) : s[k] = IF k <= n THEN File!text_lines[k]
                                      ELSE File!appended_line[k - n]
    /\ n < 2 * LINES \/ Len(s) < n + 2 => "txt" \in fio_cut
\* The text file before and after the append; at the end, its second listing.
FText ==
    /\ fio_at = 1 /\ Open => fio_files["txt"] = <<>>
    /\ fio_at \in 2 .. 7 => Begins(fio_files["txt"])
    /\ fio_at \in 8 .. 10 => Continues(fio_files["txt"], Len(fio_lines[1]))
    /\ fio_at = 11 => Continues(fio_lines[2], Len(fio_lines[1]))

(***************************************************************************)
(* The inductive invariant of the file demo.  What a reader prints follows *)
(* from the files being beginnings of what was written, and from where the *)
(* stream is against what was printed.                                     *)
(***************************************************************************)
FileInv == FPos /\ FFiles /\ FStream /\ FStored /\ FRows /\ FRecs /\ FLines /\ FText

\* It holds when main starts.
LEMMA FileInit == File!Init => FileInv
  <1> SUFFICES ASSUME File!Init PROVE FileInv
    OBVIOUS
  <1>1. FPos /\ FStream
    BY DEF File!Init, FPos, FStream, Open, File!Closed, Names
  <1>2. FFiles
    BY DEF File!Init, FFiles
  <1>3. FStored /\ FRows /\ FRecs
    BY DEF File!Init, FStored, FRows, FRecs, Open, File!Closed
  <1>4. FLines /\ FText
    BY DEF File!Init, FLines, FText, Open, File!Closed
  <1> QED BY <1>1, <1>2, <1>3, <1>4 DEF FileInv

\* Steps that leave the text file and the first listing alone.
LEMMA TextKept ==
    ASSUME FText, fio_at \in 2 .. 10, fio_at' \in 2 .. 10, fio_at < 8 <=> fio_at' < 8,
           fio_files'["txt"] = fio_files["txt"],
           "txt" \in fio_cut => "txt" \in fio_cut',
           fio_at >= 8 => fio_lines'[1] = fio_lines[1]
    PROVE  FText'
  <1>1. CASE fio_at < 8
    <2>1. Begins(fio_files["txt"])
      BY <1>1 DEF FText
    <2>2. Begins(fio_files["txt"])'
      BY <2>1 DEF Begins
    <2> QED BY <1>1, <2>2 DEF FText
  <1>2. CASE ~(fio_at < 8)
    <2>1. Continues(fio_files["txt"], Len(fio_lines[1]))
      BY <1>2 DEF FText
    <2>2. Continues(fio_files["txt"], Len(fio_lines[1]))'
      <3>1. fio_lines'[1] = fio_lines[1]
        BY <1>2
      <3> QED BY <2>1, <3>1, Zenon DEF Continues
    <2> QED BY <1>2, <2>2 DEF FText
  <1> QED BY <1>1, <1>2

\* The calls main makes, one by one.
LEMMA CallIs ==
    ASSUME fio_at \in 1 .. 11
    PROVE  /\ Len(File!main) = 10
           /\ fio_at = 1 => File!call = "write_text"
           /\ fio_at = 2 => File!call = "read_text"
           /\ fio_at = 3 => File!call = "write_csv"
           /\ fio_at = 4 => File!call = "read_csv"
           /\ fio_at = 5 => File!call = "write_binary"
           /\ fio_at = 6 => File!call = "read_binary"
           /\ fio_at = 7 => File!call = "append_text"
           /\ fio_at = 8 => File!call = "read_text"
           /\ fio_at = 9 => File!call = "sizes"
           /\ fio_at = 10 => File!call = "remove"
  BY DEF File!call, File!main

\* The call a step belongs to says where main is.
LEMMA WhichCall ==
    ASSUME fio_at \in 1 .. 11, NEW c, File!calls(c)
    PROVE  /\ fio_at \in 1 .. 10 /\ fio_status = "running" /\ File!call = c
           /\ c = "write_text" => fio_at = 1
           /\ c = "read_text" => fio_at \in {2, 8}
           /\ c = "write_csv" => fio_at = 3
           /\ c = "read_csv" => fio_at = 4
           /\ c = "write_binary" => fio_at = 5
           /\ c = "read_binary" => fio_at = 6
           /\ c = "append_text" => fio_at = 7
           /\ c = "sizes" => fio_at = 9
           /\ c = "remove" => fio_at = 10
  <1>1. fio_at \in 1 .. 10 /\ fio_status = "running" /\ File!call = c
    BY CallIs DEF File!calls
  <1>2. fio_at = 1 \/ fio_at = 2 \/ fio_at = 3 \/ fio_at = 4 \/ fio_at = 5 \/ fio_at = 6 \/ fio_at = 7 \/ fio_at = 8 \/ fio_at = 9 \/ fio_at = 10
    BY <1>1
  <1> QED BY <1>1, <1>2, CallIs

\* What is left of the open file.
LEMMA RestIs ==
    ASSUME FFiles, fio_f.file \in DOMAIN fio_files, fio_f.pos \in Nat
    PROVE  /\ File!rest \in Seq(Piece)
           /\ Len(fio_files[fio_f.file]) \in Nat
           /\ Len(File!rest) = IF fio_f.pos < Len(fio_files[fio_f.file]) THEN Len(fio_files[fio_f.file]) - fio_f.pos ELSE 0
           /\ \A k \in 1 .. Len(File!rest) : File!rest[k] = fio_files[fio_f.file][fio_f.pos + k]
           /\ File!rest = <<>> <=> Len(File!rest) = 0
  <1> DEFINE s == fio_files[fio_f.file]
             p == fio_f.pos
  <1>1. s \in Seq(Piece) /\ p \in Nat /\ Len(s) \in Nat
    BY DEF FFiles
  <1>2. File!rest = SubSeq(s, p + 1, Len(s))
    BY DEF File!rest
  <1> HIDE DEF s, p
  <1>3. /\ SubSeq(s, p + 1, Len(s)) \in Seq(Piece)
        /\ Len(SubSeq(s, p + 1, Len(s))) = IF p + 1 <= Len(s) THEN Len(s) - (p + 1) + 1 ELSE 0
        /\ \A k \in 1 .. Len(s) - (p + 1) + 1 : SubSeq(s, p + 1, Len(s))[k] = s[(p + 1) + k - 1]
    BY <1>1, SubSeqIs
  <1>4. Len(File!rest) = IF p < Len(s) THEN Len(s) - p ELSE 0
    BY <1>1, <1>2, <1>3
  <1>5. \A k \in 1 .. Len(File!rest) : File!rest[k] = s[p + k]
    BY <1>1, <1>2, <1>3, <1>4
  <1>6. File!rest = <<>> <=> Len(File!rest) = 0
    BY <1>2, <1>3, EmptySeq
  <1> QED BY <1>1, <1>2, <1>3, <1>4, <1>5, <1>6 DEF s, p

\* fgets returns a beginning of what is left, and at least one piece.
LEMMA FgetsIs ==
    ASSUME File!rest \in Seq(Piece), File!rest # <<>>, NEW parts
    PROVE  /\ File!fgets(parts) \in Seq(Piece)
           /\ Len(File!fgets(parts)) \in 1 .. Len(File!rest)
           /\ \A k \in 1 .. Len(File!fgets(parts)) : File!fgets(parts)[k] = File!rest[k]
           /\ LET ends == {k \in DOMAIN File!rest : File!rest[k][2] = parts}
              IN Len(File!fgets(parts)) = IF ends = {} THEN Len(File!rest) ELSE File!Min(ends)
  <1> DEFINE ends == {k \in DOMAIN File!rest : File!rest[k][2] = parts}
             n == IF ends = {} THEN Len(File!rest) ELSE File!Min(ends)
  <1>1. Len(File!rest) \in Nat \ {0} /\ DOMAIN File!rest = 1 .. Len(File!rest)
    BY LenProperties, EmptySeq
  <1>2. ends \in SUBSET Nat /\ \A k \in ends : k \in 1 .. Len(File!rest)
    BY <1>1
  <1>3. n \in 1 .. Len(File!rest)
    <2>1. CASE ends = {} BY <2>1, <1>1
    <2>2. CASE ends # {}
      <3>1. File!Min(ends) \in ends BY <2>2, <1>2, Smallest
      <3> QED BY <3>1, <2>2, <1>2
    <2> QED BY <2>1, <2>2
  <1>4. File!fgets(parts) = SubSeq(File!rest, 1, n)
    BY DEF File!fgets
  <1> HIDE DEF n
  <1>5. /\ SubSeq(File!rest, 1, n) \in Seq(Piece)
        /\ Len(SubSeq(File!rest, 1, n)) = IF 1 <= n THEN n - 1 + 1 ELSE 0
        /\ \A k \in 1 .. n - 1 + 1 : SubSeq(File!rest, 1, n)[k] = File!rest[1 + k - 1]
    BY <1>1, <1>3, SubSeqIs
  <1>6. Len(File!fgets(parts)) = n
    BY <1>1, <1>3, <1>4, <1>5
  <1>7. \A k \in 1 .. n : File!fgets(parts)[k] = File!rest[k]
    BY <1>1, <1>3, <1>4, <1>5
  <1> QED BY <1>3, <1>4, <1>5, <1>6, <1>7 DEF n

\* At the start of a row of the CSV file fgets returns that row, or what a cut left.
LEMMA RowIs ==
    ASSUME FFiles, FStored, fio_at = 4, fio_f.file = "csv", "csv" \in DOMAIN fio_files,
           NEW m \in Nat, fio_f.pos = 4 * m, File!rest # <<>>
    PROVE  /\ Len(File!fgets(4)) = IF Len(File!rest) >= 4 THEN 4 ELSE Len(File!rest)
           /\ File!fgets(4) = File!Pieces(m, Len(File!fgets(4)))
           /\ Len(fio_files["csv"]) <= 4 * (ROWS + 1)
  <1>0. ROWS \in Nat BY FileNumbers DEF File!FileAssumption
  <1>1. /\ File!rest \in Seq(Piece) /\ Len(fio_files["csv"]) \in Nat
        /\ Len(File!rest) = IF 4 * m < Len(fio_files["csv"]) THEN Len(fio_files["csv"]) - 4 * m ELSE 0
        /\ \A k \in 1 .. Len(File!rest) : File!rest[k] = fio_files["csv"][4 * m + k]
        /\ Len(File!rest) # 0
    BY RestIs
  <1>2. /\ Len(File!csv_rows) = 4 * (ROWS + 1)
        /\ \A j \in 1 .. 4 * (ROWS + 1) : File!csv_rows[j] = <<(j - 1) \div 4, 1 + ((j - 1) % 4)>>
    <2> DEFINE n == ROWS + 1
    <2>1. n \in Nat /\ File!csv_rows = File!Items(0, n, 4) BY <1>0 DEF File!csv_rows
    <2> HIDE DEF n
    <2>2. /\ Len(File!csv_rows) = 4 * n
          /\ \A j \in 1 .. 4 * n : File!csv_rows[j] = <<0 + ((j - 1) \div 4), 1 + ((j - 1) % 4)>>
      BY <2>1, ItemsLen
    <2>3. \A j \in 1 .. 4 * n : File!csv_rows[j] = <<(j - 1) \div 4, 1 + ((j - 1) % 4)>>
      <3> TAKE j \in 1 .. 4 * n
      <3>1. File!csv_rows[j] = <<0 + ((j - 1) \div 4), 1 + ((j - 1) % 4)>> BY <2>2
      <3>2. 0 + ((j - 1) \div 4) = (j - 1) \div 4 BY <2>1
      <3> QED BY <3>1, <3>2
    <2> QED BY <2>2, <2>3 DEF n
  <1>3. /\ Len(fio_files["csv"]) <= 4 * (ROWS + 1)
        /\ \A k \in 1 .. Len(fio_files["csv"]) : fio_files["csv"][k] = File!csv_rows[k]
    BY <1>2 DEF FStored, PrefixOf
  <1>4. \A k \in 1 .. Len(File!rest) : File!rest[k] = <<(4 * m + k - 1) \div 4, 1 + ((4 * m + k - 1) % 4)>>
    <2> SUFFICES ASSUME NEW k \in 1 .. Len(File!rest)
                 PROVE  File!rest[k] = <<(4 * m + k - 1) \div 4, 1 + ((4 * m + k - 1) % 4)>>
      OBVIOUS
    <2> DEFINE j == 4 * m + k
    <2>1. j \in 1 .. Len(fio_files["csv"]) /\ File!rest[k] = fio_files["csv"][j] BY <1>1
    <2>2. j \in 1 .. 4 * (ROWS + 1) BY <2>1, <1>0, <1>1, <1>3
    <2> HIDE DEF j
    <2>3. File!rest[k] = <<(j - 1) \div 4, 1 + ((j - 1) % 4)>> BY <2>1, <2>2, <1>2,
                                                                  <1>3
    <2> QED BY <2>3 DEF j
  <1>5. \A k \in 1 .. Len(File!rest) : /\ File!rest[k][2] = 4 <=> k % 4 = 0
                                       /\ k <= 4 => File!rest[k] = <<m, k>>
    <2> SUFFICES ASSUME NEW k \in 1 .. Len(File!rest)
                 PROVE  (File!rest[k][2] = 4 <=> k % 4 = 0) /\ (k <= 4 => File!rest[k] = <<m, k>>)
      OBVIOUS
    <2>1. File!rest[k] = <<(4 * m + k - 1) \div 4, 1 + ((4 * m + k - 1) % 4)>> BY <1>4
    <2>2. k \in Nat /\ k > 0 BY <1>1
    <2>3. 1 + ((4 * m + k - 1) % 4) = 4 <=> k % 4 = 0 BY <2>2
    <2>4. k <= 4 => (4 * m + k - 1) \div 4 = m /\ 1 + ((4 * m + k - 1) % 4) = k BY <2>2
    <2> QED BY <2>1, <2>3, <2>4
  <1> DEFINE ends == {k \in DOMAIN File!rest : File!rest[k][2] = 4}
  <1>6. DOMAIN File!rest = 1 .. Len(File!rest) /\ Len(File!rest) \in Nat BY <1>1
  <1>7. ends = {k \in 1 .. Len(File!rest) : k % 4 = 0} BY <1>5, <1>6
  <1>8. /\ File!fgets(4) \in Seq(Piece) /\ Len(File!fgets(4)) \in 1 .. Len(File!rest)
        /\ \A k \in 1 .. Len(File!fgets(4)) : File!fgets(4)[k] = File!rest[k]
        /\ Len(File!fgets(4)) = IF ends = {} THEN Len(File!rest) ELSE File!Min(ends)
    BY <1>1, FgetsIs
  <1>9. Len(File!fgets(4)) = IF Len(File!rest) >= 4 THEN 4 ELSE Len(File!rest)
    <2>1. CASE Len(File!rest) >= 4
      <3>1. 4 \in ends /\ \A y \in ends : 4 <= y BY <1>6, <1>7, <2>1
      <3>2. ends \in SUBSET Nat /\ ends # {} BY <1>7, <3>1
      <3>3. File!Min(ends) \in ends /\ File!Min(ends) <= 4 BY <3>1, <3>2, Smallest
      <3>4. File!Min(ends) = 4 BY <3>1, <3>2, <3>3
      <3> QED BY <3>2, <3>4, <1>8, <2>1
    <2>2. CASE Len(File!rest) < 4
      <3>1. ends = {} BY <1>6, <1>7, <2>2
      <3> QED BY <3>1, <1>8, <2>2, <1>6
    <2> QED BY <2>1, <2>2, <1>6
  <1> HIDE DEF ends
  <1>10. File!fgets(4) = File!Pieces(m, Len(File!fgets(4)))
    <2> DEFINE n == Len(File!fgets(4))
    <2>6. n \in 1 .. Len(File!rest)
      BY <1>8
    <2>7. n = IF Len(File!rest) >= 4 THEN 4 ELSE Len(File!rest)
      BY <1>9
    <2>5. n \in 1 .. 4 /\ n <= Len(File!rest)
      <3> HIDE DEF n
      <3>0. Len(File!rest) \in Nat BY <1>6
      <3>1. CASE Len(File!rest) >= 4 BY <3>0, <3>1, <2>7
      <3>2. CASE ~(Len(File!rest) >= 4)
        <4>1. n = Len(File!rest) BY <3>2, <2>7
        <4>2. n \in 1 .. Len(File!rest) BY <2>6
        <4> QED BY <3>0, <3>2, <4>1, <4>2
      <3> QED BY <3>1, <3>2
    <2>1. File!fgets(4) \in Seq(Piece) /\ n \in 1 .. 4 /\ n <= Len(File!rest) /\ \A k \in 1 .. n : File!fgets(4)[k] = File!rest[k]
      BY <1>8, <2>5
    <2>2. File!Pieces(m, n) \in Seq(Piece) /\ Len(File!Pieces(m, n)) = n /\ \A k \in 1 .. n : File!Pieces(m, n)[k] = <<m, k>>
      BY <2>1, PiecesAre
    <2> HIDE DEF n
    <2>4. \A k \in 1 .. n : File!rest[k] = <<m, k>>
      BY <2>1, <1>5, <1>6
    <2>3. \A k \in 1 .. n : File!fgets(4)[k] = File!Pieces(m, n)[k]
      BY <2>1, <2>2, <2>4
    <2> QED BY <2>1, <2>2, <2>3, SameSeq DEF n
  <1> QED BY <1>3, <1>9, <1>10

\* The file of each call.
LEMMA FileOfIs ==
    ASSUME fio_at \in 1 .. 8
    PROVE  File!FileOf(File!call) = IF fio_at \in {3, 4} THEN "csv" ELSE IF fio_at \in {5, 6} THEN "bin" ELSE "txt"
  <1>1. fio_at = 1 \/ fio_at = 2 \/ fio_at = 3 \/ fio_at = 4 \/ fio_at = 5 \/ fio_at = 6 \/ fio_at = 7 \/ fio_at = 8
    OBVIOUS
  <1> QED BY <1>1, CallIs DEF File!FileOf

\* fopen keeps the invariant, in each mode, and when it fails.
LEMMA OpenStep == ASSUME FileInv, File!fopen PROVE FileInv'
  <1>0. FPos /\ FFiles /\ FStream /\ FStored /\ FRows /\ FRecs /\ FLines /\ FText
    BY DEF FileInv
  <1>1. /\ fio_at \in 1 .. 8 /\ fio_status = "running"
        /\ File!call \in {"write_text", "write_csv", "write_binary", "append_text", "read_text", "read_csv", "read_binary"}
    <2>1. PICK c \in DOMAIN File!Written \cup {"read_text", "read_csv", "read_binary"} : File!calls(c)
      BY DEF File!fopen
    <2>2. c \in {"write_text", "write_csv", "write_binary", "append_text", "read_text", "read_csv", "read_binary"}
      BY <2>1 DEF File!Written
    <2>3. fio_at \in 1 .. 11 BY <1>0 DEF FPos
    <2> QED BY <2>1, <2>2, <2>3, WhichCall
  <1>2. /\ fio_f = File!Closed /\ fio_f.pos = 0 /\ fio_f.file = "none" /\ ~Open
        /\ UNCHANGED <<fio_at, fio_records, fio_count, fio_rows, fio_recs,
                       fio_sizes, fio_cut>>
    BY DEF File!fopen, File!Closed, Open
  <1>3. File!call' = File!call /\ fio_at' = fio_at BY <1>2 DEF File!call
  <1> DEFINE name == File!FileOf(File!call)
             reads == File!call \notin DOMAIN File!Written
  <1>4. reads <=> fio_at \in {2, 4, 6, 8}
    <2>1. fio_at = 1 \/ fio_at = 2 \/ fio_at = 3 \/ fio_at = 4 \/ fio_at = 5 \/ fio_at = 6 \/ fio_at = 7 \/ fio_at = 8
      BY <1>1
    <2> QED BY <2>1, CallIs DEF File!Written
  <1>5. CASE fio_status' = "exit(1)" /\ UNCHANGED <<fio_f, fio_files, fio_lines>>
    <2>1. FPos' BY <1>0, <1>1, <1>2, <1>5 DEF FPos
    <2>2. FFiles' /\ FStream' BY <1>0, <1>2, <1>5 DEF FFiles, FStream, Open
    <2>3. FStored' /\ FRows' /\ FRecs' BY <1>0, <1>2, <1>5 DEF FStored, PrefixOf,
                                                               FRows, RowsOk,
                                                               FRecs, Open
    <2>4. FLines' /\ FText'
      BY <1>0, <1>2, <1>5 DEF FLines, Listed, FText, Begins, Continues, Open
    <2> QED BY <2>1, <2>2, <2>3, <2>4 DEF FileInv
  <1>6. CASE /\ reads => name \in DOMAIN fio_files
             /\ fio_f' = [file |-> name, pos |-> 0]
             /\ fio_files' = IF reads \/ (File!call = "append_text" /\ name \in DOMAIN fio_files)
                             THEN fio_files ELSE File!With(name, <<>>)
             /\ fio_lines' = IF File!call = "read_text" THEN Append(fio_lines, <<>>) ELSE fio_lines
             /\ UNCHANGED fio_status
    <2>1. name = IF fio_at \in {3, 4} THEN "csv" ELSE IF fio_at \in {5, 6} THEN "bin" ELSE "txt"
      BY <1>1, FileOfIs
    <2> HIDE DEF name, reads
    <2>2. /\ name \in Names /\ fio_f'.file = name /\ fio_f'.pos = 0 /\ Open'
          /\ name = File!FileOf(File!call)'
          /\ fio_f' \in [file : Names \cup {"none"}, pos : Nat]
      BY <2>1, <1>3, <1>6 DEF Names, Open, name
    <2>3. /\ fio_files' = IF fio_at \in {1, 3, 5} THEN File!With(name, <<>>) ELSE fio_files
          /\ name \in DOMAIN fio_files'
          /\ fio_files' = [x \in DOMAIN fio_files' |-> fio_files'[x]]
          /\ DOMAIN fio_files' = DOMAIN fio_files \cup {name}
          /\ \A x \in DOMAIN fio_files : x # name => fio_files'[x] = fio_files[x]
          /\ fio_at \in {1, 3, 5} => fio_files'[name] = <<>>
      <3>1. fio_at = 7 => File!call = "append_text" /\ name \in DOMAIN fio_files
        BY <1>0, <1>1, <2>1, CallIs DEF FFiles
      <3>2. File!call = "append_text" => fio_at = 7
        <4>1. fio_at = 1 \/ fio_at = 2 \/ fio_at = 3 \/ fio_at = 4 \/ fio_at = 5 \/ fio_at = 6 \/ fio_at = 7 \/ fio_at = 8
          BY <1>1
        <4> QED BY <4>1, CallIs
      <3>3. fio_files' = IF fio_at \in {1, 3, 5} THEN File!With(name, <<>>) ELSE fio_files
        BY <1>1, <1>4, <1>6, <3>1, <3>2
      <3>4. fio_at \notin {1, 3, 5} => name \in DOMAIN fio_files
        BY <1>1, <1>4, <1>6, <3>1
      <3>5. CASE fio_at \in {1, 3, 5}
        BY <3>3, <3>5 DEF File!With
      <3>6. CASE fio_at \notin {1, 3, 5}
        BY <3>3, <3>4, <3>6, <1>0 DEF FFiles
      <3> QED BY <3>3, <3>5, <3>6
    <2>4. FPos' BY <1>0, <1>2, <1>6 DEF FPos
    <2>5. FFiles'
      <3>1. \A x \in DOMAIN fio_files' : fio_files'[x] \in Seq(Piece)
        <4>1. CASE fio_at \in {1, 3, 5}
          BY <1>0, <2>3, <4>1, EmptySeq DEF FFiles
        <4>2. CASE fio_at \notin {1, 3, 5}
          BY <1>0, <2>3, <4>2 DEF FFiles
        <4> QED BY <4>1, <4>2
      <3> QED BY <1>0, <1>1, <1>2, <2>2, <2>3, <3>1 DEF FFiles
    <2>6. FStream' BY <1>1, <1>2, <1>6, <2>2, <2>3 DEF FStream
    <2>7. FStored' BY <1>0, <1>1, <1>2, <2>1, <2>2, <2>3 DEF FStored, PrefixOf
    <2>8. FRows' /\ FRecs'
      BY <1>0, <1>1, <1>2, <2>2 DEF FRows, RowsOk, FRecs
    <2>9. FLines'
      <3>1. File!call = "read_text" <=> fio_at \in {2, 8}
        <4>1. fio_at = 1 \/ fio_at = 2 \/ fio_at = 3 \/ fio_at = 4 \/ fio_at = 5 \/ fio_at = 6 \/ fio_at = 7 \/ fio_at = 8
          BY <1>1
        <4> QED BY <4>1, CallIs
      <3>2. fio_at > 1 => fio_files'["txt"] = fio_files["txt"]
        BY <1>0, <1>1, <2>1, <2>3 DEF FFiles
      <3>3. CASE fio_at \in {2, 8}
        <4>1. /\ fio_lines' \in Seq(Seq(Piece)) /\ Len(fio_lines') = Len(fio_lines) + 1
              /\ \A i \in 1 .. Len(fio_lines) : fio_lines'[i] = fio_lines[i]
              /\ fio_lines'[Len(fio_lines) + 1] = <<>>
          <5>1. fio_lines' = Append(fio_lines, <<>>) BY <1>6, <3>1, <3>3
          <5>2. fio_lines \in Seq(Seq(Piece)) BY <1>0 DEF FLines
          <5>3. <<>> \in Seq(Piece) BY EmptySeq
          <5> QED BY <5>1, <5>2, <5>3, AppendProperties
        <4>2. Len(fio_lines) = IF fio_at = 2 THEN 0 ELSE 1
          BY <1>0, <1>2, <3>3 DEF FLines
        <4>6. fio_at = 8 => Listed(1, Len(fio_lines[1])) BY <1>0 DEF FLines
        <4>3. fio_at = 8 => Listed(1, Len(fio_lines[1]))'
          BY <3>2, <4>1, <4>2, <4>6 DEF Listed
        <4>4. fio_at = 8 => Listed(2, 0)'
          BY <1>0, <1>3, <2>5, <4>1, <4>2 DEF Listed, FFiles
        <4>5. fio_at = 2 => Listed(1, 0)'
          BY <1>0, <1>3, <2>5, <4>1, <4>2 DEF Listed, FFiles
        <4>7. CASE fio_at = 2
          BY <1>2, <2>2, <4>1, <4>2, <4>5, <4>7 DEF FLines
        <4>8. CASE fio_at = 8
          BY <1>2, <2>2, <4>1, <4>2, <4>3, <4>4, <4>8 DEF FLines
        <4> QED BY <3>3, <4>7, <4>8
      <3>4. CASE fio_at \notin {2, 8}
        <4>1. fio_lines' = fio_lines BY <1>6, <3>1, <3>4
        <4>2. fio_at > 1 => \A i, n : Listed(i, n) => Listed(i, n)'
          BY <3>2, <4>1 DEF Listed
        <4> QED BY <1>0, <1>1, <1>2, <2>2, <3>2, <3>4, <4>1, <4>2 DEF FLines
      <3> QED BY <3>3, <3>4
    <2>10. FText'
      <3>1. CASE fio_at = 1
        BY <3>1, <1>2, <2>1, <2>3 DEF FText
      <3>2. CASE fio_at # 1
        <4>1. fio_files'["txt"] = fio_files["txt"]
          BY <1>0, <1>1, <2>1, <2>3, <3>2 DEF FFiles
        <4>2. fio_at >= 8 => fio_lines'[1] = fio_lines[1]
          <5>1. fio_at >= 8 => fio_lines \in Seq(Seq(Piece)) /\ Len(fio_lines) = 1
            BY <1>0, <1>1, <1>2 DEF FLines
          <5>2. <<>> \in Seq(Piece) BY EmptySeq
          <5> QED BY <5>1, <5>2, <1>6, AppendProperties
        <4> QED BY <1>0, <1>1, <1>2, <3>2, <4>1, <4>2, TextKept
      <3> QED BY <3>1, <3>2
    <2> QED BY <2>4, <2>5, <2>6, <2>7, <2>8, <2>9, <2>10 DEF FileInv
  <1> QED BY <1>5, <1>6 DEF File!fopen, File!exit_failure

\* What each writing call writes.
LEMMA WrittenIs ==
    ASSUME fio_at \in {1, 3, 5, 7}
    PROVE  /\ File!Written[File!call] \in Seq(Piece)
           /\ fio_at = 3 => File!Written[File!call] = File!csv_rows
           /\ fio_at = 5 => File!Written[File!call] = File!bin_records
           /\ fio_at = 1 => File!Written[File!call] = File!text_lines
           /\ fio_at = 7 => File!Written[File!call] = File!appended_line
           /\ Len(File!text_lines) = 2 * LINES /\ Len(File!appended_line) = 2
  <1>0. ROWS + 1 \in Nat /\ LINES \in Nat /\ LINES + 1 \in Nat /\ 1 \in Nat
    BY FileNumbers
                                                                  DEF File!FileAssumption
  <1>1. /\ File!text_lines \in Seq(Piece) /\ File!csv_rows \in Seq(Piece)
        /\ File!bin_records \in Seq(Piece) /\ File!appended_line \in Seq(Piece)
    BY <1>0, ItemsLen DEF File!text_lines, File!csv_rows, File!bin_records,
                          File!appended_line
  <1>3. Len(File!text_lines) = 2 * LINES /\ Len(File!appended_line) = 2 * 1
    BY <1>0, ItemsLen DEF File!text_lines, File!appended_line
  <1>2. fio_at = 1 \/ fio_at = 3 \/ fio_at = 5 \/ fio_at = 7 OBVIOUS
  <1>4. Len(File!text_lines) = 2 * LINES /\ Len(File!appended_line) = 2
    BY <1>0, <1>3
  <1> QED BY <1>1, <1>2, <1>4, CallIs DEF File!Written

\* The fclose after writing, wherever the flush stops.
LEMMA WriteStep == ASSUME FileInv, File!write_out PROVE FileInv'
  <1>0. FPos /\ FFiles /\ FStream /\ FStored /\ FRows /\ FRecs /\ FLines /\ FText
    BY DEF FileInv
  <1>1. fio_at \in {1, 3, 5, 7} /\ fio_status = "running"
    <2>1. PICK c \in DOMAIN File!Written : File!calls(c)
      BY DEF File!write_out
    <2>2. c \in {"write_text", "write_csv", "write_binary", "append_text"}
      BY <2>1 DEF File!Written
    <2>3. fio_at \in 1 .. 11 BY <1>0 DEF FPos
    <2> QED BY <2>1, <2>2, <2>3, WhichCall
  <1> DEFINE text == File!Written[File!call]
  <1>2. /\ fio_f # File!Closed /\ fio_f' = File!Closed /\ fio_at' = fio_at + 1
        /\ UNCHANGED <<fio_records, fio_count, fio_lines, fio_rows, fio_recs,
                       fio_sizes, fio_status>>
    BY DEF File!write_out, File!returns
  <1>3. PICK k \in 0 .. Len(text) :
          /\ fio_files' = File!With(fio_f.file, fio_files[fio_f.file] \o SubSeq(text, 1, k))
          /\ fio_cut' = IF k < Len(text) THEN fio_cut \cup {fio_f.file} ELSE fio_cut
    BY DEF File!write_out
  <1>4. /\ Open /\ fio_f.file \in DOMAIN fio_files
        /\ fio_f.file = IF fio_at = 3 THEN "csv" ELSE IF fio_at = 5 THEN "bin" ELSE "txt"
    BY <1>0, <1>1, <1>2, FileOfIs DEF FStream
  <1>5. text \in Seq(Piece) /\ (fio_at = 3 => text = File!csv_rows) /\ (fio_at = 5 => text = File!bin_records)
    BY <1>1, WrittenIs
  <1> DEFINE s == fio_files[fio_f.file]
             w == SubSeq(text, 1, k)
  <1> HIDE DEF text
  <1>6. /\ w \in Seq(Piece) /\ Len(w) = k /\ k \in Nat /\ k <= Len(text)
        /\ \A j \in 1 .. k : w[j] = text[j]
    <2>1. Len(text) \in Nat BY <1>5, LenProperties
    <2>2. /\ w \in Seq(Piece) /\ Len(w) = IF 1 <= k THEN k - 1 + 1 ELSE 0
          /\ \A j \in 1 .. k - 1 + 1 : w[j] = text[1 + j - 1]
      BY <1>5, <2>1, SubSeqIs
    <2> QED BY <2>1, <2>2
  <1>7. s \in Seq(Piece) /\ Len(s) \in Nat
    BY <1>0, <1>4, LenProperties DEF FFiles
  <1> HIDE DEF s, w
  <1>8. /\ s \o w \in Seq(Piece) /\ Len(s \o w) = Len(s) + k
        /\ \A j \in 1 .. Len(s) + k : (s \o w)[j] = IF j <= Len(s) THEN s[j] ELSE w[j - Len(s)]
    BY <1>6, <1>7, ConcatProperties
  <1>9. /\ fio_files' = [x \in DOMAIN fio_files' |-> fio_files'[x]]
        /\ DOMAIN fio_files' = DOMAIN fio_files
        /\ \A x \in DOMAIN fio_files : x # fio_f.file => fio_files'[x] = fio_files[x]
        /\ fio_files'[fio_f.file] = s \o w
    BY <1>3, <1>4 DEF File!With, s, w
  <1>10. FPos' BY <1>0, <1>1, <1>2 DEF FPos
  <1>11. FFiles'
    <2>1. \A x \in DOMAIN fio_files' : fio_files'[x] \in Seq(Piece)
      BY <1>0, <1>8, <1>9 DEF FFiles
    <2> QED BY <1>0, <1>1, <1>2, <1>4, <1>9, <2>1 DEF FFiles
  <1>12. FStream' /\ ~Open' /\ fio_f'.pos = 0
    BY <1>2 DEF FStream, Open, File!Closed
  <1>13. fio_at \in {3, 5} =>
           /\ Len(fio_files'[fio_f.file]) = k /\ \A j \in 1 .. k : fio_files'[fio_f.file][j] = text[j]
           /\ k < Len(text) => fio_f.file \in fio_cut'
    <2> SUFFICES ASSUME fio_at \in {3, 5}
                 PROVE  /\ Len(fio_files'[fio_f.file]) = k /\ \A j \in 1 .. k : fio_files'[fio_f.file][j] = text[j]
                        /\ k < Len(text) => fio_f.file \in fio_cut'
      OBVIOUS
    <2>1. s = <<>> /\ Len(s) = 0
      BY <1>0, <1>4, EmptySeq DEF FStored, s
    <2>2. Len(s \o w) = k /\ \A j \in 1 .. k : (s \o w)[j] = text[j]
      BY <1>6, <1>8, <2>1
    <2> QED BY <1>3, <1>9, <2>2
  <1>14. FStored'
    <2>1. CASE fio_at = 3
      <3>1. PrefixOf("csv", File!csv_rows)'
        BY <2>1, <1>4, <1>5, <1>6, <1>13 DEF PrefixOf
      <3> QED BY <2>1, <3>1, <1>2, <1>12 DEF FStored
    <2>2. CASE fio_at = 5
      <3>1. PrefixOf("bin", File!bin_records)'
        BY <2>2, <1>4, <1>5, <1>6, <1>13 DEF PrefixOf
      <3>2. PrefixOf("csv", File!csv_rows)'
        BY <2>2, <1>0, <1>3, <1>4, <1>9 DEF PrefixOf, FStored
      <3> QED BY <2>2, <3>1, <3>2, <1>2, <1>12 DEF FStored
    <2>3. CASE fio_at = 1
      BY <2>3, <1>2, <1>12 DEF FStored
    <2>4. CASE fio_at = 7
      <3>1. PrefixOf("csv", File!csv_rows)'
        BY <2>4, <1>0, <1>3, <1>4, <1>9 DEF PrefixOf, FStored
      <3>2. PrefixOf("bin", File!bin_records)'
        BY <2>4, <1>0, <1>3, <1>4, <1>9 DEF PrefixOf, FStored
      <3> QED BY <2>4, <3>1, <3>2, <1>2, <1>12 DEF FStored
    <2> QED BY <1>1, <2>1, <2>2, <2>3, <2>4
  <1>15. FRows' /\ FRecs'
    BY <1>0, <1>1, <1>2, <1>3, <1>12 DEF FRows, RowsOk, FRecs
  <1>16. FLines'
    <2>1. fio_at \in {3, 5} => fio_files'["txt"] = fio_files["txt"]
      BY <1>0, <1>4, <1>9 DEF FFiles
    <2>2. CASE fio_at = 1
      BY <2>2, <1>0, <1>2, <1>12 DEF FLines
    <2>3. CASE fio_at \in {3, 5}
      <3>1. Listed(1, Len(fio_files["txt"])) /\ Len(fio_lines) = 1
        BY <2>3, <1>0 DEF FLines
      <3>2. Listed(1, Len(fio_files["txt"]))'
        BY <3>1, <2>1, <2>3, <1>2 DEF Listed
      <3> QED BY <2>3, <3>1, <3>2, <1>0, <1>2, <1>12 DEF FLines
    <2>4. CASE fio_at = 7
      <3>1. Listed(1, Len(fio_files["txt"])) /\ Len(fio_lines) = 1
        BY <2>4, <1>0 DEF FLines
      <3>2. s = fio_files["txt"] /\ fio_files'["txt"] = s \o w
        BY <2>4, <1>4, <1>9 DEF s
      <3>3. Listed(1, Len(fio_lines[1]))'
        BY <3>1, <3>2, <1>2, <1>6, <1>7, <1>8 DEF Listed
      <3> QED BY <2>4, <3>1, <3>3, <1>0, <1>2, <1>12 DEF FLines
    <2> QED BY <1>1, <2>2, <2>3, <2>4
  <1>17. FText'
    <2>0. /\ LINES \in Nat /\ Len(File!text_lines) = 2 * LINES
          /\ Len(File!appended_line) = 2
      BY <1>1, WrittenIs, FileNumbers DEF File!FileAssumption
    <2>1. CASE fio_at = 1
      <3>1. /\ s = <<>> /\ Len(s) = 0 /\ fio_files'["txt"] = s \o w
            /\ text = File!text_lines
        BY <2>1, <1>0, <1>1, <1>4, <1>9, WrittenIs, EmptySeq DEF FText, s, text
      <3>2. Len(s \o w) = k /\ \A j \in 1 .. k : (s \o w)[j] = text[j]
        BY <1>6, <1>8, <3>1
      <3>3. k < 2 * LINES => "txt" \in fio_cut'
        BY <1>3, <1>4, <2>0, <2>1, <3>1
      <3>4. Begins(fio_files["txt"])'
        BY <1>6, <2>0, <3>1, <3>2, <3>3 DEF Begins
      <3> QED BY <2>1, <3>4, <1>2 DEF FText
    <2>2. CASE fio_at \in {3, 5}
      <3>1. fio_files'["txt"] = fio_files["txt"]
        BY <2>2, <1>0, <1>4, <1>9 DEF FFiles
      <3>2. "txt" \in fio_cut => "txt" \in fio_cut'
        BY <1>3
      <3> QED BY <2>2, <3>1, <3>2, <1>0, <1>2, TextKept
    <2>3. CASE fio_at = 7
      <3>1. /\ s = fio_files["txt"] /\ fio_files'["txt"] = s \o w
            /\ text = File!appended_line
        BY <2>3, <1>1, <1>4, <1>9, WrittenIs DEF s, text
      <3>2. Begins(s)
        BY <2>3, <3>1, <1>0 DEF FText
      <3>3. Len(fio_lines'[1]) = Len(s)
        BY <2>3, <3>1, <1>0, <1>2 DEF FLines, Listed
      <3>4. /\ Len(s) < 2 * LINES => "txt" \in fio_cut'
            /\ k < 2 => "txt" \in fio_cut'
        <4>1. fio_f.file = "txt" /\ Len(text) = 2 /\ (Len(s) < 2 * LINES => "txt" \in fio_cut)
          BY <1>4, <2>0, <2>3, <3>1, <3>2 DEF Begins
        <4> QED BY <1>3, <4>1
      <3>5. \A j \in 1 .. Len(s) + k : (s \o w)[j] = IF j <= Len(s) THEN File!text_lines[j]
                                                     ELSE File!appended_line[j - Len(s)]
        <4> TAKE j \in 1 .. Len(s) + k
        <4>1. CASE j <= Len(s)
          BY <4>1, <1>6, <1>7, <1>8, <3>2 DEF Begins
        <4>2. CASE ~(j <= Len(s))
          <5>1. j - Len(s) \in 1 .. k
            BY <4>2, <1>6, <1>7
          <5> QED BY <4>2, <5>1, <1>6, <1>7, <1>8, <3>1
        <4> QED BY <4>1, <4>2
      <3>6. Len(s) <= 2 * LINES /\ k <= 2
        BY <1>6, <2>0, <3>1, <3>2 DEF Begins
      <3> DEFINE n == Len(s)
                 u == s \o w
      <3>7. /\ n \in Nat /\ Len(u) = n + k /\ k \in Nat /\ n <= 2 * LINES /\ k <= 2
            /\ n < 2 * LINES => "txt" \in fio_cut'
            /\ k < 2 => "txt" \in fio_cut'
            /\ \A j \in 1 .. n + k : u[j] = IF j <= n THEN File!text_lines[j] ELSE File!appended_line[j - n]
            /\ fio_files'["txt"] = u /\ Len(fio_lines'[1]) = n
        BY <1>6, <1>7, <1>8, <3>1, <3>3, <3>4, <3>5, <3>6
      <3> HIDE DEF n, u
      <3>8. Continues(fio_files["txt"], Len(fio_lines[1]))'
        BY <2>0, <3>7 DEF Continues
      <3> QED BY <2>3, <3>8, <1>2 DEF FText
    <2> QED BY <1>1, <2>1, <2>2, <2>3
  <1> QED BY <1>10, <1>11, <1>12, <1>14, <1>15, <1>16, <1>17 DEF FileInv

\* A turn of the loop of read_text, and its end.
LEMMA ReadTextStep == ASSUME FileInv, File!read_text PROVE FileInv'
  <1>0. FPos /\ FFiles /\ FStream /\ FStored /\ FRows /\ FRecs /\ FLines /\ FText
    BY DEF FileInv
  <1>1. /\ fio_at \in {2, 8} /\ fio_status = "running"
        /\ UNCHANGED <<fio_files, fio_records, fio_count, fio_rows, fio_recs,
                       fio_sizes, fio_cut, fio_status>>
    BY <1>0, WhichCall DEF File!read_text, FPos
  <1>2. /\ Open /\ fio_f.file = "txt" /\ "txt" \in DOMAIN fio_files
        /\ fio_f.pos \in Nat /\ fio_f \in [file : Names \cup {"none"}, pos : Nat]
    BY <1>0, <1>1, FileOfIs DEF FStream, File!read_text
  <1>3. /\ File!rest \in Seq(Piece) /\ Len(fio_files["txt"]) \in Nat
        /\ Len(File!rest) = IF fio_f.pos < Len(fio_files["txt"]) THEN Len(fio_files["txt"]) - fio_f.pos ELSE 0
        /\ \A k \in 1 .. Len(File!rest) : File!rest[k] = fio_files["txt"][fio_f.pos + k]
        /\ File!rest = <<>> <=> Len(File!rest) = 0
    BY <1>0, <1>2, RestIs
  <1> DEFINE i == IF fio_at = 2 THEN 1 ELSE 2
  <1>4. /\ fio_lines \in Seq(Seq(Piece)) /\ Len(fio_lines) = i /\ Listed(i, fio_f.pos)
        /\ i \in {1, 2} /\ DOMAIN fio_lines = 1 .. i
    <2>1. fio_lines \in Seq(Seq(Piece)) BY <1>0 DEF FLines
    <2>2. Len(fio_lines) = i /\ Listed(i, fio_f.pos)
      <3>1. CASE fio_at = 2 BY <3>1, <1>0, <1>2 DEF FLines
      <3>2. CASE fio_at = 8 BY <3>2, <1>0, <1>2 DEF FLines
      <3> QED BY <3>1, <3>2, <1>1
    <2> QED BY <2>1, <2>2, LenProperties
  <1>5. CASE File!rest # <<>>
    <2> DEFINE g == File!fgets(2)
    <2>1. g \in Seq(Piece) /\ Len(g) \in 1 .. Len(File!rest) /\ \A k \in 1 .. Len(g) : g[k] = File!rest[k]
      BY <1>3, <1>5, FgetsIs
    <2>2. /\ fio_lines' = [fio_lines EXCEPT ![i] = fio_lines[i] \o g]
          /\ fio_f' = [fio_f EXCEPT !.pos = @ + Len(g)] /\ fio_at' = fio_at
      BY <1>4, <1>5 DEF File!read_text, File!skip
    <2> HIDE DEF g
    <2>3. fio_lines[i] \in Seq(Piece) /\ Len(fio_lines[i]) = fio_f.pos
      BY <1>4 DEF Listed
    <2>4. /\ fio_lines[i] \o g \in Seq(Piece) /\ Len(fio_lines[i] \o g) = fio_f.pos + Len(g)
          /\ \A k \in 1 .. fio_f.pos + Len(g) : (fio_lines[i] \o g)[k] = IF k <= fio_f.pos THEN fio_lines[i][k] ELSE g[k - fio_f.pos]
      BY SMTT(30), <2>1, <2>3, ConcatProperties
    <2>5. /\ fio_f'.file = "txt" /\ fio_f'.pos = fio_f.pos + Len(g) /\ fio_f'.pos \in Nat /\ Open'
          /\ fio_f' \in [file : Names \cup {"none"}, pos : Nat] /\ fio_f'.pos <= Len(fio_files["txt"])
      <3>1. /\ Len(g) \in Nat /\ fio_f.pos + Len(g) \in Nat
            /\ fio_f.pos + Len(g) <= Len(fio_files["txt"])
        BY <1>2, <1>3, <2>1
      <3>2. fio_f'.file = "txt" /\ fio_f'.pos = fio_f.pos + Len(g) BY <1>2, <2>2
      <3>3. fio_f' \in [file : Names \cup {"none"}, pos : Nat] BY <1>2, <2>2, <3>1
                                                                  DEF Names
      <3> QED BY <3>1, <3>2, <3>3 DEF Open
    <2>6. /\ fio_lines' \in Seq(Seq(Piece)) /\ Len(fio_lines') = i
          /\ fio_lines'[i] = fio_lines[i] \o g /\ \A j \in 1 .. i : j # i => fio_lines'[j] = fio_lines[j]
      <3>1. fio_lines \in [1 .. i -> Seq(Piece)] BY <1>4
      <3>2. fio_lines' \in [1 .. i -> Seq(Piece)] BY <2>2, <2>4, <3>1
      <3>3. fio_lines' \in Seq(Seq(Piece)) BY <1>4, <3>2, SeqDef
      <3>4. Len(fio_lines') = i BY <1>4, <3>2, <3>3, LenProperties
      <3> QED BY <2>2, <3>1, <3>3, <3>4, <1>4
    <2>7. Listed(i, fio_f.pos)'
      <3>1. \A k \in 1 .. fio_f.pos + Len(g) : (fio_lines[i] \o g)[k] = fio_files["txt"][k]
        <4> SUFFICES ASSUME NEW k \in 1 .. fio_f.pos + Len(g) PROVE (fio_lines[i] \o g)[k] = fio_files["txt"][k]
          OBVIOUS
        <4>1. CASE k <= fio_f.pos BY <4>1, <2>4, <1>4, <1>2, <2>1 DEF Listed
        <4>2. CASE ~(k <= fio_f.pos)
          <5>1. k - fio_f.pos \in 1 .. Len(g) /\ k - fio_f.pos \in 1 .. Len(File!rest) BY <4>2, <1>2, <2>1
          <5>2. (fio_lines[i] \o g)[k] = g[k - fio_f.pos] BY <2>4, <4>2, <1>2, <2>1
          <5>3. g[k - fio_f.pos] = fio_files["txt"][fio_f.pos + (k - fio_f.pos)] BY <5>1, <2>1, <1>3
          <5>4. fio_f.pos + (k - fio_f.pos) = k BY <1>2, <2>1
          <5> QED BY <5>2, <5>3, <5>4
        <4> QED BY <4>1, <4>2
      <3> QED BY <3>1, <2>4, <2>5, <2>6, <2>2, <1>1, <1>4 DEF Listed
    <2>8. fio_at = 8 => Listed(1, Len(fio_lines[1]))'
      <3>1. fio_at = 8 => Listed(1, Len(fio_lines[1])) /\ fio_lines'[1] = fio_lines[1]
        BY <1>0, <2>6 DEF FLines
      <3> QED BY <3>1, <1>1 DEF Listed
    <2>9. FLines'
      <3>1. CASE fio_at = 2 BY <3>1, <2>2, <2>5, <2>6, <2>7 DEF FLines
      <3>2. CASE fio_at = 8 BY <3>2, <2>2, <2>5, <2>6, <2>7, <2>8 DEF FLines
      <3> QED BY <3>1, <3>2, <1>1
    <2>10. FPos' /\ FFiles' BY <1>0, <1>1, <2>2 DEF FPos, FFiles
    <2>11. FStream'
      BY <1>0, <1>1, <1>2, <2>2, <2>5 DEF FStream, File!call
    <2>12. FStored' /\ FRows' /\ FRecs'
      BY <1>0, <1>1, <2>2 DEF FStored, PrefixOf, FRows, RowsOk, FRecs
    <2>13. FText'
      <3>1. fio_at >= 8 => fio_lines'[1] = fio_lines[1]
        BY <1>1, <1>4, <2>6
      <3> QED BY <3>1, <1>0, <1>1, <2>2, TextKept
    <2> QED BY <2>9, <2>10, <2>11, <2>12, <2>13 DEF FileInv
  <1>6. CASE File!rest = <<>>
    <2>1. fio_f' = File!Closed /\ fio_at' = fio_at + 1 /\ fio_lines' = fio_lines
      BY <1>6 DEF File!read_text, File!fclose, File!returns
    <2>2. ~Open' /\ fio_f'.pos = 0 /\ FStream'
      BY <2>1 DEF Open, File!Closed, FStream, Names
    <2>3. fio_f.pos = Len(fio_files["txt"])
      BY <1>2, <1>3, <1>4, <1>6 DEF Listed
    <2>4. FPos' /\ FFiles' BY <1>0, <1>1, <2>1 DEF FPos, FFiles
    <2>5. FStored' /\ FRows' /\ FRecs'
      <3>2. FStored'
        BY <1>0, <1>1, <2>1, <2>2 DEF FStored, PrefixOf
      <3>3. FRows'
        BY <1>0, <1>1, <2>1, <2>2 DEF FRows, RowsOk
      <3>4. FRecs'
        BY <1>0, <1>1, <2>1, <2>2 DEF FRecs
      <3> QED BY <3>2, <3>3, <3>4
    <2>6. FLines'
      <3>1. \A j, n : Listed(j, n) => Listed(j, n)'
        BY <1>1, <2>1 DEF Listed
      <3>2. fio_files' = fio_files /\ Listed(i, Len(fio_files["txt"])) BY <1>1,
                                                                          <1>4, <2>3
      <3>3. fio_at = 8 => Listed(1, Len(fio_lines[1]))'
        BY <1>0, <2>1, <3>1 DEF FLines
      <3>4. CASE fio_at = 2
        <4>1. Listed(1, Len(fio_files["txt"]))' BY <3>1, <3>2, <3>4 DEF Listed
        <4> QED BY <3>4, <4>1, <1>4, <2>1, <2>2 DEF FLines
      <3>5. CASE fio_at = 8
        <4>2. Listed(2, Len(fio_files["txt"])) BY <3>2, <3>5
        <4>1. Listed(2, Len(fio_files["txt"]))' BY <1>1, <2>1, <4>2 DEF Listed
        <4> QED BY <3>5, <4>1, <3>3, <1>4, <2>1, <2>2 DEF FLines
      <3> QED BY <3>4, <3>5, <1>1
    <2>7. FText'
      BY <1>0, <1>1, <2>1, TextKept
    <2> QED BY <2>2, <2>4, <2>5, <2>6, <2>7 DEF FileInv
  <1> QED BY <1>5, <1>6

\* The header, a row, and the end of the loop of read_csv.
LEMMA ReadCsvStep == ASSUME FileInv, File!read_csv PROVE FileInv'
  <1>0. FPos /\ FFiles /\ FStream /\ FStored /\ FRows /\ FRecs /\ FLines /\ FText
    BY DEF FileInv
  <1>1. /\ fio_at = 4 /\ fio_status = "running"
        /\ UNCHANGED <<fio_files, fio_records, fio_count, fio_lines, fio_recs,
                       fio_sizes, fio_cut, fio_status>>
    BY <1>0, WhichCall DEF File!read_csv, FPos
  <1>2. /\ Open /\ fio_f.file = "csv" /\ "csv" \in DOMAIN fio_files
        /\ fio_f.pos \in Nat /\ fio_f \in [file : Names \cup {"none"}, pos : Nat]
    BY <1>0, <1>1, FileOfIs DEF FStream, File!read_csv
  <1>3. /\ File!rest \in Seq(Piece) /\ Len(fio_files["csv"]) \in Nat
        /\ Len(File!rest) = IF fio_f.pos < Len(fio_files["csv"]) THEN Len(fio_files["csv"]) - fio_f.pos ELSE 0
        /\ File!rest = <<>> <=> Len(File!rest) = 0
    BY <1>0, <1>2, RestIs
  <1>4. ROWS \in Nat /\ Len(File!csv_rows) = 4 * (ROWS + 1)
    <2>1. ROWS \in Nat /\ ROWS + 1 \in Nat BY FileNumbers DEF File!FileAssumption
    <2> QED BY <2>1, ItemsLen DEF File!csv_rows
  <1>5. Len(fio_files["csv"]) < 4 * (ROWS + 1) => "csv" \in fio_cut
    BY <1>0, <1>1, <1>2, <1>4 DEF FStored, PrefixOf
  <1>6. fio_rows \in Seq(Seq(Piece)) /\ Len(fio_rows) \in Nat
    BY <1>0 DEF FRows
  <1>7. FFiles' /\ FPos' /\ FStream' /\ FLines' /\ FStored' /\ FRecs'
    <2>1. CASE fio_f' = File!Closed /\ fio_at' = fio_at + 1
      <3>1. ~Open' /\ fio_f'.pos = 0 /\ fio_f'.file = "none" BY <2>1
                                                                DEF Open,
                                                                    File!Closed
      <3>6. FFiles' BY <2>1, <1>0, <1>1 DEF FFiles
      <3>7. FPos' BY <2>1, <1>0, <1>1 DEF FPos
      <3>8. FStream' BY <2>1, <3>1 DEF FStream, File!Closed
      <3>2. FFiles' /\ FPos' /\ FStream' BY <3>6, <3>7, <3>8
      <3>3. FStored' /\ FRecs' BY <2>1, <3>1, <1>0, <1>1 DEF FStored, PrefixOf,
                                                             FRecs
      <3>4. Listed(1, Len(fio_files["txt"])) /\ Len(fio_lines) = 1 /\ fio_lines \in Seq(Seq(Piece)) BY <1>0, <1>1
                                                                                                       DEF FLines
      <3>5. Listed(1, Len(fio_files["txt"]))' BY <3>4, <1>1 DEF Listed
      <3> QED BY <3>1, <3>2, <3>3, <3>4, <3>5, <2>1, <1>1 DEF FLines
    <2>2. CASE fio_f' = [fio_f EXCEPT !.pos = IF File!rest = <<>> THEN 1 ELSE @ + Len(File!fgets(4))] /\ fio_at' = fio_at
      <3>1. File!rest # <<>> => Len(File!fgets(4)) \in Nat
        BY <1>3, FgetsIs
      <3>2. /\ fio_f'.file = "csv" /\ fio_f'.pos \in Nat /\ Open'
            /\ fio_f' \in [file : Names \cup {"none"}, pos : Nat]
        BY <2>2, <3>1, <1>2 DEF Open, Names
      <3>3. FFiles' /\ FPos' /\ FStream' BY <2>2, <3>2, <1>0, <1>1, <1>2
                                            DEF FFiles, FPos, FStream, File!call
      <3>4. FStored' /\ FRecs' BY <2>2, <1>0, <1>1 DEF FStored, PrefixOf, FRecs
      <3>5. Listed(1, Len(fio_files["txt"])) /\ Len(fio_lines) = 1 /\ fio_lines \in Seq(Seq(Piece)) BY <1>0, <1>1
                                                                                                       DEF FLines
      <3>6. Listed(1, Len(fio_files["txt"]))' BY <3>5, <1>1 DEF Listed
      <3> QED BY <3>3, <3>4, <3>5, <3>6, <2>2, <1>1 DEF FLines
    <2> QED BY <2>1, <2>2 DEF File!read_csv, File!fclose, File!returns
  <1>8. FRows'
    <2>1. CASE File!rest = <<>> /\ fio_f.pos # 0
      <3>1. fio_f' = File!Closed /\ fio_at' = 5 /\ fio_rows' = fio_rows BY <2>1,
                                                                           <1>1
                                                                           DEF File!read_csv, File!fclose, File!returns
      <3>2. fio_f.pos > 0 /\ fio_f.pos >= Len(fio_files["csv"]) BY <2>1, <1>2, <1>3
      <3>3. RowsOk /\ ("csv" \in fio_cut \/ Len(fio_rows) = ROWS)
        <4>1. CASE /\ \A i \in 1 .. Len(fio_rows) : fio_rows[i] = File!Pieces(i, 4)
                   /\ fio_f.pos = 4 * (Len(fio_rows) + 1) /\ fio_f.pos <= Len(fio_files["csv"])
          <5>1. "csv" \notin fio_cut => Len(fio_rows) = ROWS
            <6>1. Len(fio_files["csv"]) <= 4 * (ROWS + 1) BY <1>0, <1>1, <1>2, <1>4
                                                             DEF FStored, PrefixOf
            <6> QED BY <6>1, <4>1, <3>2, <1>3, <1>4, <1>5, <1>6
          <5> QED BY <4>1, <5>1 DEF RowsOk
        <4>2. CASE RowsOk /\ "csv" \in fio_cut BY <4>2
        <4> QED BY <4>1, <4>2, <3>2, <1>0, <1>1 DEF FRows
      <3> QED BY <3>1, <3>3, <1>1, <1>6 DEF FRows, RowsOk
    <2>2. CASE fio_f.pos = 0
      <3>1. fio_rows = <<>> /\ fio_rows' = <<>> /\ fio_at' = 4
        BY <2>2, <1>0, <1>1 DEF FRows, File!read_csv
      <3>2. fio_f'.pos = IF File!rest = <<>> THEN 1 ELSE Len(File!fgets(4))
        BY <2>2, <1>2 DEF File!read_csv
      <3>3. Len(fio_rows') = 0 /\ fio_rows' \in Seq(Seq(Piece)) BY <3>1, EmptySeq
      <3>4. CASE File!rest = <<>>
        <4>1. Len(fio_files["csv"]) = 0 BY <3>4, <2>2, <1>3
        <4>2. "csv" \in fio_cut BY <4>1, <1>4, <1>5
        <4>3. fio_f'.pos = 1 BY <3>2, <3>4
        <4> QED BY <3>1, <3>3, <4>1, <4>2, <4>3, <1>1 DEF FRows, RowsOk
      <3>5. CASE File!rest # <<>>
        <4>1. Len(File!fgets(4)) = (IF Len(File!rest) >= 4 THEN 4 ELSE Len(File!rest)) /\ Len(fio_files["csv"]) <= 4 * (ROWS + 1)
          <5>1. 0 \in Nat /\ fio_f.pos = 4 * 0 BY <2>2
          <5> QED BY <5>1, <3>5, <1>0, <1>1, <1>2, RowIs
        <4>2. Len(File!rest) = Len(fio_files["csv"]) /\ Len(File!rest) # 0 BY <2>2,
                                                                              <3>5,
                                                                              <1>3
        <4>3. fio_f'.pos = Len(File!fgets(4)) BY <3>2, <3>5
        <4>4. CASE Len(File!rest) >= 4
          <5>1. fio_f'.pos = 4 /\ fio_f'.pos <= Len(fio_files'["csv"]) BY <4>1,
                                                                          <4>2,
                                                                          <4>3,
                                                                          <4>4, <1>1
          <5> QED BY <5>1, <3>1, <3>3, <1>1 DEF FRows
        <4>5. CASE ~(Len(File!rest) >= 4)
          <5>1. /\ fio_f'.pos = Len(fio_files'["csv"]) /\ fio_f'.pos > 0
                /\ "csv" \in fio_cut'
            BY <4>1, <4>2, <4>3, <4>5, <1>1, <1>3, <1>4, <1>5
          <5> QED BY <5>1, <3>1, <3>3, <1>1, <1>3 DEF FRows, RowsOk
        <4> QED BY <4>4, <4>5
      <3> QED BY <3>4, <3>5
    <2>3. CASE File!rest # <<>> /\ fio_f.pos # 0
      <3> DEFINE m == Len(fio_rows) + 1
      <3>1. /\ fio_f.pos < Len(fio_files["csv"])
            /\ Len(File!rest) = Len(fio_files["csv"]) - fio_f.pos /\ fio_f.pos > 0
        BY <2>3, <1>2, <1>3
      <3>2. /\ \A i \in 1 .. Len(fio_rows) : fio_rows[i] = File!Pieces(i, 4)
            /\ fio_f.pos = 4 * m
        BY <3>1, <1>0, <1>1, <1>2, <1>3 DEF FRows
      <3>3. m \in Nat BY <1>6
      <3> HIDE DEF m
      <3>4. /\ Len(File!fgets(4)) = IF Len(File!rest) >= 4 THEN 4 ELSE Len(File!rest)
            /\ File!fgets(4) = File!Pieces(m, Len(File!fgets(4)))
            /\ Len(fio_files["csv"]) <= 4 * (ROWS + 1)
        BY <2>3, <3>2, <3>3, <1>0, <1>1, <1>2, RowIs
      <3>5. File!fgets(4) \in Seq(Piece) BY <2>3, <1>3, FgetsIs
      <3>6. /\ fio_rows' = IF Len(File!fgets(4)) >= 3 THEN Append(fio_rows, File!fgets(4)) ELSE fio_rows
            /\ fio_f'.pos = fio_f.pos + Len(File!fgets(4)) /\ fio_at' = 4
        BY <2>3, <3>1, <1>1, <1>2 DEF File!read_csv, File!parses
      <3>7. /\ Append(fio_rows, File!fgets(4)) \in Seq(Seq(Piece))
            /\ Len(Append(fio_rows, File!fgets(4))) = m
            /\ \A i \in 1 .. Len(fio_rows) : Append(fio_rows, File!fgets(4))[i] = fio_rows[i]
            /\ Append(fio_rows, File!fgets(4))[m] = File!fgets(4)
        BY <1>6, <3>5, AppendProperties DEF m
      <3>8. CASE Len(File!rest) >= 4
        <4>1. Len(File!fgets(4)) = 4 BY <3>4, <3>8
        <4>5. File!fgets(4) = File!Pieces(m, 4) BY <3>4, <4>1, Zenon
        <4>7. 4 >= 3 OBVIOUS
        <4>8. Len(File!fgets(4)) >= 3 BY <4>1, <4>7, Zenon
        <4>6. fio_rows' = Append(fio_rows, File!fgets(4)) BY <3>6, <4>8, Zenon
        <4>2. fio_rows' = Append(fio_rows, File!fgets(4)) /\ File!fgets(4) = File!Pieces(m, 4) BY <4>5, <4>6
        <4>3. \A i \in 1 .. Len(fio_rows') : fio_rows'[i] = File!Pieces(i, 4)
          BY <3>2, <3>7, <4>2, <1>6 DEF m
        <4>4. /\ fio_f'.pos = 4 * (Len(fio_rows') + 1)
              /\ fio_f'.pos <= Len(fio_files["csv"]) /\ fio_f'.pos > 0
          <5>1. fio_f'.pos = 4 * m + 4 /\ Len(fio_rows') = m BY <3>2, <3>6, <3>7,
                                                                <4>1, <4>6
          <5>2. 4 * m + 4 <= Len(fio_files["csv"]) BY <3>1, <3>2, <3>3, <3>8, <1>3
          <5> QED BY <5>1, <5>2, <3>3
        <4> QED BY <3>6, <3>7, <4>2, <4>3, <4>4, <1>1 DEF FRows
      <3>9. CASE ~(Len(File!rest) >= 4)
        <4>1. Len(File!fgets(4)) = Len(File!rest) BY <3>4, <3>9
        <4>2. /\ "csv" \in fio_cut /\ fio_f'.pos = Len(fio_files["csv"])
              /\ fio_f'.pos > 0
          <5>1. fio_f'.pos = Len(fio_files["csv"]) BY <3>1, <3>6, <4>1, <1>2, <1>3
          <5>2. Len(fio_files["csv"]) < 4 * m + 4 /\ 4 * m < Len(fio_files["csv"]) BY <3>1, <3>2, <3>3, <3>9, <1>3
          <5>3. Len(fio_files["csv"]) # 4 * (ROWS + 1) BY <5>2, <3>3, <1>3, <1>4
          <5>4. Len(fio_files["csv"]) < 4 * (ROWS + 1) BY <5>3, <3>4, <1>3, <1>4
          <5> QED BY <5>1, <5>4, <3>1, <1>2, <1>5
        <4>3. RowsOk'
          <5>1. CASE Len(File!rest) >= 3
            <6>1. Len(File!rest) = 3 BY <5>1, <3>9, <1>3
            <6>3. Len(File!fgets(4)) = 3 BY <6>1, <4>1
            <6>4. File!fgets(4) = File!Pieces(m, 3) BY <6>3, <3>4, Zenon
            <6>6. Len(File!fgets(4)) >= 3 BY <6>3
            <6>5. fio_rows' = Append(fio_rows, File!fgets(4)) BY <6>6, <3>6, Zenon
            <6>2. fio_rows' = Append(fio_rows, File!fgets(4)) /\ File!fgets(4) = File!Pieces(m, 3) BY <6>4, <6>5
            <6> QED BY <6>2, <3>2, <3>7, <4>2, <1>1, <1>6 DEF RowsOk, m
          <5>2. CASE ~(Len(File!rest) >= 3)
            <6>1. fio_rows' = fio_rows BY <5>2, <3>6, <4>1
            <6> QED BY <6>1, <3>2 DEF RowsOk
          <5> QED BY <5>1, <5>2
        <4>4. fio_rows' \in Seq(Seq(Piece)) BY <3>6, <3>7, <1>6
        <4> QED BY <3>6, <4>2, <4>3, <4>4, <1>1, <1>3 DEF FRows
      <3> QED BY <3>8, <3>9
    <2> QED BY <2>1, <2>2, <2>3
  <1>9. FText'
    <2>1. fio_at' \in {4, 5}
      BY <1>1 DEF File!read_csv, File!fclose, File!returns
    <2> QED BY <2>1, <1>0, <1>1, TextKept
  <1> QED BY <1>7, <1>8, <1>9 DEF FileInv

\* Between the two listings the text file is not touched.
LEMMA QuietLines ==
    ASSUME FLines, fio_at \in 3 .. 6, fio_at' \in 3 .. 7, UNCHANGED <<fio_files,
                                                                      fio_lines>>
    PROVE  FLines'
  <1>1. Listed(1, Len(fio_files["txt"])) /\ Len(fio_lines) = 1 /\ fio_lines \in Seq(Seq(Piece)) BY DEF FLines
  <1>2. Listed(1, Len(fio_files["txt"]))' BY <1>1 DEF Listed
  <1> QED BY <1>1, <1>2 DEF FLines

\* fread of the count, from a whole, a half or an empty count.
LEMMA CountStep == ASSUME FileInv, File!read_count PROVE FileInv'
  <1>0. FPos /\ FFiles /\ FStream /\ FStored /\ FRows /\ FRecs /\ FLines /\ FText
    BY DEF FileInv
  <1>1. /\ fio_at = 6
        /\ UNCHANGED <<fio_at, fio_files, fio_records, fio_lines, fio_rows,
                       fio_recs, fio_sizes, fio_cut, fio_status>>
        /\ fio_f.pos = 0
    BY <1>0, WhichCall DEF File!read_count, FPos
  <1>2. /\ Open /\ fio_f.file = "bin" /\ "bin" \in DOMAIN fio_files
        /\ fio_f \in [file : Names \cup {"none"}, pos : Nat]
    BY <1>0, <1>1, FileOfIs DEF FStream, File!read_count
  <1>3. /\ fio_f' = [fio_f EXCEPT !.pos = 2] /\ fio_f'.pos = 2
        /\ fio_f'.file = "bin" /\ Open'
        /\ fio_f' \in [file : Names \cup {"none"}, pos : Nat]
    BY <1>2 DEF File!read_count, Open, Names
  <1>4. Len(File!rest) = Len(fio_files["bin"]) /\ Len(fio_files["bin"]) \in Nat
    BY <1>0, <1>1, <1>2, RestIs
  <1>5. fio_count' \in {0, ROWS} /\ (Len(fio_files["bin"]) >= 2 => fio_count' = ROWS)
    BY <1>4 DEF File!read_count
  <1>6. FPos' /\ FFiles' BY <1>0, <1>1 DEF FPos, FFiles
  <1>7. FStream' BY <1>0, <1>1, <1>2, <1>3 DEF FStream, File!call
  <1>8. FStored' /\ FRows' BY <1>0, <1>1 DEF FStored, PrefixOf, FRows, RowsOk
  <1>9. FRecs' BY <1>0, <1>1, <1>3, <1>5 DEF FRecs
  <1>10. FLines' /\ FText' BY <1>0, <1>1, QuietLines, TextKept
  <1> QED BY <1>6, <1>7, <1>8, <1>9, <1>10 DEF FileInv

\* malloc of the records, and its failure.
LEMMA AllocStep == ASSUME FileInv, File!alloc_records PROVE FileInv'
  <1>0. FPos /\ FFiles /\ FStream /\ FStored /\ FRows /\ FRecs /\ FLines /\ FText
    BY DEF FileInv
  <1>1. /\ fio_at = 6 /\ fio_status = "running"
        /\ UNCHANGED <<fio_at, fio_files, fio_count, fio_lines, fio_rows, fio_recs,
                       fio_sizes, fio_cut>>
        /\ fio_f.pos = 2 /\ fio_records = -1
    BY <1>0, WhichCall DEF File!alloc_records, FPos
  <1>2. FFiles' BY <1>0, <1>1 DEF FFiles
  <1>3. FStored' /\ FRows' BY <1>0, <1>1 DEF FStored, PrefixOf, FRows, RowsOk
  <1>4. FLines' /\ FText' BY <1>0, <1>1, QuietLines, TextKept
  <1>5. CASE fio_records' = fio_count /\ UNCHANGED <<fio_f, fio_status>>
    <2>1. FPos' /\ FStream' BY <1>0, <1>1, <1>5 DEF FPos, FStream, File!call, Open
    <2>2. FRecs' BY <1>0, <1>1, <1>5 DEF FRecs
    <2> QED BY <1>2, <1>3, <1>4, <2>1, <2>2 DEF FileInv
  <1>6. CASE fio_f' = File!Closed /\ fio_status' = "exit(1)" /\ UNCHANGED fio_records
    <2>1. fio_f'.pos = 0 /\ fio_f'.file = "none" /\ ~Open' BY <1>6
                                                              DEF File!Closed, Open
    <2>2. FPos' BY <1>0, <1>1, <1>6 DEF FPos
    <2>3. FStream' BY <1>6, <2>1 DEF FStream, File!Closed
    <2>4. FRecs' BY <1>0, <1>1, <1>6, <2>1 DEF FRecs
    <2> QED BY <1>2, <1>3, <1>4, <2>2, <2>3, <2>4 DEF FileInv
  <1> QED BY <1>5, <1>6 DEF File!alloc_records, File!exit_failure

\* fread of the records: those it counts are whole.
LEMMA RecordsStep == ASSUME FileInv, File!read_records PROVE FileInv'
  <1>0. FPos /\ FFiles /\ FStream /\ FStored /\ FRows /\ FRecs /\ FLines /\ FText
    BY DEF FileInv
  <1>1. /\ fio_at = 6 /\ fio_at' = 7 /\ fio_f' = File!Closed /\ fio_records >= 0
        /\ fio_records' = -1
        /\ UNCHANGED <<fio_files, fio_count, fio_lines, fio_rows, fio_sizes,
                       fio_cut, fio_status>>
    BY <1>0, WhichCall DEF File!read_records, FPos, File!fclose, File!returns
  <1>2. fio_f.pos = 2 /\ fio_count \in {0, ROWS} /\ (Len(fio_files["bin"]) >= 2 => fio_count = ROWS)
    <2>1. fio_records # -1 BY <1>1
    <2> QED BY <2>1, <1>0, <1>1 DEF FRecs
  <1>3. Open /\ fio_f.file = "bin" /\ "bin" \in DOMAIN fio_files
    BY <1>0, <1>1, <1>2, FileOfIs DEF FStream, File!Closed
  <1>4. ROWS \in Nat /\ Len(File!bin_records) = 2 * (ROWS + 1)
        /\ \A j \in 1 .. 2 * (ROWS + 1) : File!bin_records[j] = <<(j - 1) \div 2, 1 + ((j - 1) % 2)>>
    <2> DEFINE n == ROWS + 1
    <2>1. ROWS \in Nat /\ n \in Nat /\ File!bin_records = File!Items(0, n, 2) BY FileNumbers
                                                                                 DEF File!FileAssumption, File!bin_records
    <2> HIDE DEF n
    <2>2. /\ Len(File!bin_records) = 2 * n
          /\ \A j \in 1 .. 2 * n : File!bin_records[j] = <<0 + ((j - 1) \div 2), 1 + ((j - 1) % 2)>>
      BY <2>1, ItemsLen
    <2>3. \A j \in 1 .. 2 * n : File!bin_records[j] = <<(j - 1) \div 2, 1 + ((j - 1) % 2)>>
      <3> TAKE j \in 1 .. 2 * n
      <3>1. File!bin_records[j] = <<0 + ((j - 1) \div 2), 1 + ((j - 1) % 2)>> BY <2>2
      <3>2. 0 + ((j - 1) \div 2) = (j - 1) \div 2 BY <2>1
      <3> QED BY <3>1, <3>2
    <2> QED BY <2>1, <2>2, <2>3 DEF n
  <1> DEFINE len == Len(fio_files["bin"])
  <1>5. /\ len \in Nat /\ len <= 2 * (ROWS + 1)
        /\ \A k \in 1 .. len : fio_files["bin"][k] = File!bin_records[k]
        /\ len < 2 * (ROWS + 1) => "bin" \in fio_cut
    BY <1>0, <1>1, <1>3, <1>4 DEF FStored, PrefixOf, FFiles
  <1>6. /\ File!rest \in Seq(Piece) /\ Len(File!rest) = IF 2 < len THEN len - 2 ELSE 0
        /\ \A k \in 1 .. Len(File!rest) : File!rest[k] = fio_files["bin"][2 + k]
    BY <1>0, <1>2, <1>3, RestIs
  <1> HIDE DEF len
  <1>7. /\ File!got \in Nat /\ 2 * File!got <= Len(File!rest) /\ File!got <= fio_count
        /\ len = 2 * (ROWS + 1) => File!got = ROWS
    <2>1. Len(File!rest) \in Nat /\ fio_count \in Nat BY <1>2, <1>4, <1>5, <1>6
    <2>2. Len(File!rest) \div 2 \in Nat /\ 2 * (Len(File!rest) \div 2) <= Len(File!rest) BY <2>1
    <2>3. {fio_count, Len(File!rest) \div 2} \in SUBSET Nat /\ {fio_count, Len(File!rest) \div 2} # {} BY <2>1, <2>2
    <2>4. /\ File!got \in {fio_count, Len(File!rest) \div 2}
          /\ File!got <= fio_count /\ File!got <= Len(File!rest) \div 2
      BY <2>3, Smallest DEF File!got
    <2>5. ASSUME len = 2 * (ROWS + 1) PROVE fio_count = ROWS /\ Len(File!rest) = 2 * ROWS
      <3>1. len >= 2 /\ (2 < len <=> ROWS > 0) /\ len - 2 = 2 * ROWS BY <2>5, <1>4
      <3>2. fio_count = ROWS BY <3>1, <1>2 DEF len
      <3>3. Len(File!rest) = IF 2 < len THEN len - 2 ELSE 0 BY <1>6
      <3>4. Len(File!rest) = 2 * ROWS BY <3>1, <3>3, <1>4
      <3> QED BY <3>2, <3>4
    <2>6. ROWS \in Nat => (2 * ROWS) \div 2 = ROWS OBVIOUS
    <2> QED BY <1>4, <2>1, <2>2, <2>4, <2>5, <2>6
  <1>8. ASSUME NEW i \in 1 .. File!got PROVE SubSeq(File!rest, 2 * i - 1, 2 * i) = File!Pieces(i, 2)
    <2>1. /\ i \in Nat \ {0} /\ 2 * i <= Len(File!rest) /\ 2 * i - 1 \in Nat \ {0}
          /\ 2 * i \in Nat /\ Len(File!rest) \in Nat
      BY <1>5, <1>6, <1>7
    <2>2. /\ SubSeq(File!rest, 2 * i - 1, 2 * i) \in Seq(Piece)
          /\ Len(SubSeq(File!rest, 2 * i - 1, 2 * i)) = IF 2 * i - 1 <= 2 * i THEN 2 * i - (2 * i - 1) + 1 ELSE 0
          /\ \A k \in 1 .. 2 * i - (2 * i - 1) + 1 : SubSeq(File!rest, 2 * i - 1, 2 * i)[k] = File!rest[(2 * i - 1) + k - 1]
      BY <2>1, <1>6, SubSeqIs
    <2>3. Len(SubSeq(File!rest, 2 * i - 1, 2 * i)) = 2 BY <2>1, <2>2
    <2>4. ASSUME NEW k \in 1 .. 2 PROVE SubSeq(File!rest, 2 * i - 1, 2 * i)[k] = <<i, k>>
      <3> DEFINE j == 2 * i - 2 + k
      <3>1. j \in 1 .. Len(File!rest) /\ j + 2 \in 1 .. len BY <2>1, <1>5, <1>6
      <3>2. SubSeq(File!rest, 2 * i - 1, 2 * i)[k] = File!rest[j] BY <2>1, <2>2
      <3>3. File!rest[j] = fio_files["bin"][2 + j] BY <3>1, <1>6
      <3>4. 2 + j \in 1 .. 2 * (ROWS + 1) /\ fio_files["bin"][2 + j] = File!bin_records[2 + j] BY <3>1, <1>4, <1>5
      <3>5. File!bin_records[2 + j] = <<(2 + j - 1) \div 2, 1 + ((2 + j - 1) % 2)>>
        <4> DEFINE q == 2 + j
        <4>1. q \in 1 .. 2 * (ROWS + 1) BY <3>4
        <4> HIDE DEF q
        <4>2. File!bin_records[q] = <<(q - 1) \div 2, 1 + ((q - 1) % 2)>> BY <4>1,
                                                                             <1>4
        <4> QED BY <4>2 DEF q
      <3>6. (2 + j - 1) \div 2 = i /\ 1 + ((2 + j - 1) % 2) = k BY <2>1
      <3> QED BY <3>2, <3>3, <3>4, <3>5, <3>6
    <2>5. File!Pieces(i, 2) \in Seq(Piece) /\ Len(File!Pieces(i, 2)) = 2 /\ \A k \in 1 .. 2 : File!Pieces(i, 2)[k] = <<i, k>>
      BY <2>1, PiecesAre
    <2>6. \A k \in 1 .. 2 : SubSeq(File!rest, 2 * i - 1, 2 * i)[k] = File!Pieces(i, 2)[k]
      BY <2>4, <2>5
    <2> QED BY <2>2, <2>3, <2>5, <2>6, SameSeq
  <1>9. fio_recs' = [i \in 1 .. File!got |-> File!Pieces(i, 2)]
    <2>1. \A i \in 1 .. File!got : 2 * i <= Len(File!rest) BY <1>5, <1>6, <1>7
    <2>2. fio_recs' = [i \in 1 .. File!got |-> IF 2 * i <= Len(File!rest) THEN SubSeq(File!rest, 2 * i - 1, 2 * i)
                                                       ELSE <<"garbage">>]
      BY DEF File!read_records
    <2> QED BY <2>1, <2>2, <1>8
  <1>10. Len(fio_recs') = File!got
    <2>1. \A i \in 1 .. File!got : File!Pieces(i, 2) \in Seq(Piece) BY <1>7,
                                                                       PiecesAre
    <2>2. fio_recs' \in [1 .. File!got -> Seq(Piece)] BY <1>9, <2>1
    <2>3. fio_recs' \in Seq(Seq(Piece)) BY <2>2, <1>7, SeqDef
    <2> QED BY <2>2, <2>3, <1>7, LenProperties
  <1>11. FRecs'
    <2>1. fio_f'.pos = 0 BY <1>1 DEF File!Closed
    <2>2. "bin" \in fio_cut \/ Len(fio_recs') = ROWS BY <1>4, <1>5, <1>7, <1>10
    <2>3. \A i \in DOMAIN fio_recs' : fio_recs'[i] = File!Pieces(i, 2) BY <1>9
    <2>4. fio_records' = -1 /\ fio_at' = 7 BY <1>1
    <2>5. UNCHANGED fio_cut BY <1>1
    <2> QED BY <2>1, <2>2, <2>3, <2>4, <2>5 DEF FRecs, File!Pieces
  <1>12. FPos' /\ FFiles' BY <1>0, <1>1 DEF FPos, FFiles
  <1>13. FStream' /\ ~Open' BY <1>1 DEF FStream, File!Closed, Open
  <1>14. FStored' /\ FRows' BY <1>0, <1>1, <1>13 DEF FStored, PrefixOf, FRows,
                                                     RowsOk
  <1>15. FLines' /\ FText' BY <1>0, <1>1, QuietLines, TextKept
  <1> QED BY <1>11, <1>12, <1>13, <1>14, <1>15 DEF FileInv

\* file_size of the three files, and their removal.
LEMMA LastSteps == ASSUME FileInv, File!measure \/ File!clean_up PROVE FileInv'
  <1>0. FPos /\ FFiles /\ FStream /\ FStored /\ FRows /\ FRecs /\ FLines /\ FText
    BY DEF FileInv
  <1>1. /\ UNCHANGED <<fio_f, fio_records, fio_count, fio_lines, fio_rows,
                       fio_recs, fio_cut>>
        /\ \/ /\ fio_at = 9 /\ fio_at' = 10 /\ fio_status = "running" /\ UNCHANGED <<fio_files, fio_status>>
              /\ fio_sizes'["txt"] \in {-1, File!file_size("txt")}
           \/ fio_at = 10 /\ fio_at' = 11 /\ fio_files' = <<>> /\ fio_status' = "exit(0)" /\ UNCHANGED fio_sizes
    <2>1. CASE File!measure
      <3>1. /\ fio_at = 9 /\ fio_at' = 10 /\ fio_status = "running"
            /\ UNCHANGED <<fio_f, fio_records, fio_count, fio_lines, fio_rows,
                           fio_recs, fio_cut, fio_files, fio_status>>
        BY <2>1, <1>0, WhichCall DEF File!measure, File!returns, FPos
      <3>2. fio_sizes'["txt"] \in {-1, File!file_size("txt")}
        BY <2>1 DEF File!measure
      <3> QED BY <3>1, <3>2
    <2>2. CASE File!clean_up
      BY <2>2, <1>0, WhichCall DEF File!clean_up, File!returns, FPos
    <2> QED BY <2>1, <2>2
  <1>2. fio_f = File!Closed /\ ~Open /\ fio_f.pos = 0
    BY <1>0, <1>1 DEF FStream, File!Closed
  <1>3. FPos' BY <1>0, <1>1 DEF FPos
  <1>4. FFiles'
    <2>1. CASE fio_at = 9 /\ fio_at' = 10 /\ UNCHANGED fio_files BY <2>1, <1>0
                                                                    DEF FFiles
    <2>2. CASE fio_at' = 11 /\ fio_files' = <<>>
      <3>1. DOMAIN <<>> = {} /\ <<>> = [x \in {} |-> <<>>[x]] OBVIOUS
      <3> QED BY <2>2, <3>1 DEF FFiles
    <2> QED BY <1>1, <2>1, <2>2
  <1>5. FStream' /\ ~Open' BY <1>0, <1>1, <1>2 DEF FStream, Open
  <1>6. FStored' BY <1>0, <1>1, <1>5 DEF FStored, PrefixOf
  <1>7. FRows' /\ FRecs' BY <1>0, <1>1 DEF FRows, RowsOk, FRecs
  <1>8. FLines'
    <2>1. /\ Listed(1, Len(fio_lines[1])) /\ Listed(2, Len(fio_files["txt"]))
          /\ Len(fio_lines) = 2 /\ fio_lines \in Seq(Seq(Piece))
      BY <1>0, <1>1 DEF FLines
    <2>2. CASE fio_at = 9
      <3>1. Listed(1, Len(fio_lines[1]))' /\ Listed(2, Len(fio_files["txt"]))'
        BY <2>1, <2>2, <1>1 DEF Listed
      <3>2. File!file_size("txt") = Len(fio_lines[2])
        BY <2>1, <2>2, <1>0 DEF File!file_size, Listed, FFiles
      <3> QED BY <2>1, <2>2, <3>1, <3>2, <1>1 DEF FLines
    <2>3. CASE fio_at = 10
      <3>1. Len(fio_lines[1]) <= Len(fio_lines[2]) /\ \A k \in 1 .. Len(fio_lines[1]) : fio_lines[1][k] = fio_lines[2][k]
        BY <2>1 DEF Listed
      <3>2. fio_sizes["txt"] \in {-1, Len(fio_lines[2])} BY <2>3, <1>0 DEF FLines
      <3> QED BY <2>1, <2>3, <3>1, <3>2, <1>1 DEF FLines
    <2> QED BY <1>1, <2>2, <2>3
  <1>9. FText'
    <2>1. CASE fio_at = 9
      BY <2>1, <1>0, <1>1, TextKept
    <2>2. CASE fio_at = 10
      <3>1. /\ Continues(fio_files["txt"], Len(fio_lines[1]))
            /\ Listed(2, Len(fio_files["txt"]))
        BY <2>2, <1>0 DEF FText, FLines
      <3>2. /\ Len(fio_lines[2]) = Len(fio_files["txt"])
            /\ \A k \in 1 .. Len(fio_lines[2]) : fio_lines[2][k] = fio_files["txt"][k]
        BY <3>1 DEF Listed
      <3>3. Continues(fio_lines[2], Len(fio_lines[1]))
        BY <3>1, <3>2 DEF Continues
      <3>4. Continues(fio_lines[2], Len(fio_lines[1]))'
        BY <3>3, <1>1 DEF Continues
      <3> QED BY <2>2, <3>4, <1>1 DEF FText
    <2> QED BY <1>1, <2>1, <2>2
  <1> QED BY <1>3, <1>4, <1>5, <1>6, <1>7, <1>8, <1>9 DEF FileInv

\* A text that agrees with a longer one as far as it goes is its beginning.
LEMMA PrefixIs ==
    ASSUME NEW a \in Seq(Piece), NEW b \in Seq(Piece), Len(a) <= Len(b),
           \A k \in 1 .. Len(a) : a[k] = b[k]
    PROVE  File!IsPrefix(a, b)
  <1>1. Len(a) \in Nat /\ Len(b) \in Nat
    BY LenProperties
  <1>2. /\ SubSeq(a, 1, Len(a)) \in Seq(Piece)
        /\ Len(SubSeq(a, 1, Len(a))) = (IF 1 <= Len(a) THEN Len(a) - 1 + 1 ELSE 0)
        /\ \A k \in 1 .. Len(a) - 1 + 1 : SubSeq(a, 1, Len(a))[k] = a[1 + k - 1]
    BY <1>1, SubSeqIs
  <1>3. /\ SubSeq(b, 1, Len(a)) \in Seq(Piece)
        /\ Len(SubSeq(b, 1, Len(a))) = (IF 1 <= Len(a) THEN Len(a) - 1 + 1 ELSE 0)
        /\ \A k \in 1 .. Len(a) - 1 + 1 : SubSeq(b, 1, Len(a))[k] = b[1 + k - 1]
    BY <1>1, SubSeqIs
  <1>4. \A k \in 1 .. Len(SubSeq(a, 1, Len(a))) : SubSeq(a, 1, Len(a))[k] = SubSeq(b, 1, Len(a))[k]
    BY <1>1, <1>2, <1>3
  <1>5. SubSeq(a, 1, Len(a)) = SubSeq(b, 1, Len(a))
    BY <1>2, <1>3, <1>4, SameSeq
  <1> QED BY <1>1, <1>5 DEF File!IsPrefix

\* What the listings are, wherever main is.
LEMMA ListingsAre ==
    ASSUME FPos, FFiles, FLines, FText, FStream
    PROVE  /\ fio_lines \in Seq(Seq(Piece)) /\ Len(fio_lines) \in 0 .. 2
           /\ Len(fio_lines) >= 1 => /\ Len(fio_lines[1]) <= 2 * LINES
                                     /\ \A k \in 1 .. Len(fio_lines[1]) : fio_lines[1][k] = File!text_lines[k]
           /\ Len(fio_lines) >= 2 =>
                /\ Len(fio_lines[2]) <= Len(fio_lines[1]) + 2
                /\ \A k \in 1 .. Len(fio_lines[2]) :
                     fio_lines[2][k] = IF k <= Len(fio_lines[1]) THEN File!text_lines[k]
                                       ELSE File!appended_line[k - Len(fio_lines[1])]
  <1>0. LINES \in Nat
    BY FileNumbers DEF File!FileAssumption
  <1>1. fio_at \in 1 .. 11 /\ fio_lines \in Seq(Seq(Piece)) /\ fio_f.pos \in Nat
    BY DEF FPos, FLines, FStream
  <1>2. CASE fio_at = 1 \/ (fio_at = 2 /\ ~Open)
    <2>1. Len(fio_lines) = 0 BY <1>2 DEF FLines
    <2> QED BY <1>1, <2>1
  <1>3. CASE fio_at \in 2 .. 7 /\ ~(fio_at = 2 /\ ~Open)
    <2>1. Len(fio_lines) = 1 BY <1>3 DEF FLines
    <2>2. Begins(fio_files["txt"]) BY <1>3 DEF FText
    <2>3. PICK n : Listed(1, n) BY <1>3 DEF FLines
    <2>4. /\ Len(fio_lines[1]) <= Len(fio_files["txt"]) /\ Len(fio_files["txt"]) \in Nat
          /\ Len(fio_lines[1]) \in Nat
          /\ \A k \in 1 .. Len(fio_lines[1]) : fio_lines[1][k] = fio_files["txt"][k]
      <3>1. fio_files["txt"] \in Seq(Piece) BY <1>3 DEF FFiles
      <3>3. 1 \in 1 .. Len(fio_lines) BY <2>1
      <3>2. fio_lines[1] \in Seq(Piece) BY <1>1, <3>3, ElementOfSeq
      <3> QED BY <2>3, <3>1, <3>2, LenProperties DEF Listed
    <2> QED BY <1>0, <1>1, <2>1, <2>2, <2>4 DEF Begins
  <1>4. CASE fio_at \in 8 .. 10
    <2>1. Len(fio_lines) = IF fio_at = 8 /\ ~Open THEN 1 ELSE 2 BY <1>4 DEF FLines
    <2>2. Continues(fio_files["txt"], Len(fio_lines[1])) BY <1>4 DEF FText
    <2>3. Listed(1, Len(fio_lines[1])) BY <1>4 DEF FLines
    <2>4. fio_files["txt"] \in Seq(Piece) /\ Len(fio_files["txt"]) \in Nat
      BY <1>4, LenProperties DEF FFiles
    <2>7. Len(fio_lines[1]) \in Nat BY <1>0, <2>2 DEF Continues
    <2>5. /\ Len(fio_lines[1]) <= 2 * LINES
          /\ \A k \in 1 .. Len(fio_lines[1]) : fio_lines[1][k] = File!text_lines[k]
      BY <1>0, <2>2, <2>3, <2>4, <2>7 DEF Continues, Listed
    <2>6. ASSUME Len(fio_lines) >= 2
          PROVE  /\ Len(fio_lines[2]) <= Len(fio_lines[1]) + 2
                 /\ \A k \in 1 .. Len(fio_lines[2]) :
                      fio_lines[2][k] = IF k <= Len(fio_lines[1]) THEN File!text_lines[k]
                                        ELSE File!appended_line[k - Len(fio_lines[1])]
      <3>1. PICK n : Listed(2, n) BY <1>4, <2>1, <2>6 DEF FLines
      <3>2. /\ Len(fio_lines[2]) <= Len(fio_files["txt"]) /\ Len(fio_lines[2]) \in Nat
            /\ \A k \in 1 .. Len(fio_lines[2]) : fio_lines[2][k] = fio_files["txt"][k]
        <4>1. 2 \in 1 .. Len(fio_lines) BY <1>4, <2>1, <2>6
        <4>2. fio_lines[2] \in Seq(Piece) BY <1>1, <4>1, ElementOfSeq
        <4> QED BY <3>1, <4>2, LenProperties DEF Listed
      <3> QED BY <2>2, <2>4, <2>7, <3>2 DEF Continues
    <2> QED BY <1>1, <2>1, <2>5, <2>6
  <1>5. CASE fio_at = 11
    <2>1. Len(fio_lines) = 2 BY <1>5 DEF FLines
    <2>2. Continues(fio_lines[2], Len(fio_lines[1])) BY <1>5 DEF FText
    <2>3. \A k \in 1 .. Len(fio_lines[1]) : fio_lines[1][k] = fio_lines[2][k]
      BY <1>5 DEF FLines
    <2>4. Len(fio_lines[1]) \in Nat /\ Len(fio_lines[2]) \in Nat
      <3>1. 2 \in 1 .. Len(fio_lines) BY <2>1
      <3>2. fio_lines[2] \in Seq(Piece) BY <1>1, <3>1, ElementOfSeq
      <3> QED BY <1>0, <2>2, <3>2, LenProperties DEF Continues
    <2> QED BY SMTT(30), <1>0, <1>1, <2>1, <2>2, <2>3, <2>4 DEF Continues
  <1>6. fio_at = 1 \/ fio_at \in 2 .. 7 \/ fio_at \in 8 .. 10 \/ fio_at = 11
    BY <1>1
  <1> QED BY <1>2, <1>3, <1>4, <1>5, <1>6

\* Every step of main keeps it.
LEMMA FileStep == FileInv /\ [File!Next]_File!vars => FileInv'
  <1> SUFFICES ASSUME FileInv, [File!Next]_File!vars PROVE FileInv'
    OBVIOUS
  <1>1. CASE UNCHANGED File!vars
    <2>1. FPos' /\ FFiles' /\ FStream' /\ FStored'
      BY <1>1 DEF File!vars, FileInv, FPos, FFiles, FStream, FStored, PrefixOf,
                  Open, File!call
    <2>2. FRows' /\ FRecs' /\ FLines'
      BY <1>1 DEF File!vars, FileInv, FRows, RowsOk, FRecs, FLines, Listed, Open
    <2>3. FText'
      BY <1>1 DEF File!vars, FileInv, FText, Begins, Continues, Open
    <2> QED BY <2>1, <2>2, <2>3 DEF FileInv
  <1>2. CASE File!step
    BY <1>2, OpenStep, WriteStep, ReadTextStep, ReadCsvStep, CountStep, AllocStep,
       RecordsStep, LastSteps DEF File!step
  <1> QED BY <1>1, <1>2 DEF File!Next

(***************************************************************************)
(* For any number of lines and rows, whichever fopen or malloc fails, and  *)
(* wherever a flush stops: what is printed is the beginning of what was    *)
(* written, in order, and all of it without a short flush; binary records  *)
(* come back whole; the last text line and the last CSV row of a file that *)
(* was flushed short may be cut inside; the second listing extends the     *)
(* first with the appended line; and no exit leaves a stream open or the   *)
(* array allocated.                                                        *)
(***************************************************************************)
THEOREM FilesReadBack == File!Spec => []FilesFaithful
  <1>1. FileInv => FilesFaithful
    <2> SUFFICES ASSUME FileInv PROVE FilesFaithful
      OBVIOUS
    <2>0. FPos /\ FFiles /\ FStream /\ FStored /\ FRows /\ FRecs /\ FLines /\ FText
      BY DEF FileInv
    <2>1. \A i \in DOMAIN fio_recs : fio_recs[i] = File!Pieces(i, 2)
      <3>1. CASE fio_at <= 6 BY <3>1, <2>0 DEF FRecs
      <3>2. CASE fio_at > 6 BY <3>2, <2>0 DEF FRecs
      <3> QED BY <3>1, <3>2, <2>0 DEF FPos
    <2>2. RowsOk /\ DOMAIN fio_rows = 1 .. Len(fio_rows)
      <3>1. fio_rows \in Seq(Seq(Piece)) BY <2>0 DEF FRows
      <3>2. CASE fio_at < 4 \/ (fio_at = 4 /\ fio_f.pos = 0)
        BY <3>2, <2>0 DEF FRows, RowsOk
      <3>3. CASE fio_at = 4 /\ fio_f.pos > 0
        BY <3>3, <2>0 DEF FRows, RowsOk
      <3>4. CASE fio_at > 4 BY <3>4, <2>0 DEF FRows
      <3>5. fio_at \in Nat /\ fio_f.pos \in Nat BY <2>0 DEF FPos, FStream
      <3>6. RowsOk BY <3>2, <3>3, <3>4, <3>5
      <3> QED BY <3>1, <3>6, LenProperties
    <2>3. File!ReadBackFaithful
      <3>1. \A i \in DOMAIN fio_rows :
               \/ fio_rows[i] = File!Pieces(i, 4)
               \/ i = Len(fio_rows) /\ "csv" \in fio_cut /\ fio_rows[i] = File!Pieces(i, 3)
        BY <2>2 DEF RowsOk
      <3>2. ASSUME fio_status = "exit(0)"
            PROVE  ("csv" \in fio_cut \/ Len(fio_rows) = ROWS) /\ ("bin" \in fio_cut \/ Len(fio_recs) = ROWS)
        <4>1. fio_at = 11 BY <3>2, <2>0 DEF FPos
        <4> QED BY <4>1, <2>0 DEF FRows, FRecs
      <3>3. /\ Len(File!text_lines) = 2 * LINES /\ Len(File!appended_line) = 2
            /\ File!text_lines \in Seq(Piece) /\ File!appended_line \in Seq(Piece)
            /\ LINES \in Nat
        <4>1. LINES \in Nat /\ LINES + 1 \in Nat /\ 1 \in Nat BY FileNumbers
                                                                 DEF File!FileAssumption
        <4>2. Len(File!text_lines) = 2 * LINES /\ Len(File!appended_line) = 2 * 1
          BY <4>1, ItemsLen DEF File!text_lines, File!appended_line
        <4>3. File!text_lines \in Seq(Piece) /\ File!appended_line \in Seq(Piece)
          BY <4>1, ItemsLen DEF File!text_lines, File!appended_line
        <4> QED BY <4>1, <4>2, <4>3
      <3>4. ASSUME Len(fio_lines) >= 1 PROVE File!IsPrefix(fio_lines[1], File!text_lines)
        <4>1. /\ fio_lines \in Seq(Seq(Piece)) /\ Len(fio_lines) \in 1 .. 2
              /\ Len(fio_lines[1]) <= 2 * LINES
              /\ \A k \in 1 .. Len(fio_lines[1]) : fio_lines[1][k] = File!text_lines[k]
          BY <2>0, <3>4, ListingsAre
        <4>3. 1 \in 1 .. Len(fio_lines) BY <4>1
        <4>2. fio_lines[1] \in Seq(Piece)
          BY <4>1, <4>3, ElementOfSeq
        <4> QED BY <3>3, <4>1, <4>2, PrefixIs
      <3>5. ASSUME Len(fio_lines) >= 2
            PROVE  File!IsPrefix(fio_lines[2], fio_lines[1] \o File!appended_line)
        <4> DEFINE a == fio_lines[1]
                   b == fio_lines[2]
                   e == File!appended_line
        <4>1. /\ fio_lines \in Seq(Seq(Piece)) /\ Len(fio_lines) \in 1 .. 2
              /\ \A k \in 1 .. Len(a) : a[k] = File!text_lines[k]
              /\ Len(b) <= Len(a) + 2
              /\ \A k \in 1 .. Len(b) : b[k] = IF k <= Len(a) THEN File!text_lines[k] ELSE e[k - Len(a)]
          BY <2>0, <3>5, ListingsAre
        <4>2. /\ a \in Seq(Piece) /\ b \in Seq(Piece) /\ e \in Seq(Piece)
              /\ Len(a) \in Nat /\ Len(b) \in Nat /\ Len(e) = 2
          <5>1. 1 \in 1 .. Len(fio_lines) /\ 2 \in 1 .. Len(fio_lines)
            BY <4>1, <3>5
          <5>2. a \in Seq(Piece) /\ b \in Seq(Piece)
            BY <4>1, <5>1, ElementOfSeq
          <5> QED BY <3>3, <5>2, LenProperties
        <4> HIDE DEF a, b, e
        <4>3. /\ a \o e \in Seq(Piece) /\ Len(a \o e) = Len(a) + Len(e)
              /\ \A k \in 1 .. Len(a) + Len(e) : (a \o e)[k] = IF k <= Len(a) THEN a[k] ELSE e[k - Len(a)]
          BY <4>2, ConcatProperties, Zenon
        <4>4. \A k \in 1 .. Len(b) : b[k] = (a \o e)[k]
          BY <4>1, <4>2, <4>3
        <4>5. Len(b) <= Len(a \o e)
          BY <4>1, <4>2, <4>3
        <4>6. File!IsPrefix(b, a \o e)
          BY <4>2, <4>3, <4>4, <4>5, PrefixIs
        <4> QED BY <4>6 DEF a, b, e
      <3>6. ASSUME fio_status = "exit(0)"
            PROVE  \/ "txt" \in fio_cut
                   \/ /\ Len(fio_lines[1]) = Len(File!text_lines)
                      /\ Len(fio_lines[2]) = Len(fio_lines[1]) + Len(File!appended_line)
        <4>1. Continues(fio_lines[2], Len(fio_lines[1]))
          BY <3>6, <2>0 DEF FPos, FText
        <4>2. fio_lines[2] \in Seq(Piece)
          <5>1. fio_lines \in Seq(Seq(Piece)) /\ Len(fio_lines) = 2
            BY <3>6, <2>0 DEF FPos, FLines
          <5>2. 2 \in 1 .. Len(fio_lines) BY <5>1
          <5> QED BY <5>1, <5>2, ElementOfSeq
        <4>3. Len(fio_lines[2]) \in Nat
          BY <4>2, LenProperties
        <4> QED BY <3>3, <4>1, <4>3 DEF Continues
      <3>7. fio_status = "exit(0)" =>
              /\ "csv" \in fio_cut \/ Len(fio_rows) = ROWS
              /\ "bin" \in fio_cut \/ Len(fio_recs) = ROWS
              /\ \/ "txt" \in fio_cut
                 \/ /\ Len(fio_lines[1]) = Len(File!text_lines)
                    /\ Len(fio_lines[2]) = Len(fio_lines[1]) + Len(File!appended_line)
        BY <3>2, <3>6
      <3> QED BY <2>1, <3>1, <3>4, <3>5, <3>7, Zenon DEF File!ReadBackFaithful
    <2>4. File!AppendKeeps
      <3> SUFFICES ASSUME fio_status = "exit(0)" PROVE File!IsPrefix(fio_lines[1], fio_lines[2]) /\ fio_sizes["txt"] \in {-1, Len(fio_lines[2])}
        BY DEF File!AppendKeeps
      <3>1. /\ fio_sizes["txt"] \in {-1, Len(fio_lines[2])} /\ fio_lines \in Seq(Seq(Piece)) /\ Len(fio_lines) = 2
            /\ Len(fio_lines[1]) <= Len(fio_lines[2]) /\ \A k \in 1 .. Len(fio_lines[1]) : fio_lines[1][k] = fio_lines[2][k]
        BY <2>0 DEF FPos, FLines
      <3> DEFINE a == fio_lines[1]
                 b == fio_lines[2]
      <3>2. /\ a \in Seq(Piece) /\ b \in Seq(Piece) /\ Len(a) <= Len(b)
            /\ Len(a) \in Nat /\ Len(b) \in Nat
        <4>1. /\ 1 \in 1 .. Len(fio_lines) /\ 2 \in 1 .. Len(fio_lines)
              /\ DOMAIN fio_lines = 1 .. Len(fio_lines)
          BY <3>1, LenProperties
        <4>2. a \in Seq(Piece) /\ b \in Seq(Piece)
          BY <3>1, <4>1, ElementOfSeq
        <4> QED BY <3>1, <4>2, LenProperties
      <3>3. \A k \in 1 .. Len(a) : a[k] = b[k] BY <3>1
      <3> HIDE DEF a, b
      <3>4. File!IsPrefix(a, b)
        BY <3>2, <3>3, PrefixIs
      <3> QED BY <3>1, <3>4 DEF a, b
    <2>5. File!StreamsClosed
      <3>1. fio_status # "running" => fio_f = File!Closed BY <2>0 DEF FStream
      <3>2. fio_f = File!Closed => fio_records = -1 BY <2>0 DEF FRecs, File!Closed
      <3>3. fio_status = "exit(0)" => fio_files = <<>> BY <2>0 DEF FPos, FFiles
      <3> QED BY <3>1, <3>2, <3>3 DEF File!StreamsClosed, File!Ended
    <2> QED BY <2>3, <2>4, <2>5 DEF FilesFaithful
  <1> QED BY <1>1, FileInit, FileStep, PTL DEF File!Spec
==============================================================================
