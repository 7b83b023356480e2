-------------------------------- MODULE Mmap --------------------------------
(***************************************************************************)
(* Exercise 27: memory-mapped files and shared memory, one system call a   *)
(* step, each of which may fail.  The descriptors, mappings and temporary  *)
(* files of the parent are sets of names; a file's contents are a name for *)
(* what was last written.  The child processes of section 5 interleave     *)
(* with their parent.                                                      *)
(***************************************************************************)
EXTENDS Naturals

VARIABLES pc,             \* the parent
          fds, maps,      \* its open descriptors and its mappings
          files,          \* temporary files that exist
          rw,             \* contents of TMP_RW
          verified,       \* what section 3 read back
          shm,            \* the shared page of section 5
          priv,           \* the private page, a copy for each process
          kid,            \* the running child: "none", a step of it, "zombie"
          seen,           \* what the parent printed of either page
          unmapped        \* mmap calls that failed

vars == <<pc, fds, maps, files, rw, verified, shm, priv, kid, seen, unmapped>>
resources == <<fds, maps, files>>
memory == <<shm, priv, kid, seen>>

Fresh == [counter |-> 0, message |-> "empty"]
Written == [counter |-> 99, message |-> "written by child"]
Nothing == "nothing"

Init ==
    /\ pc = "ro_create"
    /\ fds = {} /\ maps = {} /\ files = {} /\ unmapped = {}
    /\ rw = Nothing /\ verified = Nothing
    /\ shm = Fresh
    /\ priv = [p \in {"parent", "child"} |-> 0]
    /\ kid = "none"
    /\ seen = <<>>

-----------------------------------------------------------------------------
\* The parent moves from one step to the next.
Go(from, to) == pc = from /\ pc' = to
Open(name) == fds' = fds \cup {name}
Close(name) == fds' = fds \ {name}
Unlink(name) == files' = files \ {name}
Munmap(names) == maps' = maps \ names
Mmap_ok(name) == maps' = maps \cup {name} /\ UNCHANGED unmapped
Mmap_failed(name) == unmapped' = unmapped \cup {name} /\ UNCHANGED maps

ro_open_failed == Go("ro_open", "rw_open") /\ Unlink("RO") /\ UNCHANGED <<fds,
                                                                          maps>>

section_read_mapping ==
    /\ \/ Go("ro_create", "rw_open") /\ UNCHANGED <<resources, unmapped>>
       \/ /\ Go("ro_create", "ro_open")
          /\ files' = files \cup {"RO"} /\ UNCHANGED <<fds, maps, unmapped>>
       \/ ro_open_failed /\ UNCHANGED unmapped
       \/ Go("ro_open", "ro_stat") /\ Open("RO") /\ UNCHANGED <<maps, files,
                                                                unmapped>>
       \/ Go("ro_stat", "rw_open") /\ Close("RO") /\ Unlink("RO") /\ UNCHANGED <<maps, unmapped>>
       \/ Go("ro_stat", "ro_map") /\ UNCHANGED <<resources, unmapped>>
       \/ Go("ro_map", "rw_open") /\ Close("RO") /\ Mmap_failed("RO") /\ UNCHANGED files
       \/ Go("ro_map", "ro_done") /\ Close("RO") /\ Mmap_ok("RO") /\ UNCHANGED files
       \/ /\ Go("ro_done", "rw_open")
          /\ Munmap({"RO"}) /\ Unlink("RO") /\ UNCHANGED <<fds, unmapped>>
    /\ UNCHANGED <<rw, verified, memory>>

\* A store through the MAP_SHARED mapping is a store to the file.
store == rw' = "modified"

section_write_mapping ==
    /\ \/ Go("rw_open", "anon") /\ UNCHANGED <<resources, rw, verified, unmapped>>
       \/ /\ Go("rw_open", "rw_write")
          /\ Open("RW") /\ files' = files \cup {"RW"} /\ rw' = "empty"
          /\ UNCHANGED <<maps, verified, unmapped>>
       \/ /\ Go("rw_write", "anon")
          /\ Close("RW") /\ Unlink("RW") /\ UNCHANGED <<maps, rw, verified,
                                                        unmapped>>
       \/ /\ Go("rw_write", "rw_map")
          /\ rw' = "initial" /\ UNCHANGED <<resources, verified, unmapped>>
       \/ /\ Go("rw_map", "anon")
          /\ Close("RW") /\ Mmap_failed("RW") /\ UNCHANGED <<files, rw, verified>>
       \/ /\ Go("rw_map", "rw_edit")
          /\ Close("RW") /\ Mmap_ok("RW") /\ UNCHANGED <<files, rw, verified>>
       \/ /\ Go("rw_edit", "rw_reopen")
          /\ store /\ Munmap({"RW"}) /\ UNCHANGED <<fds, files, verified, unmapped>>
       \/ /\ Go("rw_reopen", "anon")
          /\ Unlink("RW") /\ UNCHANGED <<fds, maps, rw, verified, unmapped>>
       \/ /\ Go("rw_reopen", "rw_verify")
          /\ Open("RW") /\ UNCHANGED <<maps, files, rw, verified, unmapped>>
       \/ /\ Go("rw_verify", "anon")
          /\ verified' \in {rw, Nothing}      \* a short read verifies nothing
          /\ Close("RW") /\ Unlink("RW") /\ UNCHANGED <<maps, rw, unmapped>>
    /\ UNCHANGED <<memory>>

section_anonymous ==
    /\ \/ Go("anon", "shm_map") /\ Mmap_failed("anon")
       \/ Go("anon", "anon_done") /\ Mmap_ok("anon")
       \/ Go("anon_done", "shm_map") /\ Munmap({"anon"}) /\ UNCHANGED unmapped
    /\ UNCHANGED <<fds, files, rw, verified, memory>>

-----------------------------------------------------------------------------
\* Wrong: the parent does not wait for its child.
reaped_early == TRUE
\* waitpid: returns at once when fork failed and there is no child.
reaped == kid \in {"none", "zombie"}

shared_page ==
    /\ \/ /\ Go("shm_map", "trunc_open")
          /\ Mmap_failed("shm") /\ UNCHANGED memory
       \/ /\ Go("shm_map", "fork1")
          /\ Mmap_ok("shm") /\ shm' = Fresh /\ UNCHANGED <<priv, kid, seen>>
       \/ /\ Go("fork1", "wait1")
          /\ kid' \in {"none", "counter"}
          /\ UNCHANGED <<maps, unmapped, shm, priv, seen>>
       \/ /\ Go("wait1", "priv_map") /\ reaped
          /\ seen' = <<kid # "none", shm>> /\ kid' = "none"
          /\ UNCHANGED <<maps, unmapped, shm, priv>>
    /\ UNCHANGED <<fds, files, rw, verified>>

\* The first store after mmap(): through MAP_FAILED when it failed.
priv_map ==
    /\ \/ /\ Go("priv_map", "dead")
          /\ Mmap_failed("priv") /\ UNCHANGED priv
       \/ /\ Go("priv_map", "fork2")
          /\ Mmap_ok("priv")
          /\ priv' = [priv EXCEPT !["parent"] = 0]
    /\ UNCHANGED <<fds, files, rw, verified, shm, kid, seen>>

\* Wrong: only one of the two pages is unmapped.
unmap_pages_one == Munmap({"shm"})
unmap_pages == Munmap({"shm", "priv"})

private_page ==
    /\ \/ /\ Go("fork2", "wait2")
          /\ \/ kid' = "none" /\ UNCHANGED priv
             \/ kid' = "private" /\ priv' = [priv EXCEPT !["child"] = priv["parent"]]
          /\ UNCHANGED <<maps, seen>>
       \/ /\ Go("wait2", "trunc_open") /\ reaped
          /\ seen' = <<seen[1], seen[2], priv["parent"]>> /\ kid' = "none"
          /\ unmap_pages
          /\ UNCHANGED priv
    /\ UNCHANGED <<fds, files, rw, verified, shm, unmapped>>

\* The children: two stores to the shared page, or one to their own copy.
child ==
    /\ \/ kid = "counter" /\ kid' = "message" /\ shm' = [shm EXCEPT !.counter = 99]
          /\ UNCHANGED priv
       \/ kid = "message" /\ kid' = "zombie"
          /\ shm' = [shm EXCEPT !.message = "written by child"] /\ UNCHANGED priv
       \/ kid = "private" /\ kid' = "zombie" /\ priv' = [priv EXCEPT !["child"] = 999]
          /\ UNCHANGED shm
    /\ UNCHANGED <<pc, fds, maps, files, rw, verified, seen, unmapped>>

-----------------------------------------------------------------------------
section_pitfalls ==
    /\ \/ Go("trunc_open", "trunc_unlink") /\ UNCHANGED <<resources, unmapped>>
       \/ /\ Go("trunc_open", "trunc_size")
          /\ Open("TRUNC") /\ files' = files \cup {"TRUNC"} /\ UNCHANGED <<maps,
                                                                           unmapped>>
       \/ Go("trunc_size", "trunc_unlink") /\ Close("TRUNC") /\ UNCHANGED <<maps,
                                                                            files,
                                                                            unmapped>>
       \/ Go("trunc_size", "trunc_map") /\ UNCHANGED <<resources, unmapped>>
       \/ Go("trunc_map", "trunc_unlink") /\ Close("TRUNC") /\ Mmap_failed("TRUNC") /\ UNCHANGED files
       \/ Go("trunc_map", "trunc_use") /\ Close("TRUNC") /\ Mmap_ok("TRUNC") /\ UNCHANGED files
       \/ Go("trunc_use", "trunc_unlink") /\ Munmap({"TRUNC"}) /\ UNCHANGED <<fds,
                                                                              files, unmapped>>
       \/ Go("trunc_unlink", "done") /\ Unlink("TRUNC") /\ UNCHANGED <<fds, maps,
                                                                       unmapped>>
    /\ UNCHANGED <<rw, verified, memory>>

Parent ==
    \/ section_read_mapping \/ section_write_mapping \/ section_anonymous
    \/ shared_page \/ priv_map \/ private_page
    \/ section_pitfalls

Ended == pc \in {"done", "dead"}

Next == Parent \/ child \/ (Ended /\ UNCHANGED vars)

Spec == Init /\ [][Next]_vars

-----------------------------------------------------------------------------
(***************************************************************************)
(* Nothing is held between two sections: whichever call failed, every      *)
(* descriptor is closed and every page unmapped.                           *)
(***************************************************************************)
Released ==
    pc \in {"rw_open", "anon", "shm_map", "trunc_open", "done"} => fds = {} /\ maps = {}

(***************************************************************************)
(* A temporary file outlives its section only where the code returns       *)
(* without unlink: after a failed mmap.                                    *)
(***************************************************************************)
TemporariesRemoved == pc = "done" => files \subseteq {"RO", "RW"} \cap unmapped

(***************************************************************************)
(* Section 3: what read() returns after munmap is what was stored through  *)
(* the mapping.                                                            *)
(***************************************************************************)
StoreReachesFile == verified \in {Nothing, "modified"}

(***************************************************************************)
(* Section 5: after waitpid the parent sees both of the child's stores to  *)
(* the shared page (all of them or, when there was no child, none), and    *)
(* none of the child's store to the private page.                          *)
(***************************************************************************)
SharedPageVisible ==
    seen # <<>> => /\ seen[2] = IF seen[1] THEN Written ELSE Fresh
                   /\ DOMAIN seen = 1 .. 3 => seen[3] = 0

=============================================================================
