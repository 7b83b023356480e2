------------------------------ MODULE NamedSem -------------------------------
(***************************************************************************)
(* Exercise 30, section 6: parent and child processes that meet at a named *)
(* POSIX semaphore, run several times in a row, where a parent may be      *)
(* killed half-way and leave the name and an orphaned child behind, and    *)
(* fork may fail, which the code does not notice.                          *)
(*                                                                         *)
(* A semaphore object is identified by the run that created it; OldObject  *)
(* is one left by some execution before the first run.  The name lives in  *)
(* the file system and refers to at most one object; an object lives on    *)
(* while a process has it open.                                            *)
(***************************************************************************)
EXTENDS Naturals

CONSTANTS Runs,          \* executions of the program, one after the other
          MaxCrashes,    \* bound on killed parents
          ForkMayFail

RunsAssumption == Runs \in Nat

Executions == 1 .. Runs
NoObject == 0            \* no such name, or SEM_FAILED
OldObject == Runs + 1
Objects == 1 .. Runs + 1

VARIABLES name,      \* the object SEM_NAME refers to
          value,     \* value of each object
          parent,    \* each run's parent: where it is
          child,     \* each run's child: where it is
          cs,        \* each child's handle
          posted,    \* objects each child has posted to
          crashes

vars == <<name, value, parent, child, cs, posted, crashes>>

\* A semaphore left by an earlier program may hold an unconsumed post.
Leftovers == [Objects -> {0}] \cup {[o \in Objects |-> IF o = OldObject THEN 1 ELSE 0]}

Init ==
    /\ name \in {NoObject, OldObject}
    /\ value \in Leftovers
    /\ parent = [r \in Executions |-> "idle"]
    /\ child = [r \in Executions |-> "none"]
    /\ cs = [r \in Executions |-> NoObject]
    /\ posted = [r \in Executions |-> {}]
    /\ crashes = 0

ParentGoto(r, a, b) == parent[r] = a /\ parent' = [parent EXCEPT ![r] = b]
ChildGoto(r, a, b) == child[r] = a /\ child' = [child EXCEPT ![r] = b]

Ended == {"done", "failed", "crashed"}

\* The program is started; sem_unlink(SEM_NAME) removes a leftover name.
unlink_leftover(r) ==
    /\ ParentGoto(r, "idle", "open")
    /\ \A q \in 1 .. r - 1 : parent[q] \in Ended
    /\ name' = NoObject
    /\ UNCHANGED <<value, child, cs, posted, crashes>>

\* sem_open(O_CREAT | O_EXCL, .., 0): a fresh object, or SEM_FAILED and return.
create_semaphore(r) ==
    /\ ParentGoto(r, "open", IF name = NoObject THEN "fork" ELSE "failed")
    /\ name' = IF name = NoObject THEN r ELSE name
    /\ UNCHANGED <<value, child, cs, posted, crashes>>

\* The result of fork is compared with 0 only: after a failure the parent goes
\* on as if it had a child.
fork_child(r) ==
    /\ ParentGoto(r, "fork", "wait")
    /\ \/ child' = [child EXCEPT ![r] = "open"]
       \/ ForkMayFail /\ UNCHANGED child
    /\ UNCHANGED <<name, value, cs, posted, crashes>>

parent_sem_wait(r) ==
    /\ value[r] > 0
    /\ ParentGoto(r, "wait", "unlink")
    /\ value' = [value EXCEPT ![r] = @ - 1]
    /\ UNCHANGED <<name, child, cs, posted, crashes>>

\* Wrong: the name stays in the file system.
parent_close_only(r) ==
    /\ ParentGoto(r, "unlink", "waitpid")
    /\ UNCHANGED <<name, value, child, cs, posted, crashes>>

\* sem_close(s); sem_unlink(SEM_NAME)
parent_close_unlink(r) ==
    /\ ParentGoto(r, "unlink", "waitpid")
    /\ name' = NoObject
    /\ UNCHANGED <<value, child, cs, posted, crashes>>

\* With no child, waitpid(-1) fails at once.
parent_waitpid(r) ==
    /\ child[r] \in {"exited", "killed", "none"}
    /\ ParentGoto(r, "waitpid", "done")
    /\ UNCHANGED <<name, value, child, cs, posted, crashes>>

\* The parent is killed at any point of its run.
crash(r) ==
    /\ crashes < MaxCrashes
    /\ parent[r] \notin Ended \cup {"idle"}
    /\ parent' = [parent EXCEPT ![r] = "crashed"]
    /\ crashes' = crashes + 1
    /\ UNCHANGED <<name, value, child, cs, posted>>

-----------------------------------------------------------------------------
\* The child opens whatever the name refers to now; the result is not checked.
child_open(r) ==
    /\ ChildGoto(r, "open", "post")
    /\ cs' = [cs EXCEPT ![r] = name]
    /\ UNCHANGED <<name, value, parent, posted, crashes>>

\* sem_post, sem_close, exit(0); posting to SEM_FAILED is a memory fault.
child_post(r) ==
    /\ ChildGoto(r, "post", IF cs[r] = NoObject THEN "killed" ELSE "exited")
    /\ IF cs[r] = NoObject
       THEN UNCHANGED <<value, posted>>
       ELSE /\ value' = [value EXCEPT ![cs[r]] = @ + 1]
            /\ posted' = [posted EXCEPT ![r] = @ \cup {cs[r]}]
    /\ UNCHANGED <<name, parent, cs, crashes>>

child_process(r) == child_open(r) \/ child_post(r)

section6_named(r) ==
    \/ unlink_leftover(r) \/ create_semaphore(r) \/ fork_child(r)
    \/ parent_sem_wait(r) \/ parent_close_unlink(r) \/ parent_waitpid(r)

AllOver == \A r \in Executions : parent[r] \in Ended

\* The parent of a child that was never made sleeps in sem_wait.
Childless(r) == parent[r] = "wait" /\ child[r] = "none"

Next ==
    \/ \E r \in Executions : section6_named(r) \/ child_process(r) \/ crash(r)
    \/ (AllOver \/ \E r \in Executions : Childless(r)) /\ UNCHANGED vars

Spec == Init /\ [][Next]_vars

\* Parents and children are scheduled; nobody has to be killed.
FairSpec ==
    /\ Spec
    /\ \A r \in Executions : WF_vars(section6_named(r)) /\ WF_vars(child_process(r))

-----------------------------------------------------------------------------

\* Whatever an earlier run left behind, sem_open with O_EXCL never fails.
OpenNeverFails == \A r \in Executions : parent[r] # "failed"

\* No run that ends by itself leaves the name in the file system.
NameRemoved ==
    \A r \in Executions : parent[r] \in {"waitpid", "done"} => name # r

\* Wake-ups of a run whose predecessors all ended normally come from its own
\* child, after that child was done with what it had to do.
WokenByOwnChild ==
    crashes = 0 =>
      \A r \in Executions :
        parent[r] \in {"unlink", "waitpid", "done"} => r \in posted[r]

(***************************************************************************)
(* semaphores.md: "Always sem_unlink in the creator (or a cleanup path)":  *)
(* a name that was created and whose creator is not killed is removed      *)
(* again.  The code's only path to sem_unlink leads through sem_wait,      *)
(* which never returns when fork failed.                                   *)
(***************************************************************************)
CreatorUnlinks == \A r \in Executions : name = r ~> name # r

==============================================================================
