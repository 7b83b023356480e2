-------------------------------- MODULE Plugin --------------------------------
(***************************************************************************)
(* Exercise 31: a plugin loaded with dlopen, used through a table of       *)
(* functions it fills in, and unloaded, in the order main runs the         *)
(* sections.  The library is reference-counted and its code is mapped      *)
(* while the count is positive; the plugin object is a heap block whose    *)
(* functions live in that code.  Any dlopen and the plugin's malloc may    *)
(* fail, and the plugin.so that is found may lack an entry point.          *)
(***************************************************************************)
EXTENDS Naturals

Entries == {"plugin_create", "plugin_destroy"}

VARIABLES pc,        \* <<section, step>>
          exports,   \* entry points of the plugin.so on disk
          refs,      \* the library's reference count
          object,    \* the plugin object is allocated
          error,     \* dlerror would return a message
          strlen     \* what section 5 printed: "", "found", "not found"

vars == <<pc, exports, refs, object, error, strlen>>

Init ==
    /\ pc = <<2, "open">>
    /\ exports \in SUBSET Entries
    /\ refs = 0 /\ object = FALSE /\ error = FALSE /\ strlen = ""

Goto(s, step, to) == pc = <<s, step>> /\ pc' = to
End(status) == <<0, status>>
Begin(s) == <<s, "open">>

dlclose == refs' = refs - 1

-----------------------------------------------------------------------------
(* The plugin's own code *)

\* malloc may fail: the caller gets NULL.
plugin_create == object' \in BOOLEAN

plugin_destroy == object' = FALSE

-----------------------------------------------------------------------------
\* dlerror(); dlopen("./plugin.so"): a count more, or an error that waits.
open_plugin(s, opened, failed) ==
    /\ pc = Begin(s)
    /\ \/ pc' = opened /\ refs' = refs + 1 /\ error' = FALSE
       \/ pc' = failed /\ error' = TRUE /\ UNCHANGED refs
    /\ UNCHANGED <<exports, object, strlen>>

\* Section 2 looks at plugin_create's lookup only; plugin_destroy's may leave
\* an error and a null pointer.
lookup_basic ==
    /\ IF "plugin_create" \in exports
       THEN /\ Goto(2, "lookup", <<2, "create">>)
            /\ error' = ("plugin_destroy" \notin exports)
            /\ UNCHANGED refs
       ELSE /\ Goto(2, "lookup", Begin(3))
            /\ error' = FALSE
            /\ dlclose
    /\ UNCHANGED <<exports, object, strlen>>

\* load_plugin wants both, and reads dlerror when one is missing.
lookup_both ==
    /\ IF Entries \subseteq exports
       THEN Goto(3, "lookup", <<3, "create">>) /\ UNCHANGED <<refs, error>>
       ELSE Goto(3, "lookup", Begin(4)) /\ error' = FALSE /\ dlclose
    /\ UNCHANGED <<exports, object, strlen>>

\* Wrong: the library stays loaded when plugin_create returns NULL.
create_keeps(s) ==
    /\ plugin_create
    /\ IF object' THEN Goto(s, "create", <<s, "use">>)
                  ELSE Goto(s, "create", Begin(s + 1))
    /\ UNCHANGED <<exports, refs, error, strlen>>

create(s) ==
    /\ plugin_create
    /\ IF object' THEN Goto(s, "create", <<s, "use">>) /\ UNCHANGED refs
                  ELSE Goto(s, "create", Begin(s + 1)) /\ dlclose
    /\ UNCHANGED <<exports, error, strlen>>

\* name, describe() and transform() through the object's pointers.
use(s) == Goto(s, "use", <<s, "destroy">>) /\ UNCHANGED <<exports, refs, object,
                                                          error, strlen>>

\* A call through the null pointer of a missing plugin_destroy is a fault.
destroy(s) ==
    /\ IF "plugin_destroy" \in exports
       THEN Goto(s, "destroy", <<s, "close">>) /\ plugin_destroy
       ELSE Goto(s, "destroy", <<s, "fault">>) /\ UNCHANGED object
    /\ UNCHANGED <<exports, refs, error, strlen>>

close(s) ==
    /\ Goto(s, "close", Begin(s + 1))
    /\ dlclose
    /\ UNCHANGED <<exports, object, error, strlen>>

section2_basic ==
    \/ open_plugin(2, <<2, "lookup">>, End("exit(1)"))       \* dl_die
    \/ lookup_basic \/ create(2) \/ use(2) \/ destroy(2) \/ close(2)

\* dlerror is read when the load failed.
section3_dispatch ==
    \/ open_plugin(3, <<3, "lookup">>, <<3, "report">>)
    \/ /\ Goto(3, "report", Begin(4)) /\ error' = FALSE
       /\ UNCHANGED <<exports, refs, object, strlen>>
    \/ lookup_both \/ create(3) \/ use(3) \/ destroy(3) \/ close(3)

\* nonexistent.so fails and dlerror is read; then the plugin, whose failure
\* nobody looks at.
section4_rtld_now == open_plugin(4, <<4, "close">>, Begin(5)) \/ close(4)

\* dlerror() empties what an earlier section left; strlen is always there, so
\* the lookup itself leaves no error.
section5_rtld_default ==
    \/ /\ Goto(5, "open", <<5, "strlen">>)
       /\ error' = FALSE
       /\ UNCHANGED <<exports, refs, object, strlen>>
    \/ /\ Goto(5, "strlen", End("exit(0)"))
       /\ strlen' = IF error THEN "not found" ELSE "found"
       /\ error' = FALSE
       /\ UNCHANGED <<exports, refs, object>>

Ended == pc[1] = 0 \/ pc[2] = "fault"

main == section2_basic \/ section3_dispatch \/ section4_rtld_now \/ section5_rtld_default

Next == main \/ (Ended /\ UNCHANGED vars)

Spec == Init /\ [][Next]_vars

-----------------------------------------------------------------------------
\* Whichever call fails, a section leaves nothing loaded or allocated behind.
Unloaded ==
    pc[2] = "open" \/ pc \in {End("exit(0)"), End("exit(1)")} => refs = 0 /\ ~object

\* Plugin code runs only while it is mapped, and on a live object.
CodeMapped ==
    /\ pc[2] \in {"create", "use", "destroy"} => refs > 0
    /\ pc[2] \in {"use", "destroy"} => object

\* Only section 2, which does not look at the second dlsym, can call through
\* a null pointer.
FaultOnlyUnchecked ==
    pc[2] = "fault" => pc[1] = 2 /\ "plugin_destroy" \notin exports

\* An error left by an earlier section is not taken for strlen's.
NoStaleError == strlen # "not found"
===============================================================================
