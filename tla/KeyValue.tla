------------------------------ MODULE KeyValue ------------------------------
(***************************************************************************)
(* What the hash table of exercise 18 promises its callers: a dictionary.  *)
(* ret is what the last call returned, with the value hmap_get wrote.      *)
(***************************************************************************)
CONSTANTS Keys, Values, None

VARIABLES dict, ret

Init ==
    /\ dict = [k \in Keys |-> None]
    /\ ret = <<>>

Put(k, v) ==
    /\ dict' = [dict EXCEPT ![k] = v]
    /\ ret' = <<>>

\* hmap_get: 1 and the value, or 0; hmap_contains is the same without it.
Get(k) ==
    /\ ret' = IF dict[k] = None THEN <<0>> ELSE <<1, dict[k]>>
    /\ UNCHANGED dict

Delete(k) ==
    /\ dict' = [dict EXCEPT ![k] = None]
    /\ ret' = IF dict[k] = None THEN <<0>> ELSE <<1>>

\* hmap_free, after which only a new hmap_create can follow.
Renew ==
    /\ dict' = [k \in Keys |-> None]
    /\ ret' = <<>>

Next ==
    \/ Renew
    \/ \E k \in Keys : Get(k) \/ Delete(k) \/ \E v \in Values : Put(k, v)

Spec == Init /\ [][Next]_<<dict, ret>>
=============================================================================
