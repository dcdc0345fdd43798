--------------------------- MODULE KeyValueStore ---------------------------
(***************************************************************************)
(* What librdb promises of sets: a map from keys to values that changes    *)
(* one key at a time, to a value that was asked for.                       *)
(***************************************************************************)
CONSTANTS Keys, NoValue

VARIABLES map,     \* the value of each key
          asked    \* for each key, the values of the sets under way

Init == map = [k \in Keys |-> NoValue]

\* a set of one key takes effect
Next ==
    \E k \in Keys :
      /\ map'[k] \in asked[k]
      /\ \A j \in Keys \ {k} : map'[j] = map[j]

Spec == Init /\ [][Next]_map
=============================================================================
