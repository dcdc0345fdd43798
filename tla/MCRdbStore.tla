----------------------------- MODULE MCRdbStore -----------------------------
(* Instances of RdbStore for TLC                                             *)
EXTENDS RdbStore, TLC

CONSTANTS k1, k2, k3, b1, b2, t1, t2, v1, v2

\* one key has a hash entry of its own, or all keys share one
Apart    == [k \in Keys |-> IF k = k3 THEN b2 ELSE b1]
Together == [k \in Keys |-> b1]

\* two keys in a page and two entries, where two writes may fail; a chain of pages
\* with one key each, where one may; values that are overwritten; concurrent sets
\* with crashes; and a chain of pages with crashes
MCDatabases ==
    {[keysPerPage |-> 2, hash |-> Apart, ops |-> {"set", "remove"}, vals |-> {v1},
      crashes |-> FALSE, faults |-> 2],
     [keysPerPage |-> 1, hash |-> Together, ops |-> {"set", "remove"}, vals |-> {v1},
      crashes |-> FALSE, faults |-> 1],
     [keysPerPage |-> 2, hash |-> Apart, ops |-> {"set"}, vals |-> {v1, v2},
      crashes |-> FALSE, faults |-> 0],
     [keysPerPage |-> 1, hash |-> Apart, ops |-> {"set"}, vals |-> {v1},
      crashes |-> TRUE, faults |-> 0],
     [keysPerPage |-> 1, hash |-> Together, ops |-> {"set", "remove"}, vals |-> {v1},
      crashes |-> TRUE, faults |-> 0]}

\* the threads are alike, and so are two of the keys
Alike == Permutations({t1, t2}) \cup Permutations({k1, k2})
=============================================================================
