------------------------------- MODULE Dicts -------------------------------
(***************************************************************************)
(* Python dictionaries as functions whose domain is the set of keys that   *)
(* are present, for the stores the backend keeps in memory.                *)
(***************************************************************************)

EmptyDict == [k \in {} |-> k]

\* d[k] = v
Put(d, k, v) == [x \in DOMAIN d \cup {k} |-> IF x = k THEN v ELSE d[x]]

\* d.pop(k, None)
Drop(d, k) == [x \in DOMAIN d \ {k} |-> d[x]]

\* A dictionary from keys in K to values in V.
IsDict(d, K, V) ==
    /\ DOMAIN d \subseteq K
    /\ d \in [DOMAIN d -> V]
=============================================================================
