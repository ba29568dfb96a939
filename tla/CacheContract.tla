----------------------------- MODULE CacheContract -----------------------------
(***************************************************************************)
(* What the result cache promises to its callers, without sizes, order or  *)
(* eviction: a key has the value put last, and may fall back, at any time  *)
(* and without notice, to the value that was saved last, which is the same *)
(* one unless saving failed.  Nothing else ever answers for a key.         *)
(***************************************************************************)
CONSTANTS
    Keys, Values,
    None          \* no value

VARIABLES
    content,      \* what a get of each key answers
    saved         \* what it falls back to

vars == <<content, saved>>

Init ==
    /\ content = [k \in Keys |-> None]
    /\ saved = [k \in Keys |-> None]

\* The keys of forgotten fall back, the others stay.
After(forgotten) == [k \in Keys |-> IF k \in forgotten THEN saved[k] ELSE content[k]]

Forget ==
    /\ \E forgotten \in SUBSET Keys : content' = After(forgotten)
    /\ UNCHANGED saved

Put(k, v) ==
    /\ \E forgotten \in SUBSET Keys : content' = [After(forgotten) EXCEPT ![k] = v]
    /\ saved' \in {saved, [saved EXCEPT ![k] = v]}

Next == Forget \/ \E k \in Keys, v \in Values : Put(k, v)

Spec == Init /\ [][Next]_vars
=============================================================================
