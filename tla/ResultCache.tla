------------------------------ MODULE ResultCache ------------------------------
(***************************************************************************)
(* The result cache of the analysis service: an LRU map in memory, bounded *)
(* by the size of its values (L1), over a directory with a file per key    *)
(* (L2).  Its callers all run on the event loop, one call at a time; files *)
(* are replaced atomically, but writing one may fail without notice.       *)
(***************************************************************************)
EXTENDS Naturals, Sequences, SequencesExt

CONSTANTS
    Keys, Values,
    SizeOf,     \* bytes of each value
    MaxBytes,   \* result_cache_mb
    None        \* no value

ASSUME CacheAssumption ==
    /\ SizeOf \in [Values -> Nat \ {0}]
    /\ MaxBytes \in Nat \ {0}
    /\ None \notin Values

VARIABLES
    items,      \* L1, the least recently used first
    bytes,      \* current_bytes
    disk,       \* L2: the file of each key
    older,      \* history: <<x, y>> when y was used after x was last used
    latest,     \* history: the last value accepted for each key
    failed      \* history: keys whose last file could not be written

vars == <<items, bytes, disk, older, latest, failed>>

-----------------------------------------------------------------------------
Item(k, v) == [key |-> k, value |-> v]

Items == [key: Keys, value: Values]

\* Types: among them, that the cache never exceeds its budget.  (_remember_l1)
TypeOK ==
    /\ items \in Seq(Items)
    /\ bytes \in 0 .. MaxBytes
    /\ disk \in [Keys -> Values \cup {None}]
    /\ older \subseteq Keys \X Keys
    /\ latest \in [Keys -> Values \cup {None}]
    /\ failed \subseteq Keys

Init ==
    /\ items = <<>>
    /\ bytes = 0
    /\ disk = [k \in Keys |-> None]
    /\ older = {}
    /\ latest = [k \in Keys |-> None]
    /\ failed = {}

\* The sizes of the items of a sequence, added up from its start.
Total(s) ==
    LET sum[n \in 0 .. Len(s)] == IF n = 0 THEN 0 ELSE sum[n - 1] + SizeOf[s[n].value]
    IN  sum[Len(s)]

\* Where an item of the key is; there is one at most.
At(k) == CHOOSE i \in DOMAIN items : items[i].key = k

InMemory(k) == \E i \in DOMAIN items : items[i].key = k

\* Mutant: the item that is replaced stays.
AllItems(k) == items

Others(k) == IF InMemory(k) THEN RemoveAt(items, At(k)) ELSE items

\* What a get answers: None is a miss.
Lookup(k) == IF InMemory(k) THEN items[At(k)].value ELSE disk[k]

\* From now on k is the key used last.
Used(k) == older' = {p \in older : p[1] # k} \cup ((Keys \ {k}) \X {k})

-----------------------------------------------------------------------------
\* Mutants: nothing is evicted; the size of a replaced value stays counted.
EvictedNever(s, size) == 0
ReplacedUncounted(k) == 0

\* How many of the oldest items go, until the rest fits.
Evicted(s, size) ==
    CHOOSE n \in 0 .. Len(s) :
        /\ size - Total(SubSeq(s, 1, n)) <= MaxBytes
        /\ \A m \in 0 .. n - 1 : size - Total(SubSeq(s, 1, m)) > MaxBytes

Replaced(k) == IF InMemory(k) THEN SizeOf[items[At(k)].value] ELSE 0

Fits(v) == SizeOf[v] <= MaxBytes

\* _remember_l1.
Remember(k, v) ==
    LET added == Append(Others(k), Item(k, v))
        size == bytes - Replaced(k) + SizeOf[v]
        n == Evicted(added, size)
    IN  /\ items' = SubSeq(added, n + 1, Len(added))
        /\ bytes' = size - Total(SubSeq(added, 1, n))

\* Mutant: a hit leaves the order as it is.
TouchNothing(k) == items' = items

\* move_to_end.
Touch(k) == items' = Append(Others(k), items[At(k)])

GetFromMemory(k) ==
    /\ InMemory(k)
    /\ Touch(k)
    /\ Used(k)
    /\ UNCHANGED <<bytes, disk, latest, failed>>

\* Every file fits, since what does not fit is never written.
GetFromDisk(k) ==
    /\ ~InMemory(k)
    /\ disk[k] # None
    /\ Remember(k, disk[k])
    /\ Used(k)
    /\ UNCHANGED <<disk, latest, failed>>

\* Mutant: a file that exists is not written again.
WritesOnce(k, v) ==
    /\ disk' = IF disk[k] = None THEN [disk EXCEPT ![k] = v] ELSE disk
    /\ failed' = failed \ {k}

\* The file is written beside the old one and replaces it, or stays as it was.
Writes(k, v) ==
    \/ /\ disk' = [disk EXCEPT ![k] = v]
       /\ failed' = failed \ {k}
    \/ /\ failed' = failed \cup {k}
       /\ UNCHANGED disk

\* A value too large for the cache is ignored, older values of its key stay.
Put(k, v) ==
    /\ Fits(v)
    /\ Remember(k, v)
    /\ Writes(k, v)
    /\ Used(k)
    /\ latest' = [latest EXCEPT ![k] = v]

\* The process stops and a new one finds the directory.
Restart ==
    /\ items' = <<>>
    /\ bytes' = 0
    /\ older' = {}
    /\ UNCHANGED <<disk, latest, failed>>

Next ==
    \/ \E k \in Keys : GetFromMemory(k) \/ GetFromDisk(k)
    \/ \E k \in Keys, v \in Values : Put(k, v)
    \/ Restart

Spec == Init /\ [][Next]_vars

-----------------------------------------------------------------------------
(* Safety.                                                                 *)

\* The running count is the size of what is kept, through replacements,
\* promotions and evictions.  (_remember_l1)
BytesAreCounted == bytes = Total(items)

\* What is kept is what was used last, in the order of its last use: an item
\* leaves only when every item used before it has left.  (move_to_end, popitem)
KeepsTheMostRecent ==
    /\ \A i, j \in DOMAIN items : i < j => <<items[i].key, items[j].key>> \in older
    /\ \A x, y \in Keys : <<x, y>> \in older /\ InMemory(x) => InMemory(y)

\* Neither eviction nor a restart loses a result or brings an older one back,
\* unless its file could not be written.  (put, get_with_status)
NothingIsForgotten == \A k \in Keys \ failed : Lookup(k) = latest[k]

\* The two levels together are one map that may fall back to its files:
\* promotion, eviction, replacement and restart show as nothing else.
\* (ResultCache as a whole)
Contract == INSTANCE CacheContract WITH
                content <- [k \in Keys |-> Lookup(k)], saved <- disk

ImplementsContract == Contract!Spec
=============================================================================
