-------------------------------- MODULE Map ---------------------------------
(***************************************************************************)
(* The map of map.cc: a std::multimap behind a C interface, the same for   *)
(* both types of keys, with iterators that are objects the caller deletes. *)
(* A pair is known by its number; an iterator object is where it stands: a *)
(* number of a pair, 0 for the end, or "deleted".                          *)
(***************************************************************************)
EXTENDS Naturals, Sequences, FiniteSets, SequencesExt

CONSTANTS Keys,         \* keys, numbers
          MaxPairs,     \* bound: pairs inserted in a behaviour
          Iterators     \* bound: iterator objects in existence at once

VARIABLES
    mmap,       \* the pairs in the order of the map
    inserted,   \* pairs inserted so far
    freed,      \* how often the data of each pair was freed
    iter,       \* the iterator objects
    held        \* the iterators the caller may use

vars == <<mmap, inserted, freed, iter, held>>

Deleted == MaxPairs + 1

Init == /\ mmap = <<>> /\ inserted = 0
        /\ freed = [n \in 1..MaxPairs |-> 0]
        /\ iter = [i \in Iterators |-> Deleted] /\ held = {}

NewIterator(at, i) == iter[i] = Deleted /\ iter' = [iter EXCEPT ![i] = at] /\ held' = held \cup {i}

Where(n) == SelectInSeq(mmap, LAMBDA p : p.n = n)

\* The pair after n, 0 at the end.
After(n) == IF Where(n) = Len(mmap) THEN 0 ELSE mmap[Where(n) + 1].n

bctbx_map_begin == IF mmap = <<>> THEN 0 ELSE mmap[1].n

\* A new pair goes behind those of its key (std::multimap::insert); the pair
\* of the caller is deleted, the map has a copy.
InsertedIn(s, k) ==
    LET i == SelectInSeq(s, LAMBDA p : p.key > k)
        p == [key |-> k, n |-> inserted + 1]
    IN  IF i = 0 THEN Append(s, p) ELSE InsertAt(s, i, p)

bctbx_map_insert_and_delete ==
    /\ inserted < MaxPairs
    /\ \E k \in Keys : mmap' = InsertedIn(mmap, k)
    /\ inserted' = inserted + 1
    /\ \/ UNCHANGED <<iter, held>>
       \/ \E i \in Iterators : NewIterator(inserted + 1, i)
    /\ UNCHANGED freed

\* Mutant: the iterator is not moved before its pair is erased.
erase_in_place ==
    \E i \in held :
        /\ iter[i] # 0
        /\ mmap' = RemoveAt(mmap, Where(iter[i]))
        /\ held' = {j \in held : j = i \/ iter[j] # iter[i]}
        /\ UNCHANGED <<inserted, freed, iter>>

\* The iterator moves on and stays valid; others at that pair no longer are.
bctbx_map_erase ==
    \E i \in held :
        /\ iter[i] # 0
        /\ mmap' = RemoveAt(mmap, Where(iter[i]))
        /\ iter' = [iter EXCEPT ![i] = After(iter[i])]
        /\ held' = {j \in held : j = i \/ iter[j] # iter[i]}
        /\ UNCHANGED <<inserted, freed>>

bctbx_map_find_key ==
    /\ \E i \in Iterators, k \in Keys :
          LET at == SelectInSeq(mmap, LAMBDA p : p.key = k)
          IN  NewIterator(IF at = 0 THEN 0 ELSE mmap[at].n, i)
    /\ UNCHANGED <<mmap, inserted, freed>>

\* The first pair whose data the function of the caller accepts; when there is
\* none NULL is returned, and the iterator of the loop is not deleted.
bctbx_map_find_custom ==
    /\ \E i \in Iterators, D \in SUBSET (1..MaxPairs) :
          LET at == SelectInSeq(mmap, LAMBDA p : p.n \in D)
          IN  /\ iter[i] = Deleted
              /\ iter' = [iter EXCEPT ![i] = IF at = 0 THEN 0 ELSE mmap[at].n]
              /\ held' = IF at = 0 THEN held ELSE held \cup {i}
    /\ UNCHANGED <<mmap, inserted, freed>>

bctbx_map_begin_or_end ==
    /\ \E i \in Iterators, at \in {bctbx_map_begin, 0} : NewIterator(at, i)
    /\ UNCHANGED <<mmap, inserted, freed>>

bctbx_iterator_get_next ==
    /\ \E i \in held : iter[i] # 0 /\ iter' = [iter EXCEPT ![i] = After(iter[i])]
    /\ UNCHANGED <<mmap, inserted, freed, held>>

\* get_next moves its argument and returns it, so that what
\* bctbx_iterator_get_next_and_delete returns is the iterator it has deleted:
\* it is no longer one the caller may use.
bctbx_iterator_get_next_and_delete ==
    /\ \E i \in held : /\ iter[i] # 0
                       /\ iter' = [iter EXCEPT ![i] = Deleted] /\ held' = held \ {i}
    /\ UNCHANGED <<mmap, inserted, freed>>

bctbx_iterator_delete ==
    /\ \E i \in held : iter' = [iter EXCEPT ![i] = Deleted] /\ held' = held \ {i}
    /\ UNCHANGED <<mmap, inserted, freed>>

\* The loop frees the data of each pair, then the map goes; here an empty one
\* takes its place.
bctbx_mmap_delete_with_data ==
    /\ freed' = [n \in DOMAIN freed |-> freed[n] + Cardinality({i \in DOMAIN mmap : mmap[i].n = n})]
    /\ mmap' = <<>>
    /\ held' = {i \in held : iter[i] = 0}
    /\ UNCHANGED <<inserted, iter>>

Next == \/ bctbx_map_insert_and_delete \/ bctbx_map_erase \/ bctbx_map_find_key \/ bctbx_map_find_custom
        \/ bctbx_map_begin_or_end \/ bctbx_iterator_get_next \/ bctbx_iterator_get_next_and_delete
        \/ bctbx_iterator_delete \/ bctbx_mmap_delete_with_data
=============================================================================
