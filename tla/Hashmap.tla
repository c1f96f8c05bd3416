------------------------------- MODULE Hashmap -------------------------------
(***************************************************************************)
(* The containers of model/c-skeleton/src/lcthw: DArray (darray.c), an      *)
(* array that grows when the last place is taken and shrinks when elements  *)
(* are popped, and Hashmap (hashmap.c), an array of buckets, each NULL or a *)
(* DArray of nodes.                                                         *)
(*                                                                         *)
(* A DArray is the record of its elements, of max, the places it believes   *)
(* to have, and of size, those that are allocated; its end is the number of *)
(* elements.  Whatever allocates memory has several outcomes, and ok tells  *)
(* which of them are successes.                                             *)
(***************************************************************************)
EXTENDS Integers, Sequences, SequencesExt

CONSTANTS
    DEFAULT_NUMBER_OF_BUCKETS,   \* initial places of a bucket
    DEFAULT_EXPAND_RATE,
    BUCKETS_LEN,
    NULL

ASSUME HashmapAssumption ==
    /\ DEFAULT_NUMBER_OF_BUCKETS \in Nat \ {0} /\ DEFAULT_EXPAND_RATE \in Nat \ {0}
    /\ BUCKETS_LEN \in Nat \ {0}

-----------------------------------------------------------------------------
(* darray.c *)

DArray_create(initial_max) == [contents |-> << >>, max |-> initial_max, size |-> initial_max]
DArray_end(array) == Len(array.contents)

\* max is set before realloc, and stays when it fails.
DArray_resize(array, newsize) ==
    {[ok |-> TRUE, array |-> [array EXCEPT !.max = newsize, !.size = newsize]],
     [ok |-> FALSE, array |-> [array EXCEPT !.max = newsize]]}

DArray_expand(array) == DArray_resize(array, array.max + DEFAULT_EXPAND_RATE)

DArray_contract(array) ==
    DArray_resize(array, 1 + (IF DArray_end(array) < DEFAULT_EXPAND_RATE
                              THEN DEFAULT_EXPAND_RATE ELSE DArray_end(array)))

DArray_push(array, el) ==
    LET pushed == [array EXCEPT !.contents = Append(@, el)]
    IN IF DArray_end(pushed) >= pushed.max THEN DArray_expand(pushed)
       ELSE {[ok |-> TRUE, array |-> pushed]}

\* Nobody looks at DArray_contract's result.
DArray_pop(array) ==
    LET popped == [array EXCEPT !.contents = Front(@)]
        n == DArray_end(popped)
    IN IF n > DEFAULT_EXPAND_RATE /\ n % DEFAULT_EXPAND_RATE # 0
       THEN {outcome.array : outcome \in DArray_contract(popped)} ELSE {popped}

-----------------------------------------------------------------------------
(* hashmap.c; hash is the key's value of map->hash *)

Hashmap_create == [bucket_n \in 0 .. BUCKETS_LEN - 1 |-> NULL]

Hashmap_find_bucket(map, hash, create) ==
    LET bucket == map[hash % BUCKETS_LEN]
    IN IF bucket = NULL /\ create THEN DArray_create(DEFAULT_NUMBER_OF_BUCKETS) ELSE bucket

\* A key that is there already is not replaced: the new node comes after it.  It fails
\* when there is no memory for the bucket or for the node, for which a bucket has been made;
\* that DArray_push could not make room for the next node goes unnoticed.
Hashmap_set(map, hash, key, data) ==
    LET b == hash % BUCKETS_LEN
        found == [map EXCEPT ![b] = Hashmap_find_bucket(map, hash, TRUE)]
        node == [hash |-> hash, key |-> key, data |-> data]
    IN {[ok |-> TRUE, oom |-> ~push.ok, map |-> [map EXCEPT ![b] = push.array]] :
            push \in DArray_push(found[b], node)}
       \cup {[ok |-> FALSE, oom |-> TRUE, map |-> m] : m \in {found, map}}

\* What Hashmap_traverse visits.
Hashmap_traverse(map) ==
    UNION {IF map[b] = NULL THEN {} ELSE ToSet(map[b].contents) : b \in 0 .. BUCKETS_LEN - 1}
Keys(map) == {node.key : node \in Hashmap_traverse(map)}

\* The places of the nodes that match; equal are the keys that map->compare finds equal
\* to the one asked for.
Hashmap_nodes(map, hash, equal) ==
    LET bucket == Hashmap_find_bucket(map, hash, FALSE)
    IN IF bucket = NULL THEN {}
       ELSE {i \in 1 .. DArray_end(bucket) :
                bucket.contents[i].hash = hash /\ bucket.contents[i].key \in equal}

\* Hashmap_get_node: the first of them, 0 if there is none.
Hashmap_get_node(map, hash, equal) ==
    LET nodes == Hashmap_nodes(map, hash, equal)
    IN IF nodes = {} THEN 0 ELSE CHOOSE i \in nodes : \A j \in nodes : i <= j

Hashmap_get(map, hash, equal) ==
    LET i == Hashmap_get_node(map, hash, equal)
    IN IF i = 0 THEN NULL ELSE map[hash % BUCKETS_LEN].contents[i].data

\* The last node of the bucket takes the place of the deleted one.
Without_NoSwap(bucket, i) == DArray_pop(bucket)
Without(bucket, i) ==
    LET ending == DArray_end(bucket)
    IN {IF i = ending THEN popped ELSE [popped EXCEPT !.contents[i] = bucket.contents[ending]] :
            popped \in DArray_pop(bucket)}

Hashmap_delete(map, hash, equal) ==
    LET i == Hashmap_get_node(map, hash, equal)
        b == hash % BUCKETS_LEN
    IN IF i = 0 THEN {map}
       ELSE {[map EXCEPT ![b] = bucket] : bucket \in Without(map[b], i)}
=============================================================================
