------------------------------ MODULE Sha1Pool ------------------------------
(***************************************************************************)
(* The pool of per-CPU SHA-1 descriptors (model/kernel_hash/sha.c).  The   *)
(* first tcp_alloc_sha1sig_pool builds it outside the lock and publishes   *)
(* it, later ones share it; every hash computation takes a reference       *)
(* for as long as it uses the descriptor; the last tcp_free_sha1sig_pool   *)
(* unpublishes the pool and frees it outside the lock.                     *)
(*                                                                         *)
(* Owners allocate in minit and free in mexit.  An owner whose allocation  *)
(* failed frees twice what it never got: at minit's label                  *)
(* err_sha1siq_pool, and in mexit, for minit returns 0 (main.c:99, 114).   *)
(* Each such stray free takes one more off the unsigned user count, which  *)
(* wraps.  wspack and wspack_send have one owner each, the code is written *)
(* for several.  Hashers are the threads that call tcp_v4_sha1_hash_data,  *)
(* one per CPU, since it runs between get_cpu and put_cpu.                 *)
(***************************************************************************)
EXTENDS Integers, FiniteSets

CONSTANTS Owners, Hashers,
          Pools,   \* pool objects
          None,
          Word     \* the user count is an unsigned long, modulo Word

ASSUME PoolAssumption ==
    /\ None \notin Pools
    /\ IsFiniteSet(Owners) /\ IsFiniteSet(Hashers) /\ Owners \cap Hashers = {}
    /\ Word \in Nat /\ Word > 1
    /\ Cardinality(Owners) + Cardinality(Hashers) < Word /\ 2 * Cardinality(Owners) < Word

VARIABLES
    tcp_sha1sig_pool, tcp_sha1sig_users,
    live,          \* pool objects that are allocated
    opc, obuf,     \* each owner: where it is, the pool in its hands
    hpc, hbuf,     \* each hasher likewise
    stray          \* how often each owner has freed without a reference

vars == <<tcp_sha1sig_pool, tcp_sha1sig_users, live, opc, obuf, hpc, hbuf, stray>>
ownerVars  == <<opc, obuf, stray>>
hasherVars == <<hpc, hbuf>>

\* ++ and -- of the unsigned counter.
Incremented == IF tcp_sha1sig_users = Word - 1 THEN 0 ELSE tcp_sha1sig_users + 1
Decremented == IF tcp_sha1sig_users = 0 THEN Word - 1 ELSE tcp_sha1sig_users - 1

-----------------------------------------------------------------------------
(* tcp_alloc_sha1sig_pool *)

\* First section: become the builder, share the pool, or go round again while somebody
\* else builds it.
AllocEnter(o) ==
    /\ opc[o] \in {"out", "retry"}
    /\ \/ /\ tcp_sha1sig_users = 0
          /\ tcp_sha1sig_users' = Incremented
          /\ opc' = [opc EXCEPT ![o] = "build"]
       \/ /\ tcp_sha1sig_users # 0 /\ tcp_sha1sig_pool = None
          /\ opc' = [opc EXCEPT ![o] = "retry"]
          /\ UNCHANGED tcp_sha1sig_users
       \/ /\ tcp_sha1sig_users # 0 /\ tcp_sha1sig_pool # None
          /\ tcp_sha1sig_users' = Incremented
          /\ opc' = [opc EXCEPT ![o] = "has"]
    /\ UNCHANGED <<tcp_sha1sig_pool, live, obuf, stray, hasherVars>>

\* __tcp_alloc_sha1sig_pool; a partly built pool is freed again before it returns NULL.
Build(o) ==
    /\ opc[o] = "build"
    /\ \/ \E p \in Pools \ live :
            /\ live' = live \cup {p}
            /\ obuf' = [obuf EXCEPT ![o] = p]
            /\ opc' = [opc EXCEPT ![o] = "publish"]
       \/ opc' = [opc EXCEPT ![o] = "failed"] /\ UNCHANGED <<live, obuf>>
    /\ UNCHANGED <<tcp_sha1sig_pool, tcp_sha1sig_users, stray, hasherVars>>

\* Second section after a failure: the builder's reference is dropped, and minit goes to
\* its label.
BuildFailed_KeepsUser(o) ==
    /\ opc[o] = "failed"
    /\ opc' = [opc EXCEPT ![o] = "owes"]
    /\ UNCHANGED <<tcp_sha1sig_pool, tcp_sha1sig_users, live, obuf, stray, hasherVars>>
BuildFailed(o) ==
    /\ opc[o] = "failed"
    /\ tcp_sha1sig_users' = Decremented
    /\ opc' = [opc EXCEPT ![o] = "owes"]
    /\ UNCHANGED <<tcp_sha1sig_pool, live, obuf, stray, hasherVars>>

\* Second section: publish, or throw the new pool away.
Publish(o) ==
    /\ opc[o] = "publish"
    /\ IF tcp_sha1sig_pool # None
       THEN live' = live \ {obuf[o]} /\ UNCHANGED tcp_sha1sig_pool
       ELSE tcp_sha1sig_pool' = obuf[o] /\ UNCHANGED live
    /\ obuf' = [obuf EXCEPT ![o] = None]
    /\ opc' = [opc EXCEPT ![o] = "has"]
    /\ UNCHANGED <<tcp_sha1sig_users, stray, hasherVars>>

-----------------------------------------------------------------------------
(* tcp_free_sha1sig_pool *)

\* The section under the lock: what remains published, and what the caller must free.
LastUser_Early == tcp_sha1sig_users <= 2
LastUser == tcp_sha1sig_users = 1
Unpublished_Kept == tcp_sha1sig_pool
Unpublished == IF LastUser THEN None ELSE tcp_sha1sig_pool
ToFree_Dropped == None
ToFree == IF LastUser THEN tcp_sha1sig_pool ELSE None

\* When an owner calls it: in mexit when it has the pool; at minit's label ("owes") and
\* then in mexit ("off") when its allocation failed.
CallsFree(o) == opc[o] \in {"has", "owes", "off"}

Free(o) ==
    /\ CallsFree(o)
    /\ tcp_sha1sig_users' = Decremented
    /\ tcp_sha1sig_pool' = Unpublished
    /\ obuf' = [obuf EXCEPT ![o] = ToFree]
    /\ stray' = [stray EXCEPT ![o] = IF opc[o] = "has" THEN @ ELSE @ + 1]
    /\ opc' = [opc EXCEPT ![o] = "destroy"]
    /\ UNCHANGED <<live, hasherVars>>

\* __tcp_free_sha1sig_pool, outside the lock; minit's label leaves a module that is loaded.
Destroy(o) ==
    /\ opc[o] = "destroy"
    /\ live' = live \ {obuf[o]}
    /\ obuf' = [obuf EXCEPT ![o] = None]
    /\ opc' = [opc EXCEPT ![o] = IF stray[o] = 1 THEN "off" ELSE "gone"]
    /\ UNCHANGED <<tcp_sha1sig_pool, tcp_sha1sig_users, stray, hasherVars>>

-----------------------------------------------------------------------------
(* tcp_v4_sha1_hash_data *)

\* tcp_get_sha1sig_pool: without a pool the digest is zeroed and nothing is put.
Get(h) ==
    /\ hpc[h] = "idle" /\ tcp_sha1sig_pool # None
    /\ tcp_sha1sig_users' = Incremented
    /\ hbuf' = [hbuf EXCEPT ![h] = tcp_sha1sig_pool]
    /\ hpc' = [hpc EXCEPT ![h] = "hash"]
    /\ UNCHANGED <<tcp_sha1sig_pool, live, ownerVars>>

\* crypto_hash_init, update and final, which may fail; both ways end in the put.
Put(h) ==
    /\ hpc[h] = "hash"
    /\ tcp_sha1sig_users' = Decremented
    /\ tcp_sha1sig_pool' = Unpublished
    /\ hbuf' = [hbuf EXCEPT ![h] = ToFree]
    /\ hpc' = [hpc EXCEPT ![h] = "destroy"]
    /\ UNCHANGED <<live, ownerVars>>

PutDestroy(h) ==
    /\ hpc[h] = "destroy"
    /\ live' = live \ {hbuf[h]}
    /\ hbuf' = [hbuf EXCEPT ![h] = None]
    /\ hpc' = [hpc EXCEPT ![h] = "idle"]
    /\ UNCHANGED <<tcp_sha1sig_pool, tcp_sha1sig_users, ownerVars>>

-----------------------------------------------------------------------------
Init ==
    /\ tcp_sha1sig_pool = None /\ tcp_sha1sig_users = 0 /\ live = {}
    /\ opc = [o \in Owners |-> "out"] /\ obuf = [o \in Owners |-> None]
    /\ hpc = [h \in Hashers |-> "idle"] /\ hbuf = [h \in Hashers |-> None]
    /\ stray = [o \in Owners |-> 0]

Next ==
    \/ \E o \in Owners : \/ AllocEnter(o) \/ Build(o) \/ BuildFailed(o) \/ Publish(o)
                         \/ Free(o) \/ Destroy(o)
    \/ \E h \in Hashers : Get(h) \/ Put(h) \/ PutDestroy(h)

Spec == Init /\ [][Next]_vars

-----------------------------------------------------------------------------
(* Properties *)

\* Every variable keeps its type.
TypeOK ==
    /\ tcp_sha1sig_pool \in Pools \cup {None} /\ tcp_sha1sig_users \in 0..(Word - 1)
    /\ live \in SUBSET Pools
    /\ opc \in [Owners -> {"out", "retry", "build", "failed", "publish", "has", "destroy",
                           "owes", "off", "gone"}]
    /\ obuf \in [Owners -> Pools \cup {None}] /\ stray \in [Owners -> 0..2]
    /\ hpc \in [Hashers -> {"idle", "hash", "destroy"}] /\ hbuf \in [Hashers -> Pools \cup {None}]

\* Who has a reference: the owners from the first section on, the hashers from get to put.
Building == {"build", "failed", "publish"}
Users == {o \in Owners : opc[o] \in Building \cup {"has"}} \cup {h \in Hashers : hpc[h] = "hash"}

\* How many frees came from owners without a reference.
Once  == {o \in Owners : stray[o] > 0}
Twice == {o \in Owners : stray[o] = 2}
Strays == Cardinality(Once) + Cardinality(Twice)

\* tcp_sha1sig_users is the number of references less the number of stray frees, modulo
\* the size of an unsigned long: an allocation that failed leaves it exact, the frees of
\* minit's label and of mexit that follow are the only thing that falsifies it.
UsersCounted ==
    LET n == Cardinality(Users) - Strays
    IN  tcp_sha1sig_users = IF n >= 0 THEN n ELSE n + Word

\* What the count is good for: nobody has freed without a reference, or somebody has but
\* only one owner ever called tcp_alloc_sha1sig_pool, as in both modules.
Sound ==
    \/ \A o \in Owners : stray[o] = 0
    \/ \E o \in Owners : \A u \in Owners \ {o} : opc[u] = "out"

\* A thread that computes a hash, or owns the pool, has the published pool, and it is
\* allocated: it is not freed under anybody's hands, be the count wrapped or not, as long
\* as no second owner shares a count that has wrapped.
Alive ==
    /\ tcp_sha1sig_pool # None => tcp_sha1sig_pool \in live
    /\ \A h \in Hashers : hpc[h] = "hash" => hbuf[h] = tcp_sha1sig_pool /\ hbuf[h] \in live
    /\ \A o \in Owners : opc[o] = "has" => tcp_sha1sig_pool # None
PoolAlive == Sound => Alive

\* The pool that a thread alone has in its hands, about to publish or to free it.
Threads == Owners \cup Hashers
Hand(t) == IF t \in Owners THEN obuf[t]
           ELSE IF hpc[t] = "destroy" THEN hbuf[t] ELSE None

\* Every allocated pool is published or in the hands of exactly one thread: none is
\* leaked, none is freed twice, whatever the count says.
NoPoolLeaked ==
    /\ \A p \in Pools : p \in live <=> p = tcp_sha1sig_pool \/ \E t \in Threads : Hand(t) = p
    /\ \A t \in Threads : Hand(t) # None =>
            /\ Hand(t) # tcp_sha1sig_pool
            /\ \A u \in Threads \ {t} : Hand(u) # Hand(t)

\* The pool "has already been assigned" never when a builder comes to publish its own, as
\* long as no second owner shares a count that has wrapped.
NeverAssignedTwice ==
    Sound => \A o \in Owners : opc[o] = "publish" => tcp_sha1sig_pool = None

\* An allocation goes round its retry loop only while another owner is building the
\* pool, so it waits for somebody who makes progress; or else another owner's stray frees
\* have wrapped the count, and then it may wait for nobody.
RetryJustified ==
    [][\A o \in Owners : AllocEnter(o) /\ opc'[o] = "retry" =>
            \/ \E u \in Owners \ {o} : opc[u] \in Building
            \/ \E u \in Owners \ {o} : stray[u] > 0]_vars

\* The only owner that ever allocated has failed.
FailedAlone(o) ==
    /\ opc[o] = "owes" \/ stray[o] > 0
    /\ \A u \in Owners \ {o} : opc[u] = "out"

\* Who builds: at most one owner, while no pool is published; a published pool has a user.
\* When the only owner has failed, there is none.
OneBuilder ==
    /\ \A o \in Owners : opc[o] \in Building =>
            tcp_sha1sig_pool = None /\ \A u \in Owners \ {o} : opc[u] \notin Building
    /\ tcp_sha1sig_pool # None => Users # {}
    /\ \A o \in Owners : FailedAlone(o) => tcp_sha1sig_pool = None

\* What is in an owner's hands, and how its stray frees follow from where it is.
OwnerOK ==
    \A o \in Owners :
        /\ opc[o] = "publish" => obuf[o] # None
        /\ opc[o] \notin {"publish", "destroy"} => obuf[o] = None
        /\ opc[o] \in {"out", "retry", "has", "owes"} \cup Building => stray[o] = 0
        /\ opc[o] = "off" => stray[o] = 1

\* The inductive invariant.
PoolInv == TypeOK /\ UsersCounted /\ NoPoolLeaked /\ OwnerOK /\ (Sound => Alive /\ OneBuilder)
=============================================================================
