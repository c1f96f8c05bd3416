------------------------------ MODULE Lifecycle ------------------------------
(***************************************************************************)
(* Loading and unloading wspack (model/kernel_hash/main.c) or the sender    *)
(* wspack_send (model/send_module/main.c): minit acquires its resources one *)
(* after the other, and a failure jumps into a chain of labels that gives   *)
(* back what was acquired before; mexit gives back all.                     *)
(*                                                                         *)
(* Each resource has a static pointer (or list node) in the module, which   *)
(* the release functions look at.  Releasing or using what the pointer      *)
(* does not validly denote ends in "crashed".  What the kernel holds for    *)
(* the module is kept apart from the pointers, so that leaks are visible.   *)
(* Timers, handlers and probes that run meanwhile are the business of       *)
(* ChunkStore, SkbPipeline and Send.                                        *)
(***************************************************************************)
EXTENDS Integers, Sequences, SequencesExt

CONSTANTS
    NumCpus,     \* num_online_cpus()
    NumCaches,   \* the caches of alloc_slab, in wspack and in wspack_send
    Word         \* ULONG_MAX + 1

ASSUME LifecycleAssumption ==
    NumCpus \in Nat \ {0} /\ NumCaches \in [{"wspack", "send"} -> Nat \ {0}] /\ Word \in Nat \ {0, 1}

VARIABLES
    module,   \* the module that is loaded
    pc,       \* "init", "unwind", "loaded", "exit", or how it ended
    next,     \* index of the resource minit acquires next
    todo,     \* what is left of a chain of releases
    ptr,      \* the module's pointer to each resource
    held,     \* resources the kernel holds for the module
    users,    \* tcp_sha1sig_users
    err,      \* minit's err is negative
    failed    \* resources that could not be acquired

vars == <<module, pc, next, todo, ptr, held, users, err, failed>>

-----------------------------------------------------------------------------
(* Resources *)

One(name)  == <<name, 0>>
File(c)    == <<"reserve_file", c>>
Cache(n)   == <<"slab", n>>
Bitmap(c)  == <<"bitmap", c>>

Files   == [c \in 1 .. NumCpus |-> File(c)]
Caches_wspack == [n \in 1 .. NumCaches["wspack"] |-> Cache(n)]
Caches_send   == [n \in 1 .. NumCaches["send"] |-> Cache(n)]
Caches  == IF module = "wspack" THEN Caches_wspack ELSE Caches_send
Bitmaps == [c \in 1 .. NumCpus |-> Bitmap(c)]

\* initial_hash_table_cache; "timers" stands for all it sets up after the last
\* allocation: list heads, locks, counters and timers.
Table ==
    (IF module = "wspack" THEN <<One("writeread_wq")>> ELSE << >>)
        \o <<One("hash_tab"), One("bucket_clear"), One("hash_cachep"), One("timers")>>

\* The order in which minit acquires them.
AllocOrder_wspack ==
    <<One("skb_wq")>> \o Files \o Caches \o Bitmaps \o Table
        \o <<One("nf_out"), One("nf_in"), One("sha1"), One("jprobe")>>
AllocOrder_send == Caches \o Table \o <<One("nf_out"), One("sha1")>>
AllocOrder == IF module = "wspack" THEN AllocOrder_wspack ELSE AllocOrder_send

Resources == ToSet(AllocOrder)

\* release_hash_table_cache: hash_flush walks the table first; bucket_clear is not freed.
ReleaseTable ==
    <<One("hash_flush"), One("timers")>>
        \o (IF module = "wspack" THEN <<One("writeread_wq")>> ELSE << >>)
        \o <<One("hash_cachep"), One("hash_tab")>>

\* The chain of labels, which fall through; err_alloc_file, err_bitmap and err_nf_reg_in
\* are labels of wspack only.
err_alloc_file == Files
err_alloc_slab == Caches \o (IF module = "wspack" THEN err_alloc_file ELSE << >>)
err_bitmap_SkipSlab == Bitmaps \o err_alloc_file
err_bitmap == Bitmaps \o err_alloc_slab
err_hash_table_cache ==
    ReleaseTable \o (IF module = "wspack" THEN err_bitmap ELSE err_alloc_slab)
err_nf_reg_out == <<One("nf_out")>> \o err_hash_table_cache
err_nf_reg_in == <<One("nf_in")>> \o err_nf_reg_out
err_sha1siq_pool ==
    <<One("sha1")>> \o (IF module = "wspack" THEN err_nf_reg_in ELSE err_nf_reg_out)

\* The label that minit jumps to when r fails; "out" releases nothing.
Unwind(r) ==
    CASE r[1] \in {"skb_wq", "jprobe"} -> << >>
      [] r[1] = "reserve_file" -> err_alloc_file
      [] r[1] = "slab"         -> err_alloc_slab
      [] r[1] = "bitmap"       -> err_bitmap
      [] r[1] = "nf_out"       -> err_nf_reg_out
      [] r[1] = "nf_in"        -> err_nf_reg_in
      [] r[1] = "sha1"         -> err_sha1siq_pool
      [] OTHER                 -> err_hash_table_cache

\* mexit's order.
ExitOrder_wspack ==
    <<One("nf_in"), One("nf_out"), One("jprobe"), One("skb_wq")>>
        \o ReleaseTable \o Files \o Caches \o Bitmaps \o <<One("sha1")>>
ExitOrder_send == <<One("nf_out")>> \o ReleaseTable \o Caches \o <<One("sha1")>>
ExitOrder == IF module = "wspack" THEN ExitOrder_wspack ELSE ExitOrder_send

-----------------------------------------------------------------------------
(* minit *)

Acquire ==
    /\ pc = "init" /\ next <= Len(AllocOrder)
    /\ LET r == AllocOrder[next] IN
       /\ ptr' = [ptr EXCEPT ![r] = "valid"]
       /\ held' = held \cup {r}
       /\ users' = IF r = One("sha1") THEN users + 1 ELSE users
    /\ next' = next + 1
    /\ UNCHANGED <<module, pc, todo, err, failed>>

\* All but the set-up at the end of initial_hash_table_cache may fail.  filp_open leaves
\* an error in the pointer; without hash_cachep hash_tab is freed at once; err is not
\* assigned when the pool cannot be allocated.
AcquireFails ==
    /\ pc = "init" /\ next <= Len(AllocOrder)
    /\ LET r == AllocOrder[next]
           gone == IF r = One("hash_cachep") THEN {One("hash_tab")} ELSE {}
       IN
       /\ r # One("timers")
       /\ ptr' = [x \in Resources |-> IF x \in gone THEN "stale"
                                      ELSE IF x = r /\ r[1] = "reserve_file" THEN "error"
                                      ELSE ptr[x]]
       /\ held' = held \ gone
       /\ failed' = failed \cup {r}
       /\ err' = (r # One("sha1"))
       /\ todo' = Unwind(r)
    /\ pc' = "unwind"
    /\ UNCHANGED <<module, next, users>>

InitReturns ==
    /\ pc = "init" /\ next > Len(AllocOrder)
    /\ pc' = "loaded"
    /\ UNCHANGED <<module, next, todo, ptr, held, users, err, failed>>

-----------------------------------------------------------------------------
(* The release functions *)

\* free_slab and free_bitmap skip a null pointer, free_percpu_file skips an error,
\* mexit skips a probe that is not registered.
Skipped_Never(r) == FALSE
Skipped(r) ==
    \/ r[1] \in {"slab", "bitmap"} /\ ptr[r] = "null"
    \/ r[1] = "reserve_file" /\ ptr[r] = "error"
    \/ r = One("jprobe") /\ ptr[r] # "valid"

\* hash_flush needs the table and its list heads.
Usable(r) ==
    IF r = One("hash_flush") THEN ptr[One("hash_tab")] = "valid" /\ ptr[One("timers")] = "valid"
    ELSE ptr[r] = "valid"

\* --tcp_sha1sig_users, an unsigned long.
OneUserLess == (users + Word - 1) % Word

Release ==
    /\ pc \in {"unwind", "exit"} /\ todo # << >>
    /\ todo' = Tail(todo)
    /\ LET r == Head(todo) IN
       \/ /\ r = One("sha1")
          /\ users' = OneUserLess
          /\ held' = IF users' = 0 THEN held \ {r} ELSE held
          /\ ptr' = IF users' = 0 THEN [ptr EXCEPT ![r] = "null"] ELSE ptr
          /\ UNCHANGED pc
       \/ /\ r # One("sha1") /\ r # One("hash_flush") /\ Skipped(r)
          /\ UNCHANGED <<pc, ptr, held, users>>
       \/ /\ r = One("hash_flush") /\ Usable(r)
          /\ UNCHANGED <<pc, ptr, held, users>>
       \/ /\ r \notin {One("sha1"), One("hash_flush")} /\ ~Skipped(r) /\ Usable(r)
          /\ ptr' = [ptr EXCEPT ![r] = "stale"]
          /\ held' = held \ {r}
          /\ UNCHANGED <<pc, users>>
       \/ /\ r # One("sha1") /\ (r # One("hash_flush") => ~Skipped(r)) /\ ~Usable(r)
          /\ pc' = "crashed"
          /\ UNCHANGED <<ptr, held, users>>
    /\ UNCHANGED <<module, next, err, failed>>

\* minit returns err after the labels; an err of zero means that the module is loaded.
UnwindReturns ==
    /\ pc = "unwind" /\ todo = << >>
    /\ pc' = IF err THEN "failed" ELSE "loaded"
    /\ UNCHANGED <<module, next, todo, ptr, held, users, err, failed>>

-----------------------------------------------------------------------------
(* mexit *)

Exit == ExitOrder

Unload ==
    /\ pc = "loaded"
    /\ pc' = "exit" /\ todo' = Exit
    /\ UNCHANGED <<module, next, ptr, held, users, err, failed>>

ExitReturns ==
    /\ pc = "exit" /\ todo = << >>
    /\ pc' = "unloaded"
    /\ UNCHANGED <<module, next, todo, ptr, held, users, err, failed>>

Ended == pc \in {"failed", "unloaded", "crashed"} /\ UNCHANGED vars

-----------------------------------------------------------------------------
Init ==
    /\ module \in {"wspack", "send"}
    /\ pc = "init" /\ next = 1 /\ todo = << >>
    /\ ptr = [r \in Resources |-> "null"] /\ held = {} /\ users = 0
    /\ err = FALSE /\ failed = {}

Next ==
    \/ Acquire \/ AcquireFails \/ InitReturns
    \/ Release \/ UnwindReturns
    \/ Unload \/ ExitReturns
    \/ Ended

Spec == Init /\ [][Next]_vars

-----------------------------------------------------------------------------
(* Properties *)

\* Every variable keeps its type.
TypeOK ==
    /\ module \in {"wspack", "send"}
    /\ pc \in {"init", "unwind", "loaded", "exit", "failed", "unloaded", "crashed"}
    /\ next \in 1 .. Len(AllocOrder) + 1
    /\ todo \in Seq(Resources \cup {One("hash_flush")})
    /\ ptr \in [Resources -> {"null", "valid", "error", "stale"}]
    /\ held \in SUBSET Resources /\ users \in 0 .. Word - 1
    /\ err \in BOOLEAN /\ failed \in SUBSET Resources

Name(S) == {r[1] : r \in S}

\* Failures after which the labels or mexit release what is not there.
Unsafe(F) ==
    \/ Name(F) \cap {"writeread_wq", "hash_tab", "bucket_clear", "hash_cachep",
                      "nf_out", "nf_in", "sha1"} # {}
    \/ \E c \in 1 .. NumCpus - 1 : File(c) \in F

\* Load and unload release nothing that is not there, if no allocation fails or the
\* failure is that of the work queue skb_wq, the last file, a slab cache, a bitmap or the probe.
NoBadRelease == pc = "crashed" => Unsafe(failed)

\* What is left behind.  No timer, hook or probe can call into the module once it is gone,
\* except after a failure to register the probe; an unload leaves nothing but
\* bucket_clear, a failure to load up to the bitmaps nothing but the work queue skb_wq.
Leftovers ==
    /\ pc = "unloaded" => held \subseteq {One("bucket_clear")}
    /\ pc = "failed" /\ One("jprobe") \notin failed =>
            Name(held) \cap {"timers", "nf_in", "nf_out", "jprobe", "writeread_wq"} = {}
    /\ pc = "failed" /\ Name(failed) \subseteq {"skb_wq", "reserve_file", "slab", "bitmap"}
            => held \subseteq {One("skb_wq")}

-----------------------------------------------------------------------------
(* The inductive invariant *)

\* Releasing r does no harm.
Harmless(r) == Usable(r) \/ (r # One("hash_flush") /\ Skipped(r))

\* Nothing is released twice, and hash_flush comes before what it walks.
InOrder(x, y) == x # y /\ (y = One("hash_flush") => x \notin {One("hash_tab"), One("timers")})
Proper == \A j, k \in 1 .. Len(todo) : j < k => InOrder(todo[j], todo[k])

\* minit has acquired the resources before next, and no others.
Acquired ==
    pc = "init" =>
        /\ failed = {} /\ todo = << >>
        /\ held = {AllocOrder[k] : k \in 1 .. next - 1}
        /\ \A r \in Resources : ptr[r] \in {"valid", "null"}
        /\ users = IF One("sha1") \in held THEN 1 ELSE 0

\* What is held is still to be released, but for what the code forgets.
Accounted ==
    /\ pc \in {"exit", "unloaded"} => held \subseteq ToSet(todo) \cup {One("bucket_clear")}
    /\ pc \in {"unwind", "failed"} /\ One("jprobe") \notin failed =>
            held \subseteq ToSet(todo) \cup {One("skb_wq"), One("bucket_clear")}
    /\ pc \in {"unwind", "failed"} /\ Name(failed) \subseteq {"skb_wq", "reserve_file", "slab", "bitmap"}
            => One("bucket_clear") \notin held

\* After a failure that the code handles, what is to be released is there.
Safe ==
    /\ pc = "loaded" /\ ~Unsafe(failed) => held = Resources
    /\ pc \in {"unwind", "exit"} /\ ~Unsafe(failed) => \A r \in ToSet(todo) : Harmless(r)

\* minit returns zero if nothing failed, or if it was the pool.
Returned ==
    /\ pc \in {"init", "loaded"} => ~err
    /\ pc = "unwind" => failed # {}
    /\ ~err => failed \in {{}, {One("sha1")}}

LoadInv ==
    /\ TypeOK /\ Proper
    /\ held = {r \in Resources : ptr[r] = "valid"}
    /\ One("sha1") \in held => users = 1
    /\ pc \in {"unloaded", "failed"} => todo = << >>
    /\ Acquired /\ Returned /\ Accounted /\ Safe /\ NoBadRelease
=============================================================================
