--------------------------- MODULE Sha1PoolProofs ---------------------------
(***************************************************************************)
(* Sha1Pool for any number of owners, hashers and pool objects, with the   *)
(* frees of owners whose allocation failed.  The user count is the number  *)
(* of references less those frees, modulo the size of the counter; as      *)
(* long as the count is sound the pool in use is allocated; and no pool    *)
(* is leaked or freed twice in any case.  What makes this inductive is     *)
(* OneBuilder: at most one owner builds a pool at a time, only while none  *)
(* is published, and none is published when the only owner has failed.     *)
(***************************************************************************)
EXTENDS Sha1Pool, FiniteSetTheorems, TLAPS

\* How many users and stray frees there can be.
LEMMA Bounded ==
    ASSUME NEW U, U \subseteq Owners \cup Hashers, NEW A, A \subseteq Owners, NEW B, B \subseteq Owners
    PROVE  /\ IsFiniteSet(U) /\ Cardinality(U) \in Nat /\ Cardinality(U) < Word
           /\ IsFiniteSet(A) /\ Cardinality(A) \in Nat
           /\ IsFiniteSet(B) /\ Cardinality(B) \in Nat
           /\ Cardinality(A) + Cardinality(B) < Word
<1>1. /\ IsFiniteSet(Owners \cup Hashers)
      /\ Cardinality(Owners) \in Nat /\ Cardinality(Hashers) \in Nat
      /\ Cardinality(Owners \cup Hashers) \in Nat
      /\ Cardinality(Owners \cup Hashers) <= Cardinality(Owners) + Cardinality(Hashers)
  <2>1. Owners \cap Hashers = {} /\ Cardinality(Owners \cap Hashers) = 0
    BY PoolAssumption, FS_EmptySet
  <2>2. /\ IsFiniteSet(Owners \cup Hashers)
        /\ Cardinality(Owners \cup Hashers)
             = Cardinality(Owners) + Cardinality(Hashers) - Cardinality(Owners \cap Hashers)
    BY PoolAssumption, FS_Union
  <2>3. Cardinality(Owners) \in Nat /\ Cardinality(Hashers) \in Nat
    BY PoolAssumption, FS_CardinalityType
  <2> QED BY <2>1, <2>2, <2>3
<1>2. IsFiniteSet(U) /\ Cardinality(U) <= Cardinality(Owners \cup Hashers)
  BY <1>1, FS_Subset
<1>3. /\ IsFiniteSet(A) /\ Cardinality(A) <= Cardinality(Owners)
      /\ IsFiniteSet(B) /\ Cardinality(B) <= Cardinality(Owners)
  BY PoolAssumption, FS_Subset
<1>4. Cardinality(U) \in Nat /\ Cardinality(A) \in Nat /\ Cardinality(B) \in Nat
  BY <1>2, <1>3, FS_CardinalityType
<1> QED BY <1>1, <1>2, <1>3, <1>4, PoolAssumption

\* The same of the state.
LEMMA Bounds ==
    /\ IsFiniteSet(Users) /\ Cardinality(Users) \in Nat /\ Cardinality(Users) < Word
    /\ IsFiniteSet(Once) /\ IsFiniteSet(Twice)
    /\ Cardinality(Once) \in Nat /\ Cardinality(Twice) \in Nat
    /\ Strays \in Nat /\ Strays < Word
<1>1. Users \subseteq Owners \cup Hashers /\ Once \subseteq Owners /\ Twice \subseteq Owners
  BY DEF Users, Once, Twice
<1> HIDE DEF Users, Once, Twice
<1> QED BY <1>1, Bounded DEF Strays

\* The counter stays within its word.
LEMMA InWord ==
    ASSUME TypeOK
    PROVE  Incremented \in 0..(Word - 1) /\ Decremented \in 0..(Word - 1)
BY PoolAssumption DEF TypeOK, Incremented, Decremented

\* The count stays exact when a thread joins the users ...
LEMMA Joined ==
    ASSUME UsersCounted, NEW t \in Owners \cup Hashers, t \notin Users, Users' = Users \cup {t},
           stray' = stray, tcp_sha1sig_users' = Incremented
    PROVE  UsersCounted'
<1>1. Cardinality(Users)' = Cardinality(Users) + 1
  BY Bounds, FS_AddElement
<1>2. Strays' = Strays
  BY DEF Strays, Once, Twice
<1>3. Cardinality(Users)' < Word
  <2>1. Users \cup {t} \subseteq Owners \cup Hashers
    BY DEF Users
  <2> QED BY <2>1, Bounded
<1> QED BY <1>1, <1>2, <1>3, Bounds, PoolAssumption DEF UsersCounted, Incremented

\* ... when one leaves them ...
LEMMA Left ==
    ASSUME UsersCounted, NEW t, t \in Users, Users' = Users \ {t},
           stray' = stray, tcp_sha1sig_users' = Decremented
    PROVE  UsersCounted'
<1>1. Cardinality(Users)' = Cardinality(Users) - 1 /\ Cardinality(Users \ {t}) \in Nat
  BY Bounds, FS_RemoveElement, FS_CardinalityType
<1>2. Strays' = Strays
  BY DEF Strays, Once, Twice
<1> QED BY <1>1, <1>2, Bounds, PoolAssumption DEF UsersCounted, Decremented

\* ... when an owner frees without being one ...
LEMMA Strayed ==
    ASSUME TypeOK, UsersCounted, NEW o \in Owners, stray[o] \in {0, 1},
           Users' = Users, stray' = [stray EXCEPT ![o] = @ + 1],
           tcp_sha1sig_users' = Decremented
    PROVE  UsersCounted'
<1>1. Strays' = Strays + 1
  <2>1. CASE stray[o] = 0
    <3>1. Once' = Once \cup {o} /\ o \notin Once /\ Twice' = Twice
      BY <2>1 DEF Once, Twice, TypeOK
    <3>2. Cardinality(Once)' = Cardinality(Once) + 1
      BY <3>1, Bounds, FS_AddElement
    <3> QED BY <3>1, <3>2, Bounds DEF Strays
  <2>2. CASE stray[o] = 1
    <3>1. Once' = Once /\ o \notin Twice /\ Twice' = Twice \cup {o}
      BY <2>2 DEF Once, Twice, TypeOK
    <3>2. Cardinality(Twice)' = Cardinality(Twice) + 1
      BY <3>1, Bounds, FS_AddElement
    <3> QED BY <3>1, <3>2, Bounds DEF Strays
  <2> QED BY <2>1, <2>2
<1>2. Strays' \in Nat /\ Strays' < Word
  <2>1. Once' \subseteq Owners /\ Twice' \subseteq Owners
    BY DEF Once, Twice
  <2> QED BY <2>1, <1>1, Bounded, Bounds DEF Strays
<1>3. Cardinality(Users)' = Cardinality(Users)
  OBVIOUS
<1> QED BY <1>1, <1>2, <1>3, Bounds, PoolAssumption DEF UsersCounted, Decremented

\* ... and when nothing changes.
LEMMA Stayed ==
    ASSUME UsersCounted, Users' = Users, stray' = stray, tcp_sha1sig_users' = tcp_sha1sig_users
    PROVE  UsersCounted'
BY DEF UsersCounted, Strays, Once, Twice

-----------------------------------------------------------------------------
\* Before anybody freed without a reference, the count is the number of users.
LEMMA Clean ==
    ASSUME PoolInv, \A o \in Owners : stray[o] = 0
    PROVE  tcp_sha1sig_users = Cardinality(Users)
<1>1. Once = {} /\ Twice = {}
  BY DEF Once, Twice
<1>2. Strays = 0
  BY <1>1, FS_EmptySet DEF Strays
<1>3. TypeOK /\ UsersCounted
  BY DEF PoolInv
<1> QED BY <1>2, <1>3, Bounds DEF UsersCounted

\* A count of zero then means that nobody has a reference ...
LEMMA NoUsers ==
    ASSUME PoolInv, \A o \in Owners : stray[o] = 0
    PROVE  tcp_sha1sig_users = 0 <=> Users = {}
<1>1. TypeOK
  BY DEF PoolInv
<1> QED BY <1>1, Clean, Bounds, FS_EmptySet

\* ... and a count of one, that of the last put, that nobody but t has.
LEMMA SoleUser ==
    ASSUME PoolInv, \A o \in Owners : stray[o] = 0, NEW t \in Users
    PROVE  LastUser <=> Users = {t}
<1>0. TypeOK
  BY DEF PoolInv
<1>1. /\ Cardinality(Users) \in Nat
      /\ IsFiniteSet(Users \ {t})
      /\ Cardinality(Users \ {t}) = Cardinality(Users) - 1
      /\ Cardinality(Users \ {t}) \in Nat
  BY <1>0, Bounds, FS_RemoveElement, FS_CardinalityType
<1>2. Cardinality(Users \ {t}) = 0 <=> Users \ {t} = {}
  BY <1>1, FS_EmptySet
<1>3. Users \ {t} = {} <=> Users = {t}
  OBVIOUS
<1> QED BY <1>1, <1>2, <1>3, Clean DEF LastUser

\* A step that takes back no stray free and puts no owner back to its start cannot make
\* the count sound again.
LEMMA SoundBefore ==
    ASSUME Sound', \A o \in Owners : stray'[o] = 0 => stray[o] = 0,
           \A o \in Owners : opc'[o] = "out" => opc[o] = "out"
    PROVE  Sound
BY DEF Sound

\* While an owner that has never freed without a reference is at work, a sound count is
\* one that nobody has falsified.
LEMMA CleanAtWork ==
    ASSUME PoolInv, Sound, NEW o \in Owners, opc[o] # "out", stray[o] = 0
    PROVE  \A u \in Owners : stray[u] = 0
BY DEF Sound, PoolInv, OwnerOK

\* While a pool is published, likewise.
LEMMA CleanIfPublished ==
    ASSUME PoolInv, Sound, tcp_sha1sig_pool # None
    PROVE  \A u \in Owners : stray[u] = 0
<1> SUFFICES ASSUME NEW o \in Owners, stray[o] > 0 PROVE FALSE
  BY DEF PoolInv, TypeOK
<1>1. PICK v \in Owners : \A u \in Owners \ {v} : opc[u] = "out"
  BY DEF Sound
<1>2. v = o
  BY <1>1 DEF PoolInv, OwnerOK
<1> QED BY <1>1, <1>2 DEF PoolInv, OneBuilder, FailedAlone

-----------------------------------------------------------------------------
\* The static variables of sha.c start with no pool and no user.
LEMMA PoolInit == Init => PoolInv
<1> SUFFICES ASSUME Init PROVE PoolInv
  OBVIOUS
<1>1. Users = {} /\ Once = {} /\ Twice = {}
  BY DEF Init, Users, Building, Once, Twice
<1>2. UsersCounted
  BY <1>1, FS_EmptySet DEF Init, UsersCounted, Strays
<1>3. TypeOK
  BY PoolAssumption DEF Init, TypeOK
<1>4. Alive
  BY DEF Init, Alive
<1>5. NoPoolLeaked
  BY PoolAssumption DEF Init, NoPoolLeaked, Threads, Hand
<1>6. OneBuilder /\ OwnerOK
  BY <1>1 DEF Init, OneBuilder, Building, OwnerOK
<1> QED BY <1>2, <1>3, <1>4, <1>5, <1>6 DEF PoolInv

\* tcp_alloc_sha1sig_pool, first section.
LEMMA StepAllocEnter ==
    ASSUME PoolInv, NEW o \in Owners, AllocEnter(o)
    PROVE  PoolInv'
<1> USE DEF PoolInv
<1>0. o \notin Users /\ o \notin Hashers /\ stray[o] = 0
  BY PoolAssumption DEF Users, AllocEnter, Building, OwnerOK
<1>1. TypeOK'
  BY InWord DEF AllocEnter, TypeOK, hasherVars
<1>2. \/ Users' = Users /\ UNCHANGED tcp_sha1sig_users
      \/ Users' = Users \cup {o} /\ tcp_sha1sig_users' = Incremented
  BY <1>0 DEF AllocEnter, Users, Building, TypeOK, hasherVars
<1>3. UsersCounted'
  BY <1>0, <1>2, Joined, Stayed DEF AllocEnter
<1>5. NoPoolLeaked'
  BY DEF AllocEnter, NoPoolLeaked, Threads, Hand, hasherVars
<1>6. OwnerOK'
  BY <1>0 DEF AllocEnter, OwnerOK, Building, TypeOK
<1>7. ASSUME Sound' PROVE Alive' /\ OneBuilder'
  <2>1. Sound
    BY <1>7, SoundBefore DEF AllocEnter, TypeOK
  <2>2. \A u \in Owners : stray[u] = 0
    <3>1. PICK v \in Owners : (\A u \in Owners : stray[u] = 0)
                               \/ \A u \in Owners \ {v} : opc'[u] = "out"
      BY <1>7 DEF Sound, AllocEnter
    <3>2. opc'[o] # "out" /\ \A u \in Owners \ {o} : opc'[u] = opc[u]
      BY DEF AllocEnter, TypeOK
    <3> QED BY <1>0, <3>1, <3>2 DEF OwnerOK
  <2>3. Alive'
    BY <2>1 DEF AllocEnter, Alive, TypeOK, hasherVars
  <2>4. \A u \in Owners : FailedAlone(u)' => tcp_sha1sig_pool' = None
    BY <2>1, <2>2 DEF OneBuilder, FailedAlone, AllocEnter, TypeOK
  <2>5. CASE tcp_sha1sig_users = 0
    <3>1. Users = {}
      BY <2>5, <2>2, NoUsers
    <3>2. \A u \in Owners : opc[u] \notin Building \cup {"has"}
      BY <3>1 DEF Users
    <3>3. tcp_sha1sig_pool = None
      BY <2>1, <3>1 DEF OneBuilder
    <3> QED BY <2>3, <2>4, <2>5, <3>2, <3>3 DEF AllocEnter, OneBuilder, Building, TypeOK
  <2>6. CASE tcp_sha1sig_users # 0
    <3>1. Users \subseteq Users'
      BY <1>2
    <3> QED BY <2>1, <2>3, <2>4, <2>6, <3>1 DEF AllocEnter, OneBuilder, Building, TypeOK
  <2> QED BY <2>5, <2>6
<1> QED BY <1>1, <1>3, <1>5, <1>6, <1>7

\* __tcp_alloc_sha1sig_pool.
LEMMA StepBuild ==
    ASSUME PoolInv, NEW o \in Owners, Build(o)
    PROVE  PoolInv'
<1> USE DEF PoolInv
<1>1. TypeOK'
  BY DEF Build, TypeOK, hasherVars
<1>2. Users' = Users /\ UNCHANGED tcp_sha1sig_users
  BY DEF Build, Users, Building, TypeOK, hasherVars
<1>3. UsersCounted'
  BY <1>2, Stayed DEF Build
<1>4. stray[o] = 0 /\ opc[o] # "out"
  BY DEF Build, OwnerOK, Building
<1>5. NoPoolLeaked'
  <2>1. CASE live' = live /\ obuf' = obuf
    BY <2>1 DEF Build, NoPoolLeaked, Threads, Hand, hasherVars
  <2>2. CASE \E p \in Pools \ live : live' = live \cup {p} /\ obuf' = [obuf EXCEPT ![o] = p]
    <3>1. PICK p \in Pools \ live : live' = live \cup {p} /\ obuf' = [obuf EXCEPT ![o] = p]
      BY <2>2
    <3>2. obuf[o] = None
      BY DEF Build, OwnerOK
    <3>3. Hand(o)' = p /\ Hand(o) = None
      BY <3>1, <3>2 DEF Hand, TypeOK
    <3>4. \A t \in Threads \ {o} : Hand(t)' = Hand(t)
      BY <3>1 DEF Hand, Threads, Build, hasherVars, TypeOK
    <3>5. \A t \in Threads : Hand(t) # p
      BY <3>1 DEF NoPoolLeaked
    <3>6. tcp_sha1sig_pool' = tcp_sha1sig_pool /\ tcp_sha1sig_pool # p /\ o \in Threads /\ p # None
      BY <3>1, PoolAssumption DEF Build, NoPoolLeaked, Threads
    <3>7. ASSUME NEW q \in Pools
          PROVE  (q \in live' <=> q = tcp_sha1sig_pool' \/ \E t \in Threads : Hand(t)' = q)
      <4>1. q \in live <=> q = tcp_sha1sig_pool \/ \E t \in Threads : Hand(t) = q
        BY DEF NoPoolLeaked
      <4>2. CASE q = p
        BY <4>2, <3>1, <3>3, <3>6
      <4>3. CASE q # p
        <5>1. (\E t \in Threads : Hand(t)' = q) <=> \E t \in Threads \ {o} : Hand(t)' = q
          BY <4>3, <3>3
        <5>2. (\E t \in Threads : Hand(t) = q) <=> \E t \in Threads \ {o} : Hand(t) = q
          BY <3>3, PoolAssumption
        <5> QED BY <4>1, <4>3, <5>1, <5>2, <3>1, <3>4, <3>6
      <4> QED BY <4>2, <4>3
    <3>8. ASSUME NEW t \in Threads, Hand(t)' # None
          PROVE  /\ Hand(t)' # tcp_sha1sig_pool'
                 /\ \A u \in Threads \ {t} : Hand(u)' # Hand(t)'
      <4>1. CASE t = o
        BY <4>1, <3>3, <3>4, <3>5, <3>6
      <4>2. CASE t # o
        BY <3>8, <4>2, <3>3, <3>4, <3>5, <3>6 DEF NoPoolLeaked
      <4> QED BY <4>1, <4>2
    <3> QED BY <3>7, <3>8 DEF NoPoolLeaked, Threads
  <2> QED BY <2>1, <2>2 DEF Build
<1>6. OwnerOK'
  BY PoolAssumption DEF Build, OwnerOK, Building, TypeOK
<1>7. ASSUME Sound' PROVE Alive' /\ OneBuilder'
  <2>1. Sound
    BY <1>7, SoundBefore DEF Build, TypeOK
  <2>2. Alive'
    BY <2>1 DEF Build, Alive, TypeOK, hasherVars
  <2>3. OneBuilder'
    BY <2>1, <1>2 DEF Build, OneBuilder, FailedAlone, Building, TypeOK
  <2> QED BY <2>2, <2>3
<1> QED BY <1>1, <1>3, <1>5, <1>6, <1>7

\* Second section after a failure.
LEMMA StepBuildFailed ==
    ASSUME PoolInv, NEW o \in Owners, BuildFailed(o)
    PROVE  PoolInv'
<1> USE DEF PoolInv
<1>0. o \in Users /\ o \notin Hashers
  BY PoolAssumption DEF Users, BuildFailed, Building
<1>1. TypeOK'
  BY InWord DEF BuildFailed, TypeOK, hasherVars
<1>2. Users' = Users \ {o} /\ tcp_sha1sig_users' = Decremented
  BY <1>0 DEF BuildFailed, Users, Building, TypeOK, hasherVars
<1>3. UsersCounted'
  BY <1>0, <1>2, Left DEF BuildFailed
<1>4. NoPoolLeaked'
  BY DEF BuildFailed, NoPoolLeaked, Threads, Hand, hasherVars
<1>5. OwnerOK'
  BY DEF BuildFailed, OwnerOK, Building, TypeOK
<1>6. ASSUME Sound' PROVE Alive' /\ OneBuilder'
  <2>1. Sound
    BY <1>6, SoundBefore DEF BuildFailed, TypeOK
  <2>2. Alive'
    BY <2>1 DEF BuildFailed, Alive, TypeOK, hasherVars
  <2>3. tcp_sha1sig_pool = None /\ tcp_sha1sig_pool' = None
    BY <2>1 DEF BuildFailed, OneBuilder, Building
  <2>4. OneBuilder'
    BY <2>1, <2>3 DEF BuildFailed, OneBuilder, Building, TypeOK
  <2> QED BY <2>2, <2>4
<1> QED BY <1>1, <1>3, <1>4, <1>5, <1>6

\* Second section after a success.
LEMMA StepPublish ==
    ASSUME PoolInv, NEW o \in Owners, Publish(o)
    PROVE  PoolInv'
<1> USE DEF PoolInv
<1>0. /\ obuf[o] # None /\ Hand(o) = obuf[o] /\ o \in Threads
      /\ obuf' = [obuf EXCEPT ![o] = None]
  BY DEF Publish, OwnerOK, Hand, Threads
<1>1. TypeOK'
  BY <1>0 DEF Publish, TypeOK, hasherVars
<1>2. Users' = Users /\ UNCHANGED tcp_sha1sig_users /\ o \in Users
  BY DEF Publish, Users, Building, TypeOK, hasherVars
<1>3. UsersCounted'
  BY <1>2, Stayed DEF Publish
<1>4. NoPoolLeaked'
  <2>1. Hand(o)' = None
    BY <1>0 DEF Hand, TypeOK
  <2>2. \A t \in Threads \ {o} : Hand(t)' = Hand(t)
    BY <1>0 DEF Hand, Threads, Publish, hasherVars, TypeOK
  <2>3. CASE tcp_sha1sig_pool = None /\ tcp_sha1sig_pool' = Hand(o) /\ live' = live
    BY <1>0, <2>1, <2>2, <2>3, PoolAssumption DEF NoPoolLeaked, Threads
  <2>4. CASE tcp_sha1sig_pool' = tcp_sha1sig_pool /\ live' = live \ {Hand(o)}
    BY <1>0, <2>1, <2>2, <2>4, PoolAssumption DEF NoPoolLeaked, Threads
  <2> QED BY <1>0, <2>3, <2>4 DEF Publish
<1>5. OwnerOK'
  BY DEF Publish, OwnerOK, Building, TypeOK
<1>6. ASSUME Sound' PROVE Alive' /\ OneBuilder'
  <2>1. Sound
    BY <1>6, SoundBefore DEF Publish, TypeOK
  <2>2. tcp_sha1sig_pool = None /\ tcp_sha1sig_pool' = obuf[o] /\ live' = live
    BY <2>1 DEF Publish, OneBuilder, Building
  <2>3. obuf[o] \in live
    BY <1>0 DEF NoPoolLeaked, TypeOK
  <2>4. \A h \in Hashers : hpc[h] # "hash"
    BY <2>1, <2>2, PoolAssumption DEF Alive, TypeOK
  <2>5. Alive'
    BY <1>0, <2>2, <2>3, <2>4 DEF Publish, Alive, TypeOK, hasherVars
  <2>6. \A u \in Owners : ~FailedAlone(u)'
    <3>1. stray[o] = 0 /\ opc'[o] = "has"
      BY DEF Publish, OwnerOK, Building, TypeOK
    <3> QED BY <3>1 DEF FailedAlone, Publish
  <2>7. OneBuilder'
    BY <2>1, <2>2, <2>6, <1>2 DEF Publish, OneBuilder, Building, TypeOK
  <2> QED BY <2>5, <2>7
<1> QED BY <1>1, <1>3, <1>4, <1>5, <1>6

-----------------------------------------------------------------------------
\* What the section of tcp_free_sha1sig_pool does in thread t, whoever it is and whatever
\* the count: the pool stays published, or goes into t's hands.
LEMMA Dropped ==
    ASSUME PoolInv, NEW t \in Threads, tcp_sha1sig_pool' = Unpublished,
           live' = live, Hand(t) = None, Hand(t)' = ToFree,
           \A u \in Threads \ {t} : Hand(u)' = Hand(u)
    PROVE  NoPoolLeaked'
<1> USE DEF PoolInv
<1>1. CASE LastUser
  <2>1. tcp_sha1sig_pool' = None /\ Hand(t)' = tcp_sha1sig_pool
    BY <1>1 DEF Unpublished, ToFree
  <2> QED BY <2>1, PoolAssumption DEF NoPoolLeaked, Threads
<1>2. CASE ~LastUser
  <2>1. tcp_sha1sig_pool' = tcp_sha1sig_pool /\ Hand(t)' = None
    BY <1>2 DEF Unpublished, ToFree
  <2> QED BY <2>1, PoolAssumption DEF NoPoolLeaked, Threads
<1> QED BY <1>1, <1>2

\* When a user leaves an exact count, the pool is unpublished exactly if it was the last.
LEMMA Released ==
    ASSUME PoolInv, \A o \in Owners : stray[o] = 0, NEW t \in Users,
           Users' = Users \ {t}, tcp_sha1sig_pool' = Unpublished
    PROVE  \/ Users' # {} /\ tcp_sha1sig_pool' = tcp_sha1sig_pool
           \/ Users' = {} /\ tcp_sha1sig_pool' = None
BY SoleUser DEF Unpublished

\* tcp_free_sha1sig_pool of an owner.
LEMMA StepFree ==
    ASSUME PoolInv, NEW o \in Owners, Free(o)
    PROVE  PoolInv'
<1> USE DEF PoolInv, CallsFree
<1>0. o \in Threads /\ o \notin Hashers
  BY PoolAssumption DEF Threads
<1>1. /\ opc[o] \in {"has", "owes"} => stray[o] = 0
      /\ opc[o] = "off" => stray[o] = 1
  BY DEF OwnerOK
<1>2. TypeOK'
  BY <1>1, InWord DEF Free, TypeOK, hasherVars, Unpublished, ToFree
<1>3. UsersCounted'
  <2>1. CASE opc[o] = "has"
    <3>1. o \in Users /\ Users' = Users \ {o}
      BY <1>0, <2>1 DEF Free, Users, Building, TypeOK, hasherVars
    <3>2. stray' = stray
      BY <2>1 DEF Free, TypeOK
    <3> QED BY <3>1, <3>2, Left DEF Free
  <2>2. CASE opc[o] # "has"
    <3>1. Users' = Users
      BY <1>0, <2>2 DEF Free, Users, Building, TypeOK, hasherVars
    <3>2. stray[o] \in {0, 1} /\ stray' = [stray EXCEPT ![o] = @ + 1]
      BY <1>1, <2>2 DEF Free
    <3> QED BY <3>1, <3>2, Strayed DEF Free
  <2> QED BY <2>1, <2>2
<1>4. Hand(o) = None /\ Hand(o)' = ToFree
  BY DEF Free, Hand, OwnerOK, TypeOK
<1>5. \A u \in Threads \ {o} : Hand(u)' = Hand(u)
  BY DEF Free, Hand, Threads, hasherVars, TypeOK
<1>6. NoPoolLeaked'
  BY <1>0, <1>4, <1>5, Dropped DEF Free
<1>7. OwnerOK'
  BY DEF Free, OwnerOK, Building, TypeOK
<1>8. ASSUME Sound' PROVE Alive' /\ OneBuilder'
  <2>1. Sound
    BY <1>8, SoundBefore DEF Free, TypeOK
  <2>2. \A u \in Owners \ {o} : opc'[u] = opc[u] /\ stray'[u] = stray[u]
    BY DEF Free, TypeOK
  <2>3. opc'[o] = "destroy"
    BY DEF Free, TypeOK
  <2>4. CASE opc[o] = "has"
    <3>1. \A u \in Owners : stray[u] = 0
      BY <2>1, <2>4, <1>1, CleanAtWork
    <3>2. o \in Users /\ Users' = Users \ {o} /\ tcp_sha1sig_pool' = Unpublished
      BY <1>0, <2>4 DEF Free, Users, Building, TypeOK, hasherVars
    <3>3. \/ Users' # {} /\ tcp_sha1sig_pool' = tcp_sha1sig_pool
          \/ Users' = {} /\ tcp_sha1sig_pool' = None
      BY <3>1, <3>2, Released
    <3>4. Alive'
      <4>1. CASE tcp_sha1sig_pool' = tcp_sha1sig_pool
        BY <2>1, <4>1 DEF Free, Alive, TypeOK, hasherVars
      <4>2. CASE Users' = {} /\ tcp_sha1sig_pool' = None
        BY <4>2 DEF Alive, Users, Building
      <4> QED BY <3>3, <4>1, <4>2
    <3>5. \A u \in Owners : ~FailedAlone(u)'
      <4>1. stray'[o] = 0
        BY <2>4, <3>1 DEF Free, TypeOK
      <4> QED BY <2>2, <2>3, <3>1, <4>1 DEF FailedAlone
    <3>6. OneBuilder'
      BY <2>1, <3>3, <3>5 DEF Free, OneBuilder, Building, TypeOK
    <3> QED BY <3>4, <3>6
  <2>5. CASE opc[o] # "has"
    <3>1. stray'[o] > 0
      BY <1>1, <2>5 DEF Free, TypeOK
    <3>2. \A u \in Owners \ {o} : opc[u] = "out"
      BY <1>8, <2>2, <2>3, <3>1 DEF Sound
    <3>3. FailedAlone(o)
      BY <1>1, <2>5, <3>2 DEF FailedAlone, Free
    <3>4. tcp_sha1sig_pool = None /\ tcp_sha1sig_pool' = None
      BY <2>1, <3>3 DEF OneBuilder, Free, Unpublished
    <3>5. Alive'
      BY <2>1, <3>4, PoolAssumption DEF Free, Alive, TypeOK, hasherVars
    <3>6. OneBuilder'
      BY <2>2, <2>3, <3>2, <3>4 DEF OneBuilder, Building
    <3> QED BY <3>5, <3>6
  <2> QED BY <2>4, <2>5
<1> QED BY <1>2, <1>3, <1>6, <1>7, <1>8

\* tcp_put_sha1sig_pool of a hasher.
LEMMA StepPut ==
    ASSUME PoolInv, NEW h \in Hashers, Put(h)
    PROVE  PoolInv'
<1> USE DEF PoolInv
<1>0. h \in Users /\ h \in Threads /\ h \notin Owners
  BY PoolAssumption DEF Users, Put, Threads
<1>1. TypeOK'
  BY InWord DEF Put, TypeOK, ownerVars, Unpublished, ToFree
<1>2. Users' = Users \ {h} /\ stray' = stray
  BY <1>0 DEF Put, Users, TypeOK, ownerVars
<1>3. UsersCounted'
  BY <1>0, <1>2, Left DEF Put
<1>4. Hand(h) = None /\ Hand(h)' = ToFree
  BY <1>0 DEF Put, Hand, TypeOK
<1>5. \A u \in Threads \ {h} : Hand(u)' = Hand(u)
  BY DEF Put, Hand, Threads, ownerVars, TypeOK
<1>6. NoPoolLeaked'
  BY <1>0, <1>4, <1>5, Dropped DEF Put
<1>7. OwnerOK'
  BY DEF Put, OwnerOK, ownerVars
<1>8. ASSUME Sound' PROVE Alive' /\ OneBuilder'
  <2>1. Sound
    BY <1>8 DEF Sound, Put, ownerVars
  <2>2. tcp_sha1sig_pool # None
    BY <2>1, PoolAssumption DEF Alive, Put, TypeOK
  <2>3. \A u \in Owners : stray[u] = 0
    BY <2>1, <2>2, CleanIfPublished
  <2>4. \/ Users' # {} /\ tcp_sha1sig_pool' = tcp_sha1sig_pool
        \/ Users' = {} /\ tcp_sha1sig_pool' = None
    BY <1>0, <1>2, <2>3, Released DEF Put
  <2>5. Alive'
    <3>1. CASE tcp_sha1sig_pool' = tcp_sha1sig_pool
      BY <2>1, <3>1 DEF Put, Alive, TypeOK, ownerVars
    <3>2. CASE Users' = {} /\ tcp_sha1sig_pool' = None
      BY <3>2 DEF Alive, Users, Building
    <3> QED BY <2>4, <3>1, <3>2
  <2>6. OneBuilder'
    BY <2>1, <2>4 DEF Put, OneBuilder, FailedAlone, ownerVars
  <2> QED BY <2>5, <2>6
<1> QED BY <1>1, <1>3, <1>6, <1>7, <1>8

-----------------------------------------------------------------------------
\* What __tcp_free_sha1sig_pool does with the pool in t's hands, if there is one.
LEMMA Destroyed ==
    ASSUME PoolInv, NEW t \in Threads, live' = live \ {Hand(t)}, Hand(t)' = None,
           tcp_sha1sig_pool' = tcp_sha1sig_pool, Users' = Users, stray' = stray,
           tcp_sha1sig_users' = tcp_sha1sig_users,
           \A u \in Threads \ {t} : Hand(u)' = Hand(u)
    PROVE  NoPoolLeaked' /\ UsersCounted'
<1>1. NoPoolLeaked'
  BY PoolAssumption DEF PoolInv, NoPoolLeaked, Threads
<1>2. UsersCounted'
  BY Stayed DEF PoolInv
<1> QED BY <1>1, <1>2

\* The end of tcp_free_sha1sig_pool in an owner.
LEMMA StepDestroy ==
    ASSUME PoolInv, NEW o \in Owners, Destroy(o)
    PROVE  PoolInv'
<1> USE DEF PoolInv
<1>1. TypeOK'
  BY DEF Destroy, TypeOK, hasherVars
<1>2. Users' = Users /\ tcp_sha1sig_users' = tcp_sha1sig_users /\ stray' = stray
  BY PoolAssumption DEF Destroy, Users, Building, TypeOK, hasherVars
<1>3. o \in Threads /\ live' = live \ {Hand(o)} /\ Hand(o)' = None /\ tcp_sha1sig_pool' = tcp_sha1sig_pool
  BY DEF Destroy, Hand, Threads, TypeOK
<1>4. \A u \in Threads \ {o} : Hand(u)' = Hand(u)
  BY DEF Destroy, Hand, Threads, hasherVars, TypeOK
<1>5. NoPoolLeaked' /\ UsersCounted'
  BY <1>2, <1>3, <1>4, Destroyed
<1>6. OwnerOK'
  BY DEF Destroy, OwnerOK, Building, TypeOK
<1>7. ASSUME Sound' PROVE Alive' /\ OneBuilder'
  <2>1. Sound
    BY <1>7, SoundBefore DEF Destroy, TypeOK
  <2>2. tcp_sha1sig_pool # None => tcp_sha1sig_pool # Hand(o)
    BY <1>3 DEF NoPoolLeaked
  <2>3. Alive'
    BY <2>1, <1>3, <2>2, PoolAssumption DEF Destroy, Alive, TypeOK, hasherVars
  <2>4. OneBuilder'
    BY <2>1, <1>2 DEF Destroy, OneBuilder, FailedAlone, Building, TypeOK
  <2> QED BY <2>3, <2>4
<1> QED BY <1>1, <1>5, <1>6, <1>7

\* The end of tcp_free_sha1sig_pool in a hasher.
LEMMA StepPutDestroy ==
    ASSUME PoolInv, NEW h \in Hashers, PutDestroy(h)
    PROVE  PoolInv'
<1> USE DEF PoolInv
<1>0. h \notin Owners /\ h \in Threads
  BY PoolAssumption DEF Threads
<1>1. TypeOK'
  BY DEF PutDestroy, TypeOK, ownerVars
<1>2. Users' = Users /\ tcp_sha1sig_users' = tcp_sha1sig_users /\ stray' = stray
  BY DEF PutDestroy, Users, TypeOK, ownerVars
<1>3. live' = live \ {Hand(h)} /\ Hand(h)' = None /\ tcp_sha1sig_pool' = tcp_sha1sig_pool
  BY <1>0 DEF PutDestroy, Hand, TypeOK
<1>4. \A u \in Threads \ {h} : Hand(u)' = Hand(u)
  BY DEF PutDestroy, Hand, Threads, ownerVars, TypeOK
<1>5. NoPoolLeaked' /\ UsersCounted'
  BY <1>0, <1>2, <1>3, <1>4, Destroyed
<1>6. OwnerOK'
  BY DEF PutDestroy, OwnerOK, ownerVars
<1>7. ASSUME Sound' PROVE Alive' /\ OneBuilder'
  <2>1. Sound
    BY <1>7 DEF Sound, PutDestroy, ownerVars
  <2>2. tcp_sha1sig_pool # None => tcp_sha1sig_pool # Hand(h)
    BY <1>0 DEF NoPoolLeaked
  <2>3. Alive'
    BY <2>1, <1>3, <2>2, PoolAssumption DEF PutDestroy, Alive, TypeOK, ownerVars
  <2>4. OneBuilder'
    BY <2>1, <1>2 DEF PutDestroy, OneBuilder, FailedAlone, ownerVars
  <2> QED BY <2>3, <2>4
<1> QED BY <1>1, <1>5, <1>6, <1>7

\* tcp_get_sha1sig_pool.
LEMMA StepGet ==
    ASSUME PoolInv, NEW h \in Hashers, Get(h)
    PROVE  PoolInv'
<1> USE DEF PoolInv
<1>0. h \notin Users /\ h \notin Owners
  BY PoolAssumption DEF Users, Get
<1>1. TypeOK'
  BY InWord DEF Get, TypeOK, ownerVars
<1>2. Users' = Users \cup {h} /\ stray' = stray
  BY DEF Get, Users, TypeOK, ownerVars
<1>3. UsersCounted'
  BY <1>0, <1>2, Joined DEF Get
<1>4. \A t \in Threads : Hand(t)' = Hand(t)
  BY DEF Get, Threads, Hand, ownerVars, TypeOK
<1>5. NoPoolLeaked'
  BY <1>4 DEF Get, NoPoolLeaked, Threads
<1>6. OwnerOK'
  BY DEF Get, OwnerOK, ownerVars
<1>7. ASSUME Sound' PROVE Alive' /\ OneBuilder'
  <2>1. Sound
    BY <1>7 DEF Sound, Get, ownerVars
  <2>2. Alive'
    BY <2>1 DEF Get, Alive, TypeOK, ownerVars
  <2>3. OneBuilder'
    BY <2>1, <1>2 DEF Get, OneBuilder, FailedAlone, ownerVars
  <2> QED BY <2>2, <2>3
<1> QED BY <1>1, <1>3, <1>5, <1>6, <1>7

-----------------------------------------------------------------------------
\* Every step keeps the invariant.
LEMMA PoolStep == PoolInv /\ [Next]_vars => PoolInv'
<1> SUFFICES ASSUME PoolInv, [Next]_vars PROVE PoolInv'
  OBVIOUS
<1>1. ASSUME NEW o \in Owners,
             AllocEnter(o) \/ Build(o) \/ BuildFailed(o) \/ Publish(o) \/ Free(o) \/ Destroy(o)
      PROVE  PoolInv'
  BY <1>1, StepAllocEnter, StepBuild, StepBuildFailed, StepPublish, StepFree, StepDestroy
<1>2. ASSUME NEW h \in Hashers, Get(h) \/ Put(h) \/ PutDestroy(h)
      PROVE  PoolInv'
  BY <1>2, StepGet, StepPut, StepPutDestroy
<1>3. CASE UNCHANGED vars
  <2>1. TypeOK' /\ UsersCounted' /\ NoPoolLeaked' /\ OwnerOK'
    BY <1>3 DEF vars, PoolInv, TypeOK, UsersCounted, Users, Strays, Once, Twice, NoPoolLeaked,
                Threads, Hand, OwnerOK
  <2>2. (Sound <=> Sound') /\ (Alive <=> Alive') /\ (OneBuilder <=> OneBuilder')
    BY <1>3 DEF vars, Sound, Alive, OneBuilder, Users, FailedAlone
  <2> QED BY <2>1, <2>2 DEF PoolInv
<1> QED BY <1>1, <1>2, <1>3 DEF Next

\* The pool is reference-counted as far as its owners allow: PoolInv is an invariant of
\* sha.c's pool, stray frees included.
THEOREM PoolInvariant == Spec => []PoolInv
<1>1. Init => PoolInv
  BY PoolInit
<1>2. PoolInv /\ [Next]_vars => PoolInv'
  BY PoolStep
<1> QED BY <1>1, <1>2, PTL DEF Spec

\* tcp_sha1sig_users is the number of owners and running hash computations, less the frees
\* of owners whose allocation failed, modulo the size of the counter.
THEOREM PoolUsersCounted == Spec => []UsersCounted
<1>1. PoolInv => UsersCounted
  BY DEF PoolInv
<1> QED BY <1>1, PoolInvariant, PTL

\* The pool a hash computation uses is allocated until it is put back, unless a second
\* owner shares a count that a stray free has falsified.
THEOREM PoolNotFreedInUse == Spec => []PoolAlive
<1>1. PoolInv => PoolAlive
  BY DEF PoolInv, PoolAlive
<1> QED BY <1>1, PoolInvariant, PTL

\* No pool is leaked or freed twice.
THEOREM PoolFreedOnce == Spec => []NoPoolLeaked
<1>1. PoolInv => NoPoolLeaked
  BY DEF PoolInv
<1> QED BY <1>1, PoolInvariant, PTL

\* The branch of tcp_alloc_sha1sig_pool for a pool that was assigned meanwhile is dead,
\* unless a second owner shares a count that a stray free has falsified.
THEOREM PoolAssignedOnce == Spec => []NeverAssignedTwice
<1>1. PoolInv => NeverAssignedTwice
  BY DEF PoolInv, OneBuilder, Building, NeverAssignedTwice
<1> QED BY <1>1, PoolInvariant, PTL

\* The modules as they are, with minit and mexit the only owner: whether its allocation
\* fails or not, no hash computation uses a pool that is not allocated, and the allocation
\* never goes round its retry loop.
THEOREM OnlyOwner ==
    ASSUME NEW o, Owners = {o}
    PROVE  Spec => [](Alive /\ opc[o] # "retry")
<1> DEFINE I == PoolInv /\ opc[o] # "retry" /\ (opc[o] = "out" => tcp_sha1sig_pool = None)
<1>1. Sound
  BY DEF Sound
<1>2. Init => I
  BY PoolInit DEF Init
<1>3. I /\ [Next]_vars => I'
  <2> SUFFICES ASSUME I, [Next]_vars PROVE I'
    OBVIOUS
  <2>1. PoolInv'
    BY PoolStep
  <2>2. opc'[o] # "retry"
    <3>1. CASE AllocEnter(o)
      <4>1. opc[o] = "out" /\ stray[o] = 0
        BY <3>1 DEF AllocEnter, PoolInv, OwnerOK
      <4>2. tcp_sha1sig_pool = None /\ Alive
        BY <1>1, <4>1 DEF PoolInv
      <4>3. Users = {}
        BY <4>1, <4>2, PoolAssumption DEF Users, Building, Alive, PoolInv, TypeOK
      <4>4. tcp_sha1sig_users = 0
        BY <4>1, <4>3, NoUsers
      <4> QED BY <3>1, <4>4 DEF AllocEnter, PoolInv, TypeOK
    <3>2. ASSUME ~AllocEnter(o) PROVE opc'[o] # "retry"
      BY <3>2 DEF Next, vars, Build, BuildFailed, Publish, Free, CallsFree, Destroy, Get, Put,
                  PutDestroy, ownerVars, PoolInv, TypeOK
    <3> QED BY <3>1, <3>2
  <2>3. opc'[o] = "out" => tcp_sha1sig_pool' = None
    <3> SUFFICES ASSUME opc'[o] = "out" PROVE tcp_sha1sig_pool' = None
      OBVIOUS
    <3>1. opc[o] = "out" /\ ~Publish(o)
      BY DEF Next, vars, AllocEnter, Build, BuildFailed, Publish, Free, CallsFree, Destroy,
             Get, Put, PutDestroy, ownerVars, PoolInv, TypeOK
    <3> QED BY <3>1 DEF Next, vars, AllocEnter, Build, BuildFailed, Free, Destroy, Get, Put,
                        PutDestroy, Unpublished
  <2> QED BY <2>1, <2>2, <2>3
<1>4. I => Alive /\ opc[o] # "retry"
  BY <1>1 DEF PoolInv
<1> QED BY <1>2, <1>3, <1>4, PTL DEF Spec

\* tcp_alloc_sha1sig_pool retries only while another owner builds the pool, or after
\* another owner has freed without a reference.
THEOREM RetryOnlyForBuilder == Spec => RetryJustified
<1>1. ASSUME PoolInv, NEW o \in Owners, AllocEnter(o), opc'[o] = "retry"
      PROVE  \/ \E u \in Owners \ {o} : opc[u] \in Building
             \/ \E u \in Owners \ {o} : stray[u] > 0
  <2>0. SUFFICES ASSUME \A u \in Owners \ {o} : ~(stray[u] > 0)
                 PROVE  \E u \in Owners \ {o} : opc[u] \in Building
    OBVIOUS
  <2>1. tcp_sha1sig_users # 0 /\ tcp_sha1sig_pool = None
    BY <1>1 DEF AllocEnter, PoolInv, TypeOK
  <2>2. \A u \in Owners : stray[u] = 0
    BY <1>1, <2>0 DEF AllocEnter, PoolInv, OwnerOK, TypeOK
  <2>3. Users # {}
    BY <1>1, <2>1, <2>2, NoUsers
  <2>4. Alive
    BY <1>1, <2>2 DEF PoolInv, Sound
  <2>5. \A h \in Hashers : hpc[h] # "hash"
    BY <1>1, <2>1, <2>4, PoolAssumption DEF PoolInv, Alive, TypeOK
  <2>6. PICK u \in Owners : opc[u] \in Building
    BY <2>1, <2>3, <2>4, <2>5 DEF Users, Alive
  <2>7. u # o
    BY <1>1, <2>6 DEF AllocEnter, Building
  <2> QED BY <2>6, <2>7
<1>2. PoolInv /\ [Next]_vars =>
        [\A o \in Owners : AllocEnter(o) /\ opc'[o] = "retry" =>
            \/ \E u \in Owners \ {o} : opc[u] \in Building
            \/ \E u \in Owners \ {o} : stray[u] > 0]_vars
  BY <1>1
<1> QED BY <1>2, PoolInvariant, PTL DEF Spec, RetryJustified
=============================================================================
