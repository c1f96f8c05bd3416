----------------------------- MODULE DedupCache -----------------------------
(***************************************************************************)
(* What the sender's table of chunks promises its clients: it is a set of   *)
(* digests that may forget.  A client that asks about a digest is told      *)
(* whether the table knows it; the one that was told that it does not may   *)
(* teach it.  The table knows nothing it was not taught, and forgets only   *)
(* by itself, never because of a client.                                    *)
(***************************************************************************)
CONSTANTS Clients, Digests, None

VARIABLES
    known,   \* digests in the table
    reply    \* what each client was told last and has not acted upon yet

vars == <<known, reply>>

Ref(d)  == [told |-> "known", digest |-> d]
Full(d) == [told |-> "unknown", digest |-> d]

Ask(x, d) ==
    /\ reply[x] = None
    /\ reply' = [reply EXCEPT ![x] = IF d \in known THEN Ref(d) ELSE Full(d)]
    /\ UNCHANGED known

\* The table may be full: then it does not learn.
Teach(x, d) ==
    /\ reply[x] = Full(d)
    /\ known' \in {known, known \cup {d}}
    /\ reply' = [reply EXCEPT ![x] = None]

Refer(x, d) ==
    /\ reply[x] = Ref(d)
    /\ reply' = [reply EXCEPT ![x] = None]
    /\ UNCHANGED known

Forget ==
    /\ known' \in SUBSET known
    /\ UNCHANGED reply

Init == known = {} /\ reply = [x \in Clients |-> None]

Next ==
    \/ \E x \in Clients, d \in Digests : Ask(x, d) \/ Teach(x, d) \/ Refer(x, d)
    \/ Forget

Spec == Init /\ [][Next]_vars
=============================================================================
