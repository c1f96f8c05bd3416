----------------------------- MODULE SkbPipeline -----------------------------
(***************************************************************************)
(* The way of a packet through wspack (model/kernel_hash/nf_in.c): the     *)
(* jprobe on ip_rcv copies it to a per-CPU list and queues a work item,    *)
(* handle_skb takes the list over, stores the chunks of each packet, reads *)
(* back those that are on disk and resends the packets through a tasklet;  *)
(* mexit removes the probe, drains the lists and destroys the workqueue.   *)
(*                                                                         *)
(* jpf_ip_rcv runs in softirq context and handle_skb takes the list with   *)
(* bottom halves disabled, both on the list's own CPU, so each is one step. *)
(* The work item of a CPU is queued on the CPU where queue_work is called: *)
(* from the probe that is the same CPU, from mexit it is any.              *)
(*                                                                         *)
(* A failed allocation ends in BUG(): such a behaviour is a prefix of one   *)
(* that is modelled.  The original packet goes on through the stack by     *)
(* itself; only the copy is followed here.                                 *)
(***************************************************************************)
EXTENDS Naturals, FiniteSets, Sequences, SequencesExt

CONSTANTS
    NumCpus,     \* num_online_cpus()
    Packets,     \* the packets that may arrive, each once
    Threshold    \* packets that one handle_skb takes at most

Cpus == 0 .. NumCpus - 1

ASSUME PipelineAssumption ==
    NumCpus \in Nat \ {0} /\ Threshold \in Nat \ {0} /\ IsFiniteSet(Packets)

VARIABLES
    fresh,       \* packets that have not arrived yet
    arrived,     \* per CPU: the packets captured on it, in order
    skb_list,    \* per CPU: list of struct reject_skb
    work,        \* per CPU: is its work item pending
    wq,          \* per CPU: kread_queue's work items, a sequence of owner CPUs
    tpc,         \* per CPU: where its kread_queue thread is
    hand_list,   \* per CPU: packets of the running handle_skb
    chunked,     \* per CPU: how many of them have been through get_partition
    resent,      \* per CPU: packets its handler gave to ip_rcv_finish, in order
    mpc,         \* where mexit is
    cpu, rem     \* loop variables of clear_remainder_skb

listVars   == <<skb_list, work, wq>>
threadVars == <<tpc, hand_list, chunked>>
exitVars   == <<mpc, cpu, rem>>
vars == <<fresh, arrived, listVars, threadVars, resent, exitVars>>

-----------------------------------------------------------------------------
(* work_struct and workqueue, as the code uses them *)

\* INIT_WORK and queue_work of CPU c's work item, unless it is pending, by code that
\* runs on CPU at.
QueueWork(c, at) ==
    IF work[c] THEN UNCHANGED <<work, wq>>
    ELSE /\ work' = [work EXCEPT ![c] = TRUE]
         /\ wq' = [wq EXCEPT ![at] = Append(@, c)]

\* flush_workqueue returns when every queued work item has run.
Flushed == \A c \in Cpus : wq[c] = << >> /\ tpc[c] = "idle"

-----------------------------------------------------------------------------
(* jpf_ip_rcv *)

Probed == mpc = "loaded"

\* Not TCP, to or from the excluded host, or memory is short: the packet is left alone.
Ignore(p) ==
    /\ Probed /\ p \in fresh
    /\ fresh' = fresh \ {p}
    /\ UNCHANGED <<arrived, listVars, threadVars, resent, exitVars>>

Enqueued_AtHead(s, p) == <<p>> \o s
Enqueued(s, p) == Append(s, p)

Capture(c, p) ==
    /\ Probed /\ p \in fresh
    /\ fresh' = fresh \ {p}
    /\ arrived' = [arrived EXCEPT ![c] = Append(@, p)]
    /\ skb_list' = [skb_list EXCEPT ![c] = Enqueued(@, p)]
    /\ QueueWork(c, c)
    /\ UNCHANGED <<threadVars, resent, exitVars>>

-----------------------------------------------------------------------------
(* handle_skb on the kread_queue thread of CPU c *)

\* run_workqueue takes the next work item and clears its pending bit ...
RunWork_Pending(c) ==
    /\ tpc[c] = "idle" /\ wq[c] # << >>
    /\ wq' = [wq EXCEPT ![c] = Tail(@)]
    /\ tpc' = [tpc EXCEPT ![c] = "take"]
    /\ UNCHANGED <<fresh, arrived, skb_list, work, hand_list, chunked, resent, exitVars>>
RunWork(c) ==
    /\ tpc[c] = "idle" /\ wq[c] # << >>
    /\ work' = [work EXCEPT ![Head(wq[c])] = FALSE]
    /\ wq' = [wq EXCEPT ![c] = Tail(@)]
    /\ tpc' = [tpc EXCEPT ![c] = "take"]
    /\ UNCHANGED <<fresh, arrived, skb_list, hand_list, chunked, resent, exitVars>>

\* ... handle_skb takes the list of the CPU it runs on ...
Taken_OneLess(s) == IF Len(s) < Threshold THEN Len(s) ELSE Threshold - 1
Taken(s) == IF Len(s) < Threshold THEN Len(s) ELSE Threshold

TakeList(c) ==
    /\ tpc[c] = "take"
    /\ LET n == Taken(skb_list[c]) IN
       /\ hand_list' = [hand_list EXCEPT ![c] = SubSeq(skb_list[c], 1, n)]
       /\ skb_list' = [skb_list EXCEPT ![c] = SubSeq(@, n + 1, Len(@))]
       /\ tpc' = [tpc EXCEPT ![c] = IF n = 0 THEN "idle" ELSE "chunk"]
    /\ UNCHANGED <<fresh, arrived, work, wq, chunked, resent, exitVars>>

\* ... sends each packet through get_partition ...
Partition(c) ==
    /\ tpc[c] = "chunk" /\ chunked[c] < Len(hand_list[c])
    /\ chunked' = [chunked EXCEPT ![c] = @ + 1]
    /\ UNCHANGED <<fresh, arrived, listVars, tpc, hand_list, resent, exitVars>>

\* ... reads the chunks that are on disk ...
ReadData(c) ==
    /\ tpc[c] = "chunk" /\ chunked[c] = Len(hand_list[c])
    /\ tpc' = [tpc EXCEPT ![c] = "resend"]
    /\ UNCHANGED <<fresh, arrived, listVars, hand_list, chunked, resent, exitVars>>

\* ... and resends the packets one by one: tasklet_kill waits for each to be delivered.
ResendSkb(c) ==
    /\ tpc[c] = "resend" /\ hand_list[c] # << >>
    /\ resent' = [resent EXCEPT ![c] = Append(@, Head(hand_list[c]))]
    /\ hand_list' = [hand_list EXCEPT ![c] = Tail(@)]
    /\ UNCHANGED <<fresh, arrived, listVars, tpc, chunked, exitVars>>

HandleEnd(c) ==
    /\ tpc[c] = "resend" /\ hand_list[c] = << >>
    /\ tpc' = [tpc EXCEPT ![c] = "idle"]
    /\ chunked' = [chunked EXCEPT ![c] = 0]
    /\ UNCHANGED <<fresh, arrived, listVars, hand_list, resent, exitVars>>

-----------------------------------------------------------------------------
(* mexit, up to destroy_workqueue(skb_wq) *)

\* unregister_jprobe; no probe handler runs any more.
Unregister ==
    /\ mpc = "loaded"
    /\ mpc' = "flush"
    /\ UNCHANGED <<fresh, arrived, listVars, threadVars, resent, cpu, rem>>

\* flush_workqueue; the loop of clear_remainder_skb starts from the first CPU.
FlushWorkqueue ==
    /\ mpc = "flush" /\ Flushed
    /\ mpc' = "clear"
    /\ cpu' = 0 /\ rem' = 0
    /\ UNCHANGED <<fresh, arrived, listVars, threadVars, resent>>

\* clear_remainder_skb's loop: count an empty list, or queue the CPU's work item on the
\* CPU where mexit happens to run.
ClearCpu ==
    /\ mpc = "clear" /\ cpu < NumCpus
    /\ IF skb_list[cpu] = << >>
       THEN rem' = rem + 1 /\ UNCHANGED <<work, wq>>
       ELSE (\E at \in Cpus : QueueWork(cpu, at)) /\ UNCHANGED rem
    /\ cpu' = cpu + 1
    /\ UNCHANGED <<fresh, arrived, skb_list, threadVars, resent, mpc>>

\* After the loop: return, or flush and start again.
AllClear_Any == rem # 0
AllClear == rem = NumCpus

ClearAgain ==
    /\ mpc = "clear" /\ cpu = NumCpus
    /\ mpc' = IF AllClear THEN "cleared" ELSE "flush"
    /\ UNCHANGED <<fresh, arrived, listVars, threadVars, resent, cpu, rem>>

\* destroy_workqueue flushes and stops the threads.
DestroyWorkqueue ==
    /\ mpc = "cleared" /\ Flushed
    /\ mpc' = "done"
    /\ UNCHANGED <<fresh, arrived, listVars, threadVars, resent, cpu, rem>>

Unloaded == mpc = "done" /\ UNCHANGED vars

-----------------------------------------------------------------------------
Init ==
    /\ fresh = Packets
    /\ arrived = [c \in Cpus |-> << >>] /\ skb_list = [c \in Cpus |-> << >>]
    /\ work = [c \in Cpus |-> FALSE] /\ wq = [c \in Cpus |-> << >>]
    /\ tpc = [c \in Cpus |-> "idle"] /\ hand_list = [c \in Cpus |-> << >>]
    /\ chunked = [c \in Cpus |-> 0]
    /\ resent = [c \in Cpus |-> << >>]
    /\ mpc = "loaded" /\ cpu = 0 /\ rem = 0

Handler(c) ==
    RunWork(c) \/ TakeList(c) \/ Partition(c) \/ ReadData(c) \/ ResendSkb(c) \/ HandleEnd(c)

ExitStep == FlushWorkqueue \/ ClearCpu \/ ClearAgain \/ DestroyWorkqueue

Next ==
    \/ \E p \in Packets : Ignore(p) \/ \E c \in Cpus : Capture(c, p)
    \/ \E c \in Cpus : Handler(c)
    \/ Unregister \/ ExitStep
    \/ Unloaded

Spec == Init /\ [][Next]_vars

\* The workqueue threads and, once it has started, mexit are scheduled.  Nothing makes
\* packets arrive or the module go, and nothing moves mexit to a particular CPU.
FairSpec == Spec /\ (\A c \in Cpus : WF_vars(Handler(c))) /\ WF_vars(ExitStep)

-----------------------------------------------------------------------------
(* Properties *)

\* Every variable keeps its type.
TypeOK ==
    /\ fresh \in SUBSET Packets
    /\ arrived \in [Cpus -> Seq(Packets)] /\ skb_list \in [Cpus -> Seq(Packets)]
    /\ work \in [Cpus -> BOOLEAN] /\ wq \in [Cpus -> Seq(Cpus)]
    /\ tpc \in [Cpus -> {"idle", "take", "chunk", "resend"}]
    /\ hand_list \in [Cpus -> Seq(Packets)] /\ chunked \in [Cpus -> Nat]
    /\ resent \in [Cpus -> Seq(Packets)]
    /\ mpc \in {"loaded", "flush", "clear", "cleared", "done"}
    /\ cpu \in 0 .. NumCpus /\ rem \in 0 .. NumCpus

\* What was captured on a CPU is what was resent, then what its handler holds, then what
\* waits, in the order of arrival: nothing is lost, doubled or overtaken.
InOrder == \A c \in Cpus : arrived[c] = resent[c] \o hand_list[c] \o skb_list[c]

\* clear_remainder_skb returns, and the workqueue is destroyed, only when every captured
\* packet has been resent and no handler runs: the store is torn down after the last one.
ClearedMeansDrained ==
    mpc \in {"cleared", "done"} =>
        \A c \in Cpus : /\ arrived[c] = resent[c]
                        /\ tpc[c] = "idle" /\ wq[c] = << >> /\ ~work[c]

\* The inductive invariant behind InOrder and ClearedMeansDrained.

\* A handler that has not taken a list holds nothing.
HandOK == \A c \in Cpus : tpc[c] \in {"idle", "take"} => hand_list[c] = << >>

\* A work item that is pending is in some queue.
QueuedOK == \A c \in Cpus : work[c] => \E d \in Cpus : Contains(wq[d], c)

\* While clear_remainder_skb's loop has met only empty lists it has queued nothing, so
\* nothing runs, and those lists stay empty.
Quiet == Flushed /\ \A c \in Cpus : ~work[c]
ClearOK ==
    /\ mpc = "clear" => rem <= cpu
    /\ mpc = "clear" /\ rem = cpu => Quiet /\ \A c \in 0 .. cpu - 1 : skb_list[c] = << >>
    /\ mpc \in {"cleared", "done"} => Quiet /\ \A c \in Cpus : skb_list[c] = << >>

PipelineInv == TypeOK /\ InOrder /\ HandOK /\ QueuedOK /\ ClearOK

\* A captured packet is resent, unless more than Threshold packets arrived on its CPU.
PacketResent ==
    \A c \in Cpus, p \in Packets :
        Contains(arrived[c], p) ~> (Contains(resent[c], p) \/ Len(arrived[c]) > Threshold)

\* Unloading ends when no list was longer than Threshold: flush_workqueue empties them all.
UnloadEnds ==
    (mpc = "flush" /\ \A c \in Cpus : Len(arrived[c]) <= Threshold) ~> mpc = "done"

\* clear_remainder_skb's loop ends whatever waits on the lists, as the message it ends with
\* supposes.
UnloadEndsAlways == mpc = "flush" ~> mpc = "done"
=============================================================================
