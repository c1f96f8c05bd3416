----------------------------- MODULE MCPartition -----------------------------
(* Partition over all short payloads of a small signed alphabet. *)
EXTENDS Partition

MCBytes == {-3, 0, 1}
=============================================================================
