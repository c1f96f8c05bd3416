----------------------------- MODULE MCNetlink -----------------------------
(***************************************************************************)
(* Netlink for TLC.                                                        *)
(***************************************************************************)
EXTENDS Netlink
=============================================================================
