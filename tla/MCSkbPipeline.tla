--------------------------- MODULE MCSkbPipeline ---------------------------
(* SkbPipeline with a few packets; one handle_skb takes some of them. *)
EXTENDS SkbPipeline
=============================================================================
