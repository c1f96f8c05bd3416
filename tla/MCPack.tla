------------------------------- MODULE MCPack -------------------------------
(* Pack with all payloads of up to MaxLen bytes. *)
EXTENDS Pack

CONSTANT MaxLen

MCPayloads == UNION {[1 .. n -> Bytes] : n \in 1 .. MaxLen}
=============================================================================
