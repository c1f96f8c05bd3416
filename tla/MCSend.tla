------------------------------- MODULE MCSend -------------------------------
(* Send with three contents, one of them too short to be replaced. *)
EXTENDS Send, TLC

CONSTANTS a, b, s, c1, c2

MCLength == (a :> 6) @@ (b :> 5) @@ (s :> 2)
MCContexts == {<<c1, "process">>, <<c1, "softirq">>, <<c2, "process">>}
MCPayloads == {<<b>>, <<a, s, a>>}
MCBucketOf(d) == IF d = <<a>> THEN 1 ELSE 2
MCTimerCpu == (1 :> c1) @@ (2 :> c2)
=============================================================================
