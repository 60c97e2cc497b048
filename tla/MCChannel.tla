----------------------------- MODULE MCChannel ------------------------------
(* A program of three threads on one channel: each may send; the first closes   *)
(* it, and the other two receive, one trying and one with a time limit.        *)
EXTENDS Channel, TLC

CONSTANTS t1, t2, t3

Calls == t1 :> {"send", "close"} @@ t2 :> {"send", "recv", "try_recv"} @@ t3 :> {"send", "recv", "recv_timeout"}
=============================================================================
