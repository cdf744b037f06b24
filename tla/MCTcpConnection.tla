--------------------------- MODULE MCTcpConnection ---------------------------
(* TcpConnection for the model checker: the payloads.  With MaxFrame = 1   *)
(* there is one that is empty, one at the limit and one above it.          *)
EXTENDS TcpConnection, TLC

CONSTANTS w1, w2

Payloads == w1 :> <<<<>>, <<7>>>> @@ w2 :> <<<<8, 9>>>>
=============================================================================
