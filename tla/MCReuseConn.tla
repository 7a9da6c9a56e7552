---------------------------- MODULE MCReuseConn ----------------------------
(* Small instances of ReuseConn.  A call dials at most once (an exchange on *)
(* a new connection is not retried), so as many connections as calls are    *)
(* all that can ever be made.                                               *)
EXTENDS ReuseConn, TLC

CONSTANTS q1, q2, c1, c2

TwoCalls == {q1, q2}
TwoConns == {c1, c2}

CloseOnly == {[cancels |-> 0, strays |-> 0, close |-> TRUE]}
CancelOrClose == {[cancels |-> 1, strays |-> 0, close |-> FALSE],
                  [cancels |-> 0, strays |-> 1, close |-> TRUE]}
=============================================================================
