--------------------------- MODULE MCDomainOutput ---------------------------
(* Small instances of DomainOutput: one request of the API at a time.       *)
EXTENDS DomainOutput, TLC

CONSTANTS d1, d2, r1

TwoDomains == {d1, d2}
OneServer == {r1}
=============================================================================
