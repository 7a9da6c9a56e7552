------------------------------ MODULE MCRequery -----------------------------
(* Small instances of Requery.                                              *)
EXTENDS Requery, TLC

CONSTANTS d1, t1, t2, ui

OneDomain == {d1}
TwoTasks == {t1, t2}
Servers == Tasks \cup {ui}
=============================================================================
