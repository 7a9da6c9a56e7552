---------------------------- MODULE MCUpdateGuard ----------------------------
(* UpdateGuard with two files the package replaces, one it creates, one it  *)
(* deletes.                                                                 *)
EXTENDS UpdateGuard

CONSTANTS f1, f2, f3, f4

ManagedFiles == {f1, f2}
CreatedFiles == {f3}
DeletedFiles == {f4}

Guarded == [crashes |-> 2, faults |-> 0, edits |-> 1, stops |-> 1, backups |-> 6, updates |-> 2,
            install |-> FALSE]
Faulty == [crashes |-> 2, faults |-> 1, edits |-> 0, stops |-> 1, backups |-> 3, updates |-> 1,
           install |-> TRUE]

ByHand == [crashes |-> 2, faults |-> 0, edits |-> 1, stops |-> 1, backups |-> 4, updates |-> 0,
           install |-> TRUE]

AllBudgets == {Guarded, Faulty, ByHand}
=============================================================================
