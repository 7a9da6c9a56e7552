SPECIFICATION FairSpec
CONSTANTS
    f1 = f1
    f2 = f2
    f3 = f3
    f4 = f4
    Managed <- ManagedFiles
    Created <- CreatedFiles
    Deleted <- DeletedFiles
    Budgets <- AllBudgets
CHECK_DEADLOCK FALSE
INVARIANTS EditsSurvive RollbackIsExact VerifiedIsComplete VerifiedAfterFault
INVARIANTS OldBinaryOldConfig ServesWholeConfig
PROPERTIES UpdateEndsInService
