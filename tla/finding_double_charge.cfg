SPECIFICATION Spec
CONSTANTS
    MaxTime = 3
    Closers <- KillAndReconciler
CHECK_DEADLOCK FALSE
INVARIANTS BilledOnce
