CONSTANTS
    Seqs = {1, 2, 3}
    MaxRetries = 3
SPECIFICATION Spec
INVARIANTS
    BudgetPerGap
PROPERTIES
    AskedUntilSpent
