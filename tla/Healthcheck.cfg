CONSTANTS
    Grace = 4
    Retries = 3
    TmpWritable = TRUE
SPECIFICATION FairSpec
INVARIANTS
    GraceHonoured
PROPERTIES
    DeadStreamReported
