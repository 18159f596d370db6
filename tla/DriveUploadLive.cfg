\* Liveness under the fairness of the handlers and of the page's
\* continuations.  No symmetry.  The user may stop at any time.
CONSTANTS
    Files = {f1, f2}
    MaxBatches = 1
    MaxRestarts = 1
    Protected = TRUE
SPECIFICATION FairSpec
PROPERTIES BatchEnds DoneIsReported
CHECK_DEADLOCK FALSE
