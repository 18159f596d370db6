\* Stops at the first behaviour that contradicts the statement: one entry, two
\* clicks, no restart.
CONSTANTS
    Files = {f1}
    MaxBatches = 2
    MaxRestarts = 0
    Protected = FALSE
SPECIFICATION Spec
INVARIANT RetryReusesFolder
CHECK_DEADLOCK FALSE
