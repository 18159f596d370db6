\* Two entries, two clicks on Upload, one restart.  The user may stop at any
\* time, so an idle page with every click used is no deadlock.
CONSTANTS
    Files = {f1, f2}
    MaxBatches = 2
    MaxRestarts = 1
    Protected = FALSE
SYMMETRY Symmetry
SPECIFICATION Spec
INVARIANTS DoneIsStored NoNeedlessCopy NoticeIsTrue OneFolderPerBatch
PROPERTY BannerIsEarned
CHECK_DEADLOCK FALSE
