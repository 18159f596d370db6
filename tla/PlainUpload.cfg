\* Two entries, two clicks: a retry, a batch overlapping another, and an
\* attempt that lands after the page has given it up.
CONSTANTS
    Files = {f, g}
    MaxBatches = 2
SPECIFICATION FairSpec
PROPERTIES ShownIsTrue DoneIsNotResent BannerIsTrue BatchEnds
CHECK_DEADLOCK FALSE
