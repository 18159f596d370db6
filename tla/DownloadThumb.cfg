\* Stops at the first behaviour that contradicts the statement.
CONSTANT MaxBody = 1
SPECIFICATION DownloadSpec
INVARIANT CacheIsWhole
CHECK_DEADLOCK FALSE
