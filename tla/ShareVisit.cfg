\* Two tabs of one browser, any two of the five shares.  The user may stop at
\* any time.
CONSTANTS
    Tabs = {t1, t2}
    NoShare = none
    request = request
    folder = folder
    album = album
    photoRequest = photoRequest
    drive = drive
    Shares <- MCShares
    Service <- MCService
    Kind <- MCKind
    Locked <- MCLocked
SPECIFICATION Spec
INVARIANTS JarIsEarned ContentNeedsPassword CollisionNeedsSibling DownloadRechecked LayoutIsKnown
SYMMETRY Symmetry
CHECK_DEADLOCK FALSE
