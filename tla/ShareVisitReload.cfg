\* One tab.  The session call before the unlock cannot be parsed.
CONSTANTS
    Tabs = {t1}
    NoShare = none
    request = request
    folder = folder
    album = album
    photoRequest = photoRequest
    drive = drive
    Shares <- MCShares
    Service <- MCService
    Kind <- MCKind
    Locked <- MCLocked
SPECIFICATION Spec
INVARIANT ReloadOpensUpload
CHECK_DEADLOCK FALSE
