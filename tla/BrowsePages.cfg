\* Six listings: enough for answers of two folders left behind to arrive in
\* either order, and for clicks on what they show.  Albums of up to five
\* photos in pages of two, while two are added or removed.  Downloads of up
\* to two chunks: they break before, between and after chunks.
CONSTANTS
    r = r
    d = d
    e = e
    x = x
    y = y
    Nodes <- MCNodes
    Folders <- MCFolders
    Root = r
    PathOf <- MCPathOf
    MaxLoads = 6
    MaxUnlocks = 2
    PageLimit = 2
    Viewport = 1
    MaxAlbum = 5
    MaxChanges = 2
    MaxBody = 2
SPECIFICATION FairSpec
INVARIANTS FolderIsConsistent GridIsAlbum WholeOrBroken ArchiveIsFinished
PROPERTIES LoadingEnds PrepareEnds GoneEndsRequest
CHECK_DEADLOCK FALSE
