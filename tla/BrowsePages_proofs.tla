------------------------- MODULE BrowsePages_proofs -------------------------
(***************************************************************************)
(* Theorems about BrowsePages: for any share that is a tree, any album and *)
(* page size and any number of clicks, what is shown belongs to where the  *)
(* visitor is, under the conditions the two properties name; and for       *)
(* bodies of any length, what is downloaded is whole or seen to be cut.    *)
(***************************************************************************)
EXTENDS BrowsePages, Download_proofs, SequenceTheorems

-----------------------------------------------------------------------------
(* Sequences of no and of one element                                      *)

LEMMA NoneOf ==
  ASSUME NEW S
  PROVE  <<>> \in Seq(S) /\ \A s \in Seq(S) : Len(s) = 0 <=> s = <<>>
  OBVIOUS

LEMMA OneOf ==
  ASSUME NEW S, NEW x \in S
  PROVE  /\ <<x>> \in Seq(S) /\ Len(<<x>>) = 1 /\ <<x>>[1] = x
         /\ Append(<<>>, x) = <<x>>
  OBVIOUS

LEMMA OneReplaced ==
  ASSUME NEW S, NEW s \in Seq(S), Len(s) = 1, NEW x \in S
  PROVE  LET t == [s EXCEPT ![1] = x]
         IN  t \in Seq(S) /\ Len(t) = 1 /\ t[1] = x
  <1>1. 1 \in 1 .. Len(s)
    OBVIOUS
  <1> QED
    BY <1>1, ExceptSeq

LEMMA FirstOf ==
  ASSUME NEW S, NEW s \in Seq(S), Len(s) = 1
  PROVE  s[1] \in S /\ DOMAIN s = {1}
  OBVIOUS

-----------------------------------------------------------------------------
(* The folder page                                                         *)

\* The types that matter, and that the table is empty while the one listing
\* asked for is under way.
FolderInv ==
    /\ kind \in {"sharing", "drive"}
    /\ trail \in Seq(Folders) /\ Len(trail) > 0
    /\ listings \in Seq(Folders)
    /\ ~overlapped =>
          \/ listings = <<>>
          \/ listings = <<Here>> /\ table = "loading"
    /\ FolderIsConsistent

LEMMA Tree ==
  ASSUME NEW n \in Nodes
  PROVE  /\ PathOf[n] \in Seq(Nodes) /\ Len(PathOf[n]) \in Nat \ {0}
         /\ PathOf[n][Len(PathOf[n])] = n
         /\ \A i \in 1 .. Len(PathOf[n]) - 1 :
               /\ PathOf[n][i] \in Folders
               /\ PathOf[PathOf[n][i]] = SubSeq(PathOf[n], 1, i)
  <1>1. PathOf[n] \in Seq(Nodes) /\ Len(PathOf[n]) > 0
    BY ShareIsTree DEF ShareIsTree
  <1>2. Len(PathOf[n]) \in Nat \ {0}
    BY <1>1
  <1> QED
    BY <1>1, <1>2, ShareIsTree, Zenon DEF ShareIsTree

LEMMA PathsOfFolders ==
  ASSUME NEW d \in Folders
  PROVE  PathOf[d] \in Seq(Folders) /\ Len(PathOf[d]) > 0 /\ IsPath(PathOf[d])
  <1>1. d \in Nodes
    BY ShareIsTree DEF ShareIsTree
  <1>2. /\ PathOf[d] \in Seq(Nodes) /\ Len(PathOf[d]) \in Nat \ {0}
        /\ PathOf[d][Len(PathOf[d])] = d
        /\ \A i \in 1 .. Len(PathOf[d]) - 1 : PathOf[d][i] \in Folders
    BY <1>1, Tree
  <1>3. \A i \in 1 .. Len(PathOf[d]) : PathOf[d][i] \in Folders
    <2> TAKE i \in 1 .. Len(PathOf[d])
    <2>1. CASE i = Len(PathOf[d])
      BY <1>2, <2>1
    <2>2. CASE i # Len(PathOf[d])
      BY <1>2, <2>2
    <2> QED
      BY <2>1, <2>2
  <1>4. PathOf[d] \in Seq(Folders)
    <2> DEFINE p == PathOf[d]
    <2>1. p \in Seq(Nodes) /\ \A i \in 1 .. Len(p) : p[i] \in Folders
      BY <1>2, <1>3
    <2> HIDE DEF p
    <2>2. p \in Seq(Folders)
      BY <2>1
    <2> QED
      BY <2>2 DEF p
  <1> QED
    BY <1>2, <1>4 DEF IsPath

\* A cut path is the path of its last folder.
LEMMA PrefixesOfPaths ==
  ASSUME NEW t \in Seq(Folders), NEW i \in 1 .. Len(t) - 1
  PROVE  /\ SubSeq(t, 1, i) \in Seq(Folders)
         /\ Len(SubSeq(t, 1, i)) > 0
         /\ SubSeq(t, 1, i)[Len(SubSeq(t, 1, i))] = t[i]
         /\ IsPath(t) => IsPath(SubSeq(t, 1, i))
  <1>1. /\ SubSeq(t, 1, i) \in Seq(Folders)
        /\ Len(SubSeq(t, 1, i)) = i
        /\ SubSeq(t, 1, i)[i] = t[i]
    OBVIOUS
  <1>2. ASSUME IsPath(t) PROVE IsPath(SubSeq(t, 1, i))
    <2>1. t[Len(t)] \in Nodes /\ t = PathOf[t[Len(t)]]
      BY <1>2, ShareIsTree DEF IsPath, ShareIsTree
    <2>2. PathOf[t[i]] = SubSeq(t, 1, i)
      BY <2>1, Tree
    <2> QED
      BY <1>1, <2>2 DEF IsPath
  <1> QED
    BY <1>1, <1>2

\* What asking for a listing does to the invariant, once the trail is right.
LEMMA LoadKeeps ==
  ASSUME FolderInv, NEW d \in Folders, LoadFiles(d), kind' = kind,
         trail' \in Seq(Folders), Len(trail') > 0, trail'[Len(trail')] = d,
         kind = "sharing" \/ ~overlapped' => IsPath(trail')
  PROVE  FolderInv'
  <1>1. /\ table' = "loading" /\ selected' = {}
        /\ listings' = Append(listings, d)
        /\ ~overlapped' => listings = <<>>
    BY DEF LoadFiles
  <1>2. Here' = d
    BY DEF Here
  <1>3. listings' \in Seq(Folders)
    BY <1>1 DEF FolderInv
  <1>4. ~overlapped' => listings' = <<Here'>>
    BY <1>1, <1>2
  <1> QED
    BY <1>1, <1>3, <1>4 DEF FolderInv, FolderIsConsistent, IsPath

LEMMA FolderInitially == FolderInit => FolderInv
  <1> SUFFICES ASSUME FolderInit PROVE FolderInv
    OBVIOUS
  <1>1. Root \in Folders /\ PathOf[Root] = <<Root>>
    BY ShareIsTree DEF ShareIsTree
  <1>2. /\ trail = <<Root>> /\ trail \in Seq(Folders) /\ Len(trail) = 1
        /\ trail[Len(trail)] = Root
    BY <1>1 DEF FolderInit
  <1>3. IsPath(trail) /\ Here = Root
    BY <1>1, <1>2 DEF IsPath, Here
  <1>4. /\ table = "loading" /\ selected = {}
        /\ listings = <<>> \/ listings = <<Root>>
    BY DEF FolderInit
  <1>5. listings \in Seq(Folders)
    BY <1>1, <1>4, NoneOf, OneOf, Zenon
  <1>6. FolderIsConsistent
    BY <1>3, <1>4 DEF FolderIsConsistent
  <1>7. kind \in {"sharing", "drive"}
    BY DEF FolderInit
  <1> QED
    BY <1>2, <1>3, <1>4, <1>5, <1>6, <1>7 DEF FolderInv

\* A click on a row: the row is in the folder shown, which is the folder the
\* trail ends in unless listings overlapped.
LEMMA ClickFolderKeeps ==
  ASSUME FolderInv, NEW d \in Folders, ClickFolder(d)
  PROVE  FolderInv'
  <1>1. /\ d \in Nodes /\ table \in Folders
        /\ PathOf[d] = Append(PathOf[table], d)
    BY ShareIsTree DEF ShareIsTree, ClickFolder, Rows, Children
  <1>2. PathOf[d] \in Seq(Folders) /\ Len(PathOf[d]) > 0 /\ IsPath(PathOf[d])
    BY PathsOfFolders
  <1>3. PathOf[d][Len(PathOf[d])] = d
    BY <1>1, Tree
  <1>4. LoadFiles(d) /\ kind' = kind /\ trail' = NewTrail(d)
    BY DEF ClickFolder
  <1>5. CASE kind = "sharing"
    <2>1. trail' = PathOf[d]
      BY <1>4, <1>5 DEF NewTrail
    <2>2. IsPath(trail')
      BY <1>2, <2>1 DEF IsPath
    <2> QED
      BY <1>2, <1>3, <1>4, <2>1, <2>2, LoadKeeps
  <1>6. CASE kind # "sharing"
    <2>1. trail' = Append(trail, d)
      BY <1>4, <1>6 DEF NewTrail
    <2>2. /\ trail' \in Seq(Folders) /\ Len(trail') > 0
          /\ trail'[Len(trail')] = d
      BY <2>1 DEF FolderInv
    <2>3. ASSUME ~overlapped' PROVE IsPath(trail')
      <3>1. ~overlapped
        BY <1>4, <2>3 DEF LoadFiles
      <3>2. table = Here /\ IsPath(trail)
        BY <1>1, <3>1, ShareIsTree DEF FolderInv, FolderIsConsistent, ShareIsTree
      <3>3. trail' = PathOf[d]
        BY <1>1, <2>1, <3>2 DEF IsPath, Here
      <3> QED
        BY <1>2, <3>3 DEF IsPath
    <2> QED
      BY <1>4, <1>6, <2>2, <2>3, LoadKeeps
  <1> QED
    BY <1>5, <1>6

LEMMA ClickCrumbKeeps ==
  ASSUME FolderInv, NEW i, ClickCrumb(i)
  PROVE  FolderInv'
  <1>1. /\ trail \in Seq(Folders) /\ i \in 1 .. Len(trail) - 1
        /\ trail' = SubSeq(trail, 1, i)
        /\ LoadFiles(trail[i]) /\ kind' = kind
    BY DEF ClickCrumb, FolderInv
  <1>2. trail[i] \in Folders
    BY <1>1
  <1>3. /\ trail' \in Seq(Folders) /\ Len(trail') > 0
        /\ trail'[Len(trail')] = trail[i]
        /\ IsPath(trail) => IsPath(SubSeq(trail, 1, i))
    BY <1>1, PrefixesOfPaths
  <1>4. IsPath(trail) => IsPath(trail')
    BY <1>1, <1>3 DEF IsPath
  <1>5. kind = "sharing" \/ ~overlapped' => IsPath(trail')
    BY <1>1, <1>4 DEF LoadFiles, FolderInv, FolderIsConsistent
  <1> QED
    BY <1>1, <1>2, <1>3, <1>5, LoadKeeps

LEMMA UnlockKeeps ==
  ASSUME FolderInv, UnlockAnswered
  PROVE  FolderInv'
  <1>1. CASE trail' = <<Root>> /\ LoadFiles(Root)
    <2>1. Root \in Folders /\ PathOf[Root] = <<Root>>
      BY ShareIsTree DEF ShareIsTree
    <2>2. /\ trail' \in Seq(Folders) /\ Len(trail') > 0
          /\ trail'[Len(trail')] = Root
      BY <1>1, <2>1
    <2>3. IsPath(trail')
      BY <1>1, <2>1, <2>2 DEF IsPath
    <2> QED
      BY <1>1, <2>1, <2>2, <2>3, LoadKeeps DEF UnlockAnswered
  <1>2. CASE UNCHANGED <<kind, trail, table, selected, listings, overlapped>>
    BY <1>2 DEF FolderInv, FolderIsConsistent, IsPath, Here, Rows
  <1> QED
    BY <1>1, <1>2 DEF UnlockAnswered

\* An answer: without overlap it is the one for the folder the page is in.
LEMMA ListingKeeps ==
  ASSUME FolderInv, NEW i, ListingArrives(i)
  PROVE  FolderInv'
  <1>1. /\ listings \in Seq(Folders) /\ i \in 1 .. Len(listings)
        /\ listings' = Without(listings, i)
        /\ table' = listings[i] \/ table' = "error"
        /\ UNCHANGED <<kind, trail, selected, overlapped>>
    BY DEF ListingArrives, ShowError, FolderInv
  <1>2. listings' \in Seq(Folders)
    BY <1>1 DEF Without
  <1>3. ASSUME ~overlapped
        PROVE  /\ listings' = <<>>
               /\ table' \in {Here', "loading", "error"} /\ selected' = {}
    <2>1. listings = <<Here>> /\ table = "loading"
      BY <1>1, <1>3 DEF FolderInv
    <2>2. i = 1 /\ listings[1] = Here
      BY <1>1, <2>1
    <2>3. listings' = <<>>
      BY <1>1, <2>1, <2>2 DEF Without
    <2>4. selected = {}
      BY <1>3, <2>1, ShareIsTree DEF FolderInv, FolderIsConsistent, Rows, ShareIsTree
    <2> QED
      BY <1>1, <2>2, <2>3, <2>4 DEF Here
  <1> QED
    BY <1>1, <1>2, <1>3 DEF FolderInv, FolderIsConsistent, IsPath

LEMMA FolderStep == FolderInv /\ FolderNext => FolderInv'
  <1> SUFFICES ASSUME FolderInv, FolderNext PROVE FolderInv'
    OBVIOUS
  <1> USE DEF FolderInv, FolderIsConsistent, IsPath, Here, Rows
  <1>1. CASE SubmitPassword
    BY <1>1 DEF SubmitPassword
  <1>2. ASSUME NEW n \in Nodes, Check(n) PROVE FolderInv'
    BY <1>2 DEF Check
  <1>3. CASE ClearSelection
    BY <1>3 DEF ClearSelection
  <1> HIDE DEF FolderInv
  <1>4. CASE Arrival
    BY <1>4, ListingKeeps DEF Arrival
  <1> QED
    BY <1>1, <1>2, <1>3, <1>4, UnlockKeeps, ClickFolderKeeps, ClickCrumbKeeps
       DEF FolderNext

-----------------------------------------------------------------------------
(* The gallery                                                             *)

\* p is what the album has from place n on.
Matches(n, p) ==
    /\ n + Len(p) <= Len(album)
    /\ \A k \in 1 .. Len(p) : p[k] = album[n + k]

\* A short page was the end of the album when it was read.
PageInv(p) ==
    /\ Len(p) <= PageLimit
    /\ Matches(offset, p)
    /\ IsLastPage(p) => Len(album) - (offset + Len(p)) <= changes

RequestInv(r) ==
    /\ r.at = offset
    /\ r.state \in {"failed", "lost"} => broken
    /\ (r.state = "page" /\ ~shifted) => PageInv(r.page)

\* There is one request at most, it continues the grid, and the grid, with
\* the page on its way, is a beginning of the album.
GalleryInv ==
    /\ album \in Seq(Nat) /\ photos \in Seq(Nat) /\ changes \in Nat
    /\ offset = Len(photos)
    /\ loading \in BOOLEAN /\ done \in BOOLEAN
    /\ requests \in Seq(Request)
    /\ Len(requests) = IF loading THEN 1 ELSE 0
    /\ done => ~loading
    /\ loading => RequestInv(requests[1])
    /\ ~shifted => /\ Matches(0, photos)
                   /\ (done /\ ~broken) => Len(album) - Len(photos) <= changes

LEMMA GalleryInitially == GalleryInit => GalleryInv
  <1> SUFFICES ASSUME GalleryInit PROVE GalleryInv
    OBVIOUS
  <1> USE DEF GalleryInit
  <1>1. PICK n \in 0 .. MaxAlbum : album = [i \in 1 .. n |-> i]
    OBVIOUS
  <1>2. n \in Nat
    BY GallerySizes DEF GallerySizes
  <1>3. album \in Seq(Nat) /\ Len(album) = n
    BY <1>1, <1>2
  <1>4. Ask(0) \in Request /\ Ask(0).at = 0 /\ Ask(0).state = "sent"
    BY DEF Ask, Request
  <1>5. /\ photos = <<>> /\ photos \in Seq(Nat) /\ Len(photos) = 0
        /\ offset = 0 /\ changes = 0 /\ done = FALSE /\ loading = shown
        /\ loading \in BOOLEAN
    OBVIOUS
  <1>6. Matches(0, photos)
    BY <1>3, <1>2, <1>5 DEF Matches
  <1>7. /\ requests \in Seq(Request) /\ Len(requests) = IF loading THEN 1 ELSE 0
        /\ loading => requests[1] = Ask(0)
    <2>1. CASE shown
      <3>1. requests = <<Ask(0)>>
        BY <2>1
      <3> QED
        BY <1>4, <1>5, <2>1, <3>1, OneOf
    <2>2. CASE ~shown
      <3>1. requests = <<>>
        BY <2>2
      <3> QED
        BY <1>5, <2>2, <3>1, NoneOf
    <2> QED
      BY <2>1, <2>2
  <1>8. loading => RequestInv(requests[1])
    BY <1>4, <1>5, <1>7 DEF RequestInv
  <1> HIDE DEF GalleryInit
  <1> QED
    BY <1>3, <1>5, <1>6, <1>7, <1>8 DEF GalleryInv

\* loadNextPage asks for what follows the grid, once.
LEMMA LoadNextKeeps ==
  ASSUME GalleryInv, LoadNextPage,
         UNCHANGED <<album, changes, photos, offset, done, broken, shifted>>
  PROVE  GalleryInv'
  <1>1. /\ Matches(0, photos)' <=> Matches(0, photos)
        /\ \A r : RequestInv(r)' <=> RequestInv(r)
    BY DEF Matches, RequestInv, PageInv, IsLastPage
  <1>2. CASE MayLoad
    <2>1. ~loading /\ ~done
      BY <1>2 DEF MayLoad
    <2>2. requests = <<>> /\ offset \in Nat
      BY <2>1, NoneOf DEF GalleryInv
    <2>3. requests' = Append(<<>>, Ask(offset)) /\ loading' = TRUE
      BY <1>2, <2>2, Zenon DEF LoadNextPage
    <2>4. /\ Ask(offset) \in Request
          /\ Ask(offset).at = offset /\ Ask(offset).state = "sent"
      BY <2>2 DEF Ask, Request
    <2>5. /\ requests' \in Seq(Request) /\ Len(requests') = 1
          /\ requests'[1] = Ask(offset)
      BY <2>3, <2>4, OneOf
    <2>6. RequestInv(requests[1])'
      BY <2>4, <2>5 DEF RequestInv
    <2> QED
      BY <1>1, <2>1, <2>3, <2>5, <2>6 DEF GalleryInv
  <1>3. CASE ~MayLoad
    <2>1. loading' = loading /\ requests' = requests
      BY <1>3 DEF LoadNextPage, GalleryInv
    <2> QED
      BY <1>1, <2>1 DEF GalleryInv
  <1> QED
    BY <1>2, <1>3

\* The one request there is takes a new state.
LEMMA RequestAnswered ==
  ASSUME GalleryInv, NEW i \in DOMAIN requests,
         NEW s \in {"failed", "lost", "page"}, NEW p \in Seq(Nat),
         requests' = [requests EXCEPT ![i].state = s, ![i].page = p]
  PROVE  /\ loading /\ i = 1
         /\ requests' \in Seq(Request) /\ Len(requests') = 1
         /\ requests'[1].at = offset
         /\ requests'[1].state = s /\ requests'[1].page = p
  <1>1. requests \in Seq(Request) /\ Len(requests) = IF loading THEN 1 ELSE 0
    BY DEF GalleryInv
  <1>2. i \in 1 .. Len(requests)
    BY <1>1
  <1>3. Len(requests) = 1 /\ loading /\ i = 1
    BY <1>1, <1>2
  <1>4. requests[1] \in Request /\ requests[1].at = offset
    <2>1. requests[1] \in Request
      BY <1>1, <1>3, FirstOf
    <2>2. RequestInv(requests[1])
      BY <1>3 DEF GalleryInv
    <2> QED
      BY <2>1, <2>2 DEF RequestInv
  <1>5. /\ requests' \in Seq(Request) /\ Len(requests') = 1
        /\ requests'[1] = [requests[1] EXCEPT !.state = s, !.page = p]
    <2> DEFINE r == [requests[1] EXCEPT !.state = s, !.page = p]
    <2>1. r \in Request
      BY <1>4 DEF Request
    <2>2. requests' = [requests EXCEPT ![1] = r]
      BY <1>1, <1>3
    <2> HIDE DEF r
    <2>3. requests' \in Seq(Request) /\ Len(requests') = 1 /\ requests'[1] = r
      BY <1>1, <1>3, <2>1, <2>2, OneReplaced
    <2> QED
      BY <2>3 DEF r
  <1>6. /\ requests'[1].at = offset
        /\ requests'[1].state = s /\ requests'[1].page = p
    BY <1>4, <1>5 DEF Request
  <1> QED
    BY <1>3, <1>5, <1>6

LEMMA ListItemsKeeps ==
  ASSUME GalleryInv, NEW i, ListItems(i)
  PROVE  GalleryInv'
  <1> DEFINE end == Smaller(requests[i].at + PageLimit, Len(album))
             p == SubSeq(album, requests[i].at + 1, end)
  <1>1. i \in DOMAIN requests
    BY DEF ListItems
  <1>2. /\ loading /\ i = 1 /\ requests[i].at = offset /\ offset \in Nat
        /\ album \in Seq(Nat) /\ Len(album) \in Nat /\ PageLimit \in Nat \ {0}
    BY <1>1, GallerySizes DEF GalleryInv, RequestInv, GallerySizes
  <1>3. end \in Nat /\ end <= Len(album) /\ end <= offset + PageLimit
    BY <1>2 DEF Smaller
  <1>4. /\ p \in Seq(Nat)
        /\ Len(p) = IF offset + 1 <= end THEN end - offset ELSE 0
        /\ \A k \in 1 .. end - offset : p[k] = album[offset + k]
    <2>1. \A k \in offset + 1 .. end : album[k] \in Nat
      BY <1>2, <1>3
    <2> HIDE DEF end
    <2> QED
      BY <1>2, <1>3, <2>1, SubSeqProperties
  <1>5. requests' = [requests EXCEPT ![i].state = "page", ![i].page = p]
    BY DEF ListItems
  <1>6. ASSUME ~shifted PROVE PageInv(p)
    <2>1. offset <= Len(album) /\ changes \in Nat
      BY <1>2, <1>6 DEF GalleryInv, Matches
    <2>2. end < offset + PageLimit => end = Len(album)
      BY <1>2 DEF Smaller
    <2>3. offset <= end
      BY <1>2, <2>1 DEF Smaller
    <2>4. Len(p) = end - offset
      BY <1>2, <1>3, <1>4, <2>3
    <2> HIDE DEF end, p
    <2> QED
      BY <1>2, <1>3, <1>4, <2>1, <2>2, <2>3, <2>4 DEF PageInv, Matches, IsLastPage
  <1> HIDE DEF p
  <1>7. /\ requests' \in Seq(Request) /\ Len(requests') = 1
        /\ requests'[1].at = offset
        /\ requests'[1].state = "page" /\ requests'[1].page = p
    BY <1>1, <1>4, <1>5, RequestAnswered
  <1>8. UNCHANGED <<album, changes, photos, offset, loading, done, broken, shifted>>
    BY DEF ListItems
  <1> QED
    BY <1>2, <1>6, <1>7, <1>8
       DEF GalleryInv, RequestInv, PageInv, Matches, IsLastPage

LEMMA ListFailsKeeps ==
  ASSUME GalleryInv, NEW i, ListFails(i)
  PROVE  GalleryInv'
  <1>1. PICK s \in {"failed", "lost"} :
           requests' = [requests EXCEPT ![i].state = s, ![i].page = <<>>]
    BY DEF ListFails
  <1>2. i \in DOMAIN requests /\ <<>> \in Seq(Nat)
    BY DEF ListFails
  <1>3. /\ loading
        /\ requests' \in Seq(Request) /\ Len(requests') = 1
        /\ requests'[1].at = offset /\ requests'[1].state = s
    BY <1>1, <1>2, RequestAnswered
  <1>4. /\ UNCHANGED <<album, changes, photos, offset, loading, done, shifted>>
        /\ broken' = TRUE
    BY DEF ListFails
  <1>5. RequestInv(requests[1])'
    BY <1>3, <1>4 DEF RequestInv
  <1>6. Matches(0, photos)' <=> Matches(0, photos)
    BY <1>4 DEF Matches
  <1> QED
    BY <1>3, <1>4, <1>5, <1>6 DEF GalleryInv

\* The album after a photo was added or taken out.
LEMMA PhotoAdded ==
  ASSUME NEW a \in Seq(Nat), NEW p \in 0 .. Len(a), NEW x \in Nat
  PROVE  LET new == SubSeq(a, 1, p) \o <<x>> \o SubSeq(a, p + 1, Len(a))
         IN  /\ new \in Seq(Nat) /\ Len(new) = Len(a) + 1
             /\ \A k \in 1 .. p : new[k] = a[k]
  <1> DEFINE one == SubSeq(a, 1, p)
             two == SubSeq(a, p + 1, Len(a))
  <1>1. Len(a) \in Nat
    OBVIOUS
  <1>2. /\ one \in Seq(Nat) /\ Len(one) = p
        /\ \A k \in 1 .. p : one[k] = a[k]
    <2>1. \A k \in 1 .. p : a[k] \in Nat
      BY <1>1
    <2> QED
      BY <1>1, <2>1, SubSeqProperties
  <1>3. two \in Seq(Nat) /\ Len(two) = Len(a) - p
    <2>1. \A k \in p + 1 .. Len(a) : a[k] \in Nat
      BY <1>1
    <2> QED
      BY <1>1, <2>1, SubSeqProperties
  <1> HIDE DEF one, two
  <1>4. /\ one \o <<x>> \in Seq(Nat) /\ Len(one \o <<x>>) = p + 1
        /\ \A k \in 1 .. p : (one \o <<x>>)[k] = a[k]
    BY <1>2, OneOf, ConcatProperties
  <1> DEFINE three == one \o <<x>>
  <1>5. /\ three \in Seq(Nat) /\ Len(three) = p + 1
        /\ \A k \in 1 .. p : three[k] = a[k]
    BY <1>4
  <1> HIDE DEF three
  <1>6. /\ three \o two \in Seq(Nat) /\ Len(three \o two) = Len(a) + 1
        /\ \A k \in 1 .. p : (three \o two)[k] = a[k]
    <2>1. /\ three \o two \in Seq(Nat)
          /\ Len(three \o two) = Len(three) + Len(two)
          /\ \A k \in 1 .. Len(three) + Len(two) : (three \o two)[k] =
                 IF k <= Len(three) THEN three[k] ELSE two[k - Len(three)]
      BY <1>3, <1>5, ConcatProperties, Zenon
    <2>2. Len(three \o two) = Len(a) + 1
      BY <1>1, <1>3, <1>5, <2>1
    <2>3. \A k \in 1 .. p : (three \o two)[k] = a[k]
      BY <1>1, <1>3, <1>5, <2>1
    <2> QED
      BY <2>1, <2>2, <2>3
  <1> QED
    BY <1>6 DEF one, two, three

LEMMA PhotoRemoved ==
  ASSUME NEW a \in Seq(Nat), NEW p \in 1 .. Len(a)
  PROVE  LET new == SubSeq(a, 1, p - 1) \o SubSeq(a, p + 1, Len(a))
         IN  /\ new \in Seq(Nat) /\ Len(new) = Len(a) - 1
             /\ \A k \in 1 .. p - 1 : new[k] = a[k]
  <1> DEFINE one == SubSeq(a, 1, p - 1)
             two == SubSeq(a, p + 1, Len(a))
  <1>1. Len(a) \in Nat
    OBVIOUS
  <1>2. /\ one \in Seq(Nat) /\ Len(one) = p - 1
        /\ \A k \in 1 .. p - 1 : one[k] = a[k]
    <2>1. \A k \in 1 .. p - 1 : a[k] \in Nat
      BY <1>1
    <2> QED
      BY <1>1, <2>1, SubSeqProperties
  <1>3. two \in Seq(Nat) /\ Len(two) = Len(a) - p
    <2>1. \A k \in p + 1 .. Len(a) : a[k] \in Nat
      BY <1>1
    <2> QED
      BY <1>1, <2>1, SubSeqProperties
  <1> HIDE DEF one, two
  <1>4. /\ one \o two \in Seq(Nat) /\ Len(one \o two) = Len(a) - 1
        /\ \A k \in 1 .. p - 1 : (one \o two)[k] = a[k]
    BY <1>1, <1>2, <1>3, ConcatProperties
  <1> QED
    BY <1>4 DEF one, two

LEMMA OneMore ==
  ASSUME NEW a \in Nat, NEW b \in Nat, NEW e \in Nat, NEW c \in Nat,
         b <= a + 1, a - e <= c
  PROVE  b - e <= c + 1
  OBVIOUS

\* A change that leaves the first n photos alone, where n is at least what
\* was read, or comes after some of it was read.
LEMMA ChangeKeeps ==
  ASSUME GalleryInv, NEW n \in Nat,
         album' \in Seq(Nat), Len(album') <= Len(album) + 1,
         n <= Len(album'), \A k \in 1 .. n : album'[k] = album[k],
         ~shifted' => ~shifted /\ Smaller(ReadUpTo, Len(album)) <= n,
         changes' = changes + 1,
         UNCHANGED <<photos, offset, loading, done, requests, broken>>
  PROVE  GalleryInv'
  <1>1. /\ Len(album) \in Nat /\ Len(album') \in Nat
        /\ offset \in Nat /\ offset = Len(photos) /\ changes \in Nat
        /\ PageLimit \in Nat \ {0}
    BY GallerySizes DEF GalleryInv, GallerySizes
  <1>2. ASSUME ~shifted'
        PROVE  /\ Matches(0, photos)'
               /\ (done /\ ~broken)' => Len(album') - Len(photos') <= changes'
    <2>1. Matches(0, photos) /\ Smaller(ReadUpTo, Len(album)) <= n
      BY <1>2 DEF GalleryInv
    <2>2. offset <= ReadUpTo /\ ReadUpTo \in Nat
      BY <1>1 DEF ReadUpTo
    <2>3. offset <= n
      BY <1>1, <2>1, <2>2 DEF Smaller, Matches
    <2>4. Matches(0, photos)'
      BY <1>1, <2>1, <2>3 DEF Matches
    <2>5. (done /\ ~broken) => Len(album) - Len(photos) <= changes
      BY <1>2 DEF GalleryInv
    <2> QED
      BY <1>1, <2>4, <2>5
  <1>3. ASSUME loading PROVE RequestInv(requests[1])'
    <2> DEFINE r == requests[1]
    <2>1. RequestInv(r) /\ r \in Request /\ DOMAIN requests = {1}
      BY <1>3, FirstOf DEF GalleryInv
    <2>2. ASSUME r.state = "page", ~shifted' PROVE PageInv(r.page)'
      <3>1. PageInv(r.page) /\ r.page \in Seq(Nat)
        BY <2>1, <2>2 DEF RequestInv, Request
      <3>2. Len(r.page) \in Nat
        BY <3>1
      <3>3. ReadUpTo = offset + PageLimit
        BY <2>1, <2>2 DEF ReadUpTo
      <3>4. Smaller(ReadUpTo, Len(album)) <= n
        BY <2>2
      <3>5. offset + Len(r.page) <= n
        BY <1>1, <3>1, <3>2, <3>3, <3>4 DEF Smaller, PageInv, Matches
      <3> HIDE DEF r
      <3>6. r' = r
        BY DEF r
      <3>7. Matches(offset, r.page)'
        BY <1>1, <3>1, <3>2, <3>5, <3>6 DEF PageInv, Matches
      <3>8. Len(r.page) <= PageLimit
        BY <3>1 DEF PageInv
      <3>9. Len(r.page) < PageLimit =>
               Len(album') - (offset + Len(r.page)) <= changes + 1
        <4>1. Len(r.page) < PageLimit =>
                 Len(album) - (offset + Len(r.page)) <= changes
          BY <3>1, Zenon DEF PageInv, IsLastPage
        <4>2. /\ offset + Len(r.page) \in Nat /\ changes \in Nat
              /\ Len(album) \in Nat /\ Len(album') \in Nat
              /\ Len(album') <= Len(album) + 1
          BY <1>1, <3>2
        <4> QED
          BY <4>1, <4>2, OneMore
      <3> QED
        BY <3>6, <3>7, <3>8, <3>9 DEF PageInv, IsLastPage
    <2> QED
      BY <2>1, <2>2 DEF RequestInv
  <1> QED
    BY <1>1, <1>2, <1>3 DEF GalleryInv

LEMMA OwnerAddsKeeps ==
  ASSUME GalleryInv, NEW p, OwnerAdds(p)
  PROVE  GalleryInv'
  <1>1. /\ album \in Seq(Nat) /\ p \in 0 .. Len(album)
        /\ changes' = changes + 1 /\ changes \in Nat /\ MaxAlbum \in Nat
    BY GallerySizes DEF OwnerAdds, GalleryInv, GallerySizes
  <1>2. MaxAlbum + changes' \in Nat
    BY <1>1
  <1>3. /\ album' \in Seq(Nat) /\ Len(album') = Len(album) + 1
        /\ \A k \in 1 .. p : album'[k] = album[k]
    BY <1>1, <1>2, PhotoAdded DEF OwnerAdds
  <1>4. Len(album) \in Nat /\ p \in Nat
    BY <1>1
  <1>5. ReadUpTo \in Nat
    BY GallerySizes DEF ReadUpTo, GallerySizes, GalleryInv
  <1>6. ~shifted' => ~shifted /\ Smaller(ReadUpTo, Len(album)) <= p
    <2>1. shifted' = (shifted \/ p < Smaller(ReadUpTo, Len(album)))
      BY DEF OwnerAdds
    <2>2. ~shifted' => ~shifted /\ ~(p < Smaller(ReadUpTo, Len(album)))
      BY <2>1, Zenon
    <2>3. Smaller(ReadUpTo, Len(album)) \in Nat
      BY <1>4, <1>5 DEF Smaller
    <2> QED
      BY <1>4, <2>2, <2>3
  <1>7. UNCHANGED <<photos, offset, loading, done, requests, broken>>
    BY DEF OwnerAdds
  <1>8. p <= Len(album') /\ Len(album') <= Len(album) + 1
    BY <1>1, <1>3, <1>4
  <1> QED
    BY <1>1, <1>3, <1>4, <1>6, <1>7, <1>8, ChangeKeeps

LEMMA OwnerRemovesKeeps ==
  ASSUME GalleryInv, NEW p, OwnerRemoves(p)
  PROVE  GalleryInv'
  <1>1. /\ album \in Seq(Nat) /\ p \in 1 .. Len(album)
        /\ changes' = changes + 1
    BY DEF OwnerRemoves, GalleryInv
  <1>2. /\ album' \in Seq(Nat) /\ Len(album') = Len(album) - 1
        /\ \A k \in 1 .. p - 1 : album'[k] = album[k]
    BY <1>1, PhotoRemoved DEF OwnerRemoves
  <1>3. /\ Len(album) \in Nat /\ p \in Nat /\ p - 1 \in Nat
        /\ p <= Len(album) /\ p - 1 <= Len(album') /\ Len(album') <= Len(album) + 1
    BY <1>1, <1>2
  <1>4. ReadUpTo \in Nat
    BY GallerySizes DEF ReadUpTo, GallerySizes, GalleryInv
  <1>5. ~shifted' => ~shifted /\ Smaller(ReadUpTo, Len(album)) <= p - 1
    <2>1. shifted' = (shifted \/ p <= ReadUpTo)
      BY DEF OwnerRemoves
    <2>2. ~shifted' => ~shifted /\ ~(p <= ReadUpTo)
      BY <2>1, Zenon
    <2>3. ReadUpTo < p => Smaller(ReadUpTo, Len(album)) <= p - 1
      BY <1>3, <1>4 DEF Smaller
    <2> QED
      BY <1>3, <1>4, <2>2, <2>3
  <1>6. UNCHANGED <<photos, offset, loading, done, requests, broken>>
    BY DEF OwnerRemoves
  <1> QED
    BY <1>1, <1>2, <1>3, <1>5, <1>6, ChangeKeeps

\* The answer of the one request is taken off the list.
LEMMA NoOthers ==
  ASSUME GalleryInv, NEW i \in DOMAIN requests
  PROVE  /\ loading /\ ~done /\ i = 1 /\ Others(i) = <<>>
         /\ requests[1] \in Request /\ RequestInv(requests[1])
  <1>1. requests \in Seq(Request) /\ Len(requests) = IF loading THEN 1 ELSE 0
    BY DEF GalleryInv
  <1>2. i \in 1 .. Len(requests)
    BY <1>1
  <1>3. Len(requests) = 1 /\ loading /\ i = 1
    BY <1>1, <1>2
  <1>4. SubSeq(requests, 1, 0) = <<>> /\ SubSeq(requests, 2, 1) = <<>>
    BY SubSeqEmpty
  <1>5. Others(i) = <<>>
    <2>1. Others(1) = SubSeq(requests, 1, 0) \o SubSeq(requests, 2, 1)
      BY <1>3 DEF Others
    <2>2. <<>> \o <<>> = <<>>
      OBVIOUS
    <2> QED
      BY <1>3, <1>4, <2>1, <2>2
  <1> QED
    BY <1>1, <1>3, <1>5, FirstOf DEF GalleryInv

LEMMA PageArrivesKeeps ==
  ASSUME GalleryInv, NEW i, PageArrives(i)
  PROVE  GalleryInv'
  <1> DEFINE p == requests[1].page
  <1>1. /\ loading /\ ~done /\ i = 1 /\ Others(i) = <<>>
        /\ requests[1] \in Request /\ RequestInv(requests[1])
    BY NoOthers DEF PageArrives
  <1>2. /\ p \in Seq(Nat) /\ photos \in Seq(Nat) /\ album \in Seq(Nat)
        /\ offset = Len(photos) /\ changes \in Nat
    BY <1>1 DEF GalleryInv, Request
  <1>3. ~shifted => PageInv(p)
    BY <1>1 DEF PageArrives, RequestInv
  <1>4. /\ requests' = <<>> /\ loading' = FALSE
        /\ photos' = photos \o p /\ offset' = offset + Len(p)
        /\ done' = (done \/ IsLastPage(p))
        /\ UNCHANGED <<album, changes, broken, shifted>>
    BY <1>1 DEF PageArrives
  <1> HIDE DEF p
  <1>5. /\ Len(photos) \in Nat /\ Len(p) \in Nat /\ Len(album) \in Nat
        /\ photos' \in Seq(Nat) /\ Len(photos') = Len(photos) + Len(p)
    BY <1>2, <1>4, ConcatProperties
  <1>6. \A k \in 1 .. Len(photos) + Len(p) :
           photos'[k] = IF k <= Len(photos) THEN photos[k] ELSE p[k - Len(photos)]
    BY <1>2, <1>4, ConcatProperties
  <1>7. ASSUME ~shifted
        PROVE  /\ Matches(0, photos)'
               /\ (done' /\ ~broken) => Len(album) - Len(photos') <= changes
    <2>1. /\ Matches(0, photos) /\ Matches(offset, p)
          /\ IsLastPage(p) => Len(album) - (offset + Len(p)) <= changes
      BY <1>3, <1>7 DEF GalleryInv, PageInv
    <2>2. Len(photos') <= Len(album)
      BY <1>2, <1>5, <2>1 DEF Matches
    <2>3. \A k \in 1 .. Len(photos') : photos'[k] = album[k]
      <3> TAKE k \in 1 .. Len(photos')
      <3>1. CASE k <= Len(photos)
        BY <1>5, <1>6, <2>1, <3>1 DEF Matches
      <3>2. CASE k > Len(photos)
        <4>1. k - Len(photos) \in 1 .. Len(p)
          BY <1>5, <3>2
        <4>2. photos'[k] = p[k - Len(photos)]
          BY <1>5, <1>6, <3>2
        <4>3. p[k - Len(photos)] = album[offset + (k - Len(photos))]
          BY <2>1, <4>1 DEF Matches
        <4>4. offset + (k - Len(photos)) = k
          BY <1>2, <1>5
        <4> QED
          BY <4>2, <4>3, <4>4
      <3> QED
        BY <1>5, <3>1, <3>2
    <2>4. Matches(0, photos)'
      BY <1>4, <1>5, <2>2, <2>3 DEF Matches
    <2>5. done' => IsLastPage(p)
      BY <1>1, <1>4
    <2> QED
      BY <1>2, <1>5, <2>1, <2>4, <2>5
  <1>8. done' \in BOOLEAN
    BY <1>1, <1>4 DEF IsLastPage, GalleryInv
  <1> QED
    BY <1>2, <1>4, <1>5, <1>7, <1>8, NoneOf DEF GalleryInv

LEMMA FailureArrivesKeeps ==
  ASSUME GalleryInv, NEW i, FailureArrives(i)
  PROVE  GalleryInv'
  <1>1. /\ loading /\ ~done /\ i = 1 /\ Others(i) = <<>>
        /\ RequestInv(requests[1]) /\ requests[1].state \in {"failed", "lost"}
    BY NoOthers DEF FailureArrives
  <1>2. broken
    BY <1>1 DEF RequestInv
  <1>3. /\ requests' = <<>> /\ loading' = FALSE
        /\ done' = (done \/ requests[i].state = "failed")
        /\ UNCHANGED <<album, changes, photos, offset, broken, shifted>>
    BY <1>1 DEF FailureArrives
  <1>4. Matches(0, photos)' <=> Matches(0, photos)
    BY <1>3 DEF Matches
  <1>5. done' \in BOOLEAN
    BY <1>3 DEF GalleryInv
  <1> QED
    BY <1>2, <1>3, <1>4, <1>5, NoneOf DEF GalleryInv

LEMMA GalleryStep == GalleryInv /\ GalleryNext => GalleryInv'
  <1> SUFFICES ASSUME GalleryInv, GalleryNext PROVE GalleryInv'
    OBVIOUS
  <1>1. CASE GalleryUnlocked
    BY <1>1, LoadNextKeeps DEF GalleryUnlocked
  <1>2. CASE ScrollToEnd
    BY <1>2, LoadNextKeeps DEF ScrollToEnd
  <1>3. CASE ScrollBack
    BY <1>3 DEF ScrollBack, GalleryInv, RequestInv, PageInv, Matches, IsLastPage
  <1>4. CASE ViewerNext
    BY <1>4, LoadNextKeeps DEF ViewerNext
  <1>5. ASSUME NEW i, Served(i) PROVE GalleryInv'
    BY <1>5, ListItemsKeeps, ListFailsKeeps, PageArrivesKeeps, FailureArrivesKeeps
       DEF Served
  <1>6. ASSUME NEW p, OwnerAdds(p) \/ OwnerRemoves(p) PROVE GalleryInv'
    BY <1>6, OwnerAddsKeeps, OwnerRemovesKeeps
  <1> QED
    BY <1>1, <1>2, <1>3, <1>4, <1>5, <1>6 DEF GalleryNext

-----------------------------------------------------------------------------
(* The pages and the download                                              *)

IInv == FolderInv /\ GalleryInv /\ DownloadInv

LEMMA Step == IInv /\ [Next]_vars => IInv'
  <1> SUFFICES ASSUME IInv, [Next]_vars PROVE IInv'
    OBVIOUS
  <1>1. UNCHANGED folderVars => FolderInv'
    BY DEF IInv, folderVars, FolderInv, FolderIsConsistent, IsPath, Here, Rows
  <1>2. UNCHANGED galleryVars => GalleryInv'
    BY DEF IInv, galleryVars, GalleryInv, RequestInv, PageInv, Matches, IsLastPage
  <1>3. UNCHANGED downloadVars => DownloadInv'
    BY DownloadStep DEF IInv
  <1>4. CASE Next
    BY <1>1, <1>2, <1>3, <1>4, FolderStep, GalleryStep, DownloadStep DEF IInv, Next
  <1>5. CASE UNCHANGED vars
    BY <1>1, <1>2, <1>3, <1>5 DEF vars, IInv
  <1> QED
    BY <1>4, <1>5

\* The invariant holds throughout, in whatever order answers arrive.
THEOREM InvariantHolds == Spec => []IInv
  <1>1. Init => IInv
    BY FolderInitially, GalleryInitially, DownloadInitially DEF Init, IInv
  <1> QED
    BY <1>1, Step, PTL DEF Spec

\* A folder page whose listings did not overlap shows the folder its
\* breadcrumb ends in; a File Station page always spells a path of the share.
THEOREM FolderConsistent == Spec => []FolderIsConsistent
  <1>1. IInv => FolderIsConsistent
    BY DEF IInv, FolderInv
  <1> QED
    BY <1>1, InvariantHolds, PTL

\* The grid is a beginning of the album, and at its end the whole of it.
THEOREM GridMatchesAlbum == Spec => []GridIsAlbum
  <1>1. IInv => GridIsAlbum
    <2> SUFFICES ASSUME IInv, ~shifted
                 PROVE  /\ Len(photos) <= Len(album)
                        /\ photos = SubSeq(album, 1, Len(photos))
                        /\ (done /\ ~broken) => Len(album) - Len(photos) <= changes
      BY DEF GridIsAlbum
    <2> DEFINE first == SubSeq(album, 1, Len(photos))
    <2>1. /\ album \in Seq(Nat) /\ photos \in Seq(Nat)
          /\ Len(album) \in Nat /\ Len(photos) \in Nat
          /\ Matches(0, photos)
          /\ (done /\ ~broken) => Len(album) - Len(photos) <= changes
      BY DEF IInv, GalleryInv
    <2>2. /\ Len(photos) <= Len(album)
          /\ \A k \in 1 .. Len(photos) : photos[k] = album[k]
      BY <2>1 DEF Matches
    <2>3. \A k \in 1 .. Len(photos) : album[k] \in Nat
      BY <2>1, <2>2
    <2>4. /\ first \in Seq(Nat) /\ Len(first) = Len(photos)
          /\ \A k \in 1 .. Len(photos) : first[k] = album[k]
      BY <2>1, <2>3, SubSeqProperties
    <2> HIDE DEF first
    <2>5. photos = first
      BY <2>1, <2>2, <2>4, SeqEqual
    <2> QED
      BY <2>1, <2>2, <2>5 DEF first
  <1> QED
    BY <1>1, InvariantHolds, PTL

\* For bodies of any length: what looks complete to a browser that was told
\* the length is complete.
THEOREM TruncationIsSeen == Spec => []WholeOrBroken
  <1>1. IInv => WholeOrBroken
    BY DownloadInvGives DEF IInv
  <1> QED
    BY <1>1, InvariantHolds, PTL

\* However long the polling takes, the archive is fetched after its job.
THEOREM ArchiveFinished == Spec => []ArchiveIsFinished
  <1>1. IInv => ArchiveIsFinished
    BY DownloadInvGives DEF IInv
  <1> QED
    BY <1>1, InvariantHolds, PTL

-----------------------------------------------------------------------------
(* Types                                                                   *)

\* What the invariant leaves out of the types.
FolderRest ==
    /\ started \in BOOLEAN
    /\ unlocks \in 0 .. MaxUnlocks /\ unlocking \in 0 .. unlocks
    /\ table \in Folders \cup {"loading", "error"}
    /\ selected \subseteq Nodes
    /\ loads \in 0 .. MaxLoads

GalleryRest ==
    /\ changes \in 0 .. MaxChanges
    /\ shown \in BOOLEAN /\ inView \in BOOLEAN

Histories ==
    overlapped \in BOOLEAN /\ broken \in BOOLEAN /\ shifted \in BOOLEAN

TypeInv ==
    /\ IInv /\ FolderRest /\ GalleryRest /\ Histories
    /\ open \in {"folder", "gallery", "download"}

LEMMA LoadsAreFolders ==
  ASSUME FolderRest, NEW d \in Folders, LoadFiles(d)
  PROVE  /\ loads' \in 0 .. MaxLoads /\ table' = "loading"
         /\ selected' = {}
  BY BoundsAreNatural DEF FolderRest, LoadFiles, BoundsAreNatural

LEMMA FolderTypes ==
  ASSUME FolderInv, FolderRest, FolderNext
  PROVE  FolderRest'
  <1> USE BoundsAreNatural, ShareIsTree DEF BoundsAreNatural, FolderRest
  <1>r. Root \in Folders /\ Folders \subseteq Nodes
    BY DEF ShareIsTree
  <1>1. CASE SubmitPassword
    BY <1>1 DEF SubmitPassword
  <1>2. CASE UnlockAnswered
    <2>1. unlocking' \in 0 .. unlocks /\ unlocks' = unlocks
      BY <1>2 DEF UnlockAnswered
    <2>2. CASE started' = TRUE /\ LoadFiles(Root)
      BY <1>r, <2>1, <2>2, LoadsAreFolders
    <2>3. CASE UNCHANGED <<started, trail, table, selected, listings, loads>>
      BY <2>1, <2>3
    <2> QED
      BY <1>2, <2>2, <2>3 DEF UnlockAnswered
  <1>3. ASSUME NEW d \in Folders, ClickFolder(d) PROVE FolderRest'
    <2>1. LoadFiles(d) /\ UNCHANGED <<started, unlocks, unlocking>>
      BY <1>3 DEF ClickFolder
    <2> QED
      BY <2>1, LoadsAreFolders
  <1>4. ASSUME NEW i \in 1 .. MaxLoads, ClickCrumb(i) PROVE FolderRest'
    <2>1. LoadFiles(trail[i]) /\ UNCHANGED <<started, unlocks, unlocking>>
      BY <1>4 DEF ClickCrumb
    <2>2. trail[i] \in Folders
      BY <1>4 DEF ClickCrumb, FolderInv
    <2> QED
      BY <2>1, <2>2, LoadsAreFolders
  <1>5. ASSUME NEW n \in Nodes, Check(n) PROVE FolderRest'
    BY <1>5 DEF Check
  <1>6. CASE ClearSelection
    BY <1>6 DEF ClearSelection
  <1>7. ASSUME NEW i \in 1 .. MaxLoads, ListingArrives(i) PROVE FolderRest'
    <2>1. listings[i] \in Folders
      BY <1>7 DEF ListingArrives, FolderInv
    <2>2. /\ table' = listings[i] \/ table' = "error"
          /\ UNCHANGED <<started, unlocks, unlocking, selected, loads>>
      BY <1>7 DEF ListingArrives, ShowError
    <2> QED
      BY <2>1, <2>2
  <1> QED
    BY <1>1, <1>2, <1>3, <1>4, <1>5, <1>6, <1>7 DEF FolderNext, Arrival

LEMMA GalleryTypes ==
  ASSUME GalleryInv, GalleryRest, GalleryNext
  PROVE  GalleryRest'
  <1>1. changes' \in 0 .. MaxChanges
    <2> USE GallerySizes DEF GallerySizes, GalleryRest
    <2>1. \/ changes' = changes
          \/ changes < MaxChanges /\ changes' = changes + 1
      BY DEF GalleryNext, GalleryUnlocked, ScrollToEnd, ScrollBack, ViewerNext,
             Served, ListItems, ListFails, PageArrives, FailureArrives, OwnerAdds,
             OwnerRemoves
    <2> QED
      BY <2>1
  <1>2. shown' \in BOOLEAN
    <2>1. shown' = shown \/ shown' = TRUE
      BY Zenon DEF GalleryNext, GalleryUnlocked, ScrollToEnd, ScrollBack,
         ViewerNext, Served, ListItems, ListFails, PageArrives, FailureArrives,
         OwnerAdds, OwnerRemoves
    <2> QED
      BY <2>1, Zenon DEF GalleryRest
  <1>3. inView' \in BOOLEAN
    <2>1. \/ inView' \in {inView, TRUE, FALSE}
          \/ inView' = (inView \/ ~shown)
          \/ \E i : inView' = (inView /\ Len(requests[i].page) <= Viewport)
      BY Zenon DEF GalleryNext, GalleryUnlocked, ScrollToEnd, ScrollBack,
         ViewerNext, Served, ListItems, ListFails, PageArrives, FailureArrives,
         OwnerAdds, OwnerRemoves
    <2> QED
      BY <2>1, Zenon DEF GalleryRest
  <1> QED
    BY <1>1, <1>2, <1>3 DEF GalleryRest

LEMMA HistoryTypes ==
  ASSUME Histories, [Next]_vars
  PROVE  Histories'
  <1> USE DEF Next, vars, folderVars, galleryVars
  <1>1. overlapped' \in BOOLEAN
    <2>1. overlapped' = overlapped \/ overlapped' = (overlapped \/ listings # <<>>)
      BY Zenon DEF FolderNext, SubmitPassword, UnlockAnswered, ClickFolder,
         ClickCrumb, Check, ClearSelection, Arrival, ListingArrives, LoadFiles
    <2> QED
      BY <2>1, Zenon DEF Histories
  <1> USE DEF GalleryNext, GalleryUnlocked, ScrollToEnd, ScrollBack, ViewerNext,
          Served, ListItems, ListFails, PageArrives, FailureArrives, OwnerAdds,
          OwnerRemoves
  <1>2. broken' \in BOOLEAN
    <2>1. broken' \in {broken, TRUE}
      BY Zenon
    <2> QED
      BY <2>1, Zenon DEF Histories
  <1>3. shifted' \in BOOLEAN
    <2>1. \/ shifted' = shifted
          \/ \E p : shifted' = (shifted \/ p < Smaller(ReadUpTo, Len(album)))
          \/ \E p : shifted' = (shifted \/ p <= ReadUpTo)
      BY Zenon
    <2> QED
      BY <2>1, Zenon DEF Histories
  <1> QED
    BY <1>1, <1>2, <1>3, Zenon DEF Histories

LEMMA TypesAtFirst == Init => TypeInv
  <1> SUFFICES ASSUME Init PROVE TypeInv
    OBVIOUS
  <1>1. IInv
    BY FolderInitially, GalleryInitially, DownloadInitially DEF Init, IInv
  <1>2. FolderRest
    BY BoundsAreNatural DEF Init, FolderInit, FolderRest, BoundsAreNatural
  <1>3. changes \in 0 .. MaxChanges
    BY GallerySizes DEF Init, GalleryInit, GallerySizes
  <1>4. GalleryRest
    <2>1. shown \in BOOLEAN /\ inView \in BOOLEAN
      BY Zenon DEF Init, GalleryInit
    <2> QED
      BY <1>3, <2>1 DEF GalleryRest
  <1>5. Histories
    BY DEF Init, FolderInit, GalleryInit, Histories
  <1>6. open \in {"folder", "gallery", "download"}
    BY DEF Init
  <1> QED
    BY <1>1, <1>2, <1>4, <1>5, <1>6 DEF TypeInv

LEMMA TypesStay == TypeInv /\ [Next]_vars => TypeInv'
  <1> SUFFICES ASSUME TypeInv, [Next]_vars PROVE TypeInv'
    OBVIOUS
  <1> USE DEF TypeInv
  <1>1. IInv'
    BY Step
  <1>2. Histories'
    BY HistoryTypes
  <1>3. UNCHANGED folderVars => FolderRest'
    BY DEF folderVars, FolderRest
  <1>4. UNCHANGED galleryVars => GalleryRest'
    BY DEF galleryVars, GalleryRest
  <1>5. FolderRest' /\ GalleryRest' /\ open' = open
    BY <1>3, <1>4, FolderTypes, GalleryTypes DEF IInv, Next, vars
  <1> QED
    BY <1>1, <1>2, <1>5

\* Every variable of the pages and of the download keeps its type: no more is
\* copied than the NAS sends, and no route runs past its last call.
THEOREM TypeCorrect == Spec => []TypeOK
  <1>1. TypeInv => TypeOK
    <2> SUFFICES ASSUME TypeInv PROVE TypeOK
      OBVIOUS
    <2>1. FolderTypeOK
      BY DEF TypeInv, IInv, FolderInv, FolderRest, Histories, FolderTypeOK
    <2>2. GalleryTypeOK
      <3>1. offset \in Nat
        BY LenProperties DEF TypeInv, IInv, GalleryInv
      <3> QED
        BY <3>1 DEF TypeInv, IInv, GalleryInv, GalleryRest, Histories, GalleryTypeOK
    <2> QED
      BY <2>1, <2>2, DownloadInvGives DEF TypeInv, IInv, TypeOK
  <1> QED
    BY <1>1, TypesAtFirst, TypesStay, PTL DEF Spec
=============================================================================
