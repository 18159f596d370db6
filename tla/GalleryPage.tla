---------------------------- MODULE GalleryPage ----------------------------
(***************************************************************************)
(* The gallery of a Photos share (photo/templates/gallery.html) and the    *)
(* APIList handler behind it: pages of the album are asked for by offset   *)
(* as the end of the grid comes into view, and appended.                   *)
(*                                                                         *)
(* The album is a sequence of numbered photos in the NAS's order; while a  *)
(* visitor scrolls its owner may add a photo anywhere in it or take one    *)
(* out.                                                                    *)
(***************************************************************************)
EXTENDS Integers, Sequences

CONSTANTS
    PageLimit,    \* limit, the photos of one page
    Viewport,     \* how many photos push the sentinel out of view
    MaxAlbum,     \* bound: photos in the album
    MaxChanges    \* bound: photos added or removed while it is looked at

ASSUME GallerySizes ==
    /\ PageLimit \in Nat \ {0} /\ Viewport \in Nat
    /\ MaxAlbum \in Nat /\ MaxChanges \in Nat

VARIABLES
    album,      \* the photos on the NAS
    changes,    \* how many the owner has added or removed
    shown,      \* gallerySection is displayed
    photos,     \* items
    offset,     \* where the next page starts
    loading, done,
    inView,     \* the sentinel intersects the viewport (and its margin)
    requests,   \* list requests: [at, state, page]
    broken,     \* history: a request was refused, failed or lost
    shifted     \* history: the album changed before the end of what was read

galleryVars == <<album, changes, shown, photos, offset, loading, done, inView,
                 requests, broken, shifted>>

Request == [at : Nat, state : {"sent", "failed", "lost", "page"}, page : Seq(Nat)]

Ask(at) == [at |-> at, state |-> "sent", page |-> <<>>]

GalleryTypeOK ==
    /\ album \in Seq(Nat) /\ changes \in 0 .. MaxChanges
    /\ shown \in BOOLEAN
    /\ photos \in Seq(Nat) /\ offset \in Nat
    /\ loading \in BOOLEAN /\ done \in BOOLEAN /\ inView \in BOOLEAN
    /\ requests \in Seq(Request)
    /\ broken \in BOOLEAN /\ shifted \in BOOLEAN

\* BrowsePage: the gallery of a share without a password starts loading.
GalleryInit ==
    /\ \E n \in 0 .. MaxAlbum : album = [i \in 1 .. n |-> i]
    /\ changes = 0
    /\ shown \in BOOLEAN
    /\ photos = <<>> /\ offset = 0 /\ loading = shown /\ done = FALSE
    /\ inView = shown
    /\ requests = IF shown THEN <<Ask(0)>> ELSE <<>>
    /\ broken = FALSE /\ shifted = FALSE

\* Mutated form: a page is asked for although one is on its way.
MayLoad_Twice == Len(requests) < 2 /\ ~done

MayLoad == ~loading /\ ~done

\* loadNextPage, from any of its callers.
LoadNextPage ==
    /\ loading' = (loading \/ MayLoad)
    /\ requests' = IF MayLoad THEN Append(requests, Ask(offset)) ELSE requests

\* A password is accepted; with Enter pressed twice, perhaps again.
GalleryUnlocked ==
    /\ shown' = TRUE
    /\ inView' = (inView \/ ~shown)
    /\ LoadNextPage
    /\ UNCHANGED <<album, changes, photos, offset, done, broken, shifted>>

\* The visitor scrolls down: the observer calls when the sentinel comes into
\* view, and only then.
ScrollToEnd ==
    /\ shown /\ ~inView
    /\ inView' = TRUE
    /\ LoadNextPage
    /\ UNCHANGED <<album, changes, shown, photos, offset, done, broken, shifted>>

ScrollBack ==
    /\ inView /\ Len(photos) > Viewport
    /\ inView' = FALSE
    /\ UNCHANGED <<album, changes, shown, photos, offset, loading, done,
                   requests, broken, shifted>>

\* viewerNext on the last photo.
ViewerNext ==
    /\ photos # <<>> /\ ~done
    /\ LoadNextPage
    /\ UNCHANGED <<album, changes, shown, photos, offset, done, inView, broken,
                   shifted>>

-----------------------------------------------------------------------------
(* The proxy and the NAS                                                   *)

Smaller(a, b) == IF a < b THEN a ELSE b

\* APIList, ListItems: the NAS's photos from the offset on, a page at most.
ListItems(i) ==
    /\ i \in DOMAIN requests
    /\ requests[i].state = "sent"
    /\ requests' = [requests EXCEPT ![i].state = "page",
          ![i].page = SubSeq(album, requests[i].at + 1,
                             Smaller(requests[i].at + PageLimit, Len(album)))]
    /\ UNCHANGED <<album, changes, shown, photos, offset, loading, done,
                   inView, broken, shifted>>

\* A refusal or an error answer; or the connection breaks.
ListFails(i) ==
    /\ i \in DOMAIN requests
    /\ \E s \in {"failed", "lost"} :
          /\ requests[i].state \in {"sent"} \cup (IF s = "lost" THEN {"page"} ELSE {})
          /\ requests' = [requests EXCEPT ![i].state = s, ![i].page = <<>>]
    /\ broken' = TRUE
    /\ UNCHANGED <<album, changes, shown, photos, offset, loading, done,
                   inView, shifted>>

\* What the visitor has, or has in an answer on its way, ends here.
ReadUpTo ==
    IF \E i \in DOMAIN requests : requests[i].state = "page"
    THEN offset + PageLimit ELSE offset

\* The owner adds a photo, which is sorted in by the time it was taken.
OwnerAdds(p) ==
    /\ changes < MaxChanges /\ p \in 0 .. Len(album)
    /\ changes' = changes + 1
    /\ album' = SubSeq(album, 1, p) \o <<MaxAlbum + changes'>>
                   \o SubSeq(album, p + 1, Len(album))
    /\ shifted' = (shifted \/ p < Smaller(ReadUpTo, Len(album)))
    /\ UNCHANGED <<shown, photos, offset, loading, done, inView, requests,
                   broken>>

\* The owner takes a photo out of the album.
OwnerRemoves(p) ==
    /\ changes < MaxChanges /\ p \in 1 .. Len(album)
    /\ changes' = changes + 1
    /\ album' = SubSeq(album, 1, p - 1) \o SubSeq(album, p + 1, Len(album))
    /\ shifted' = (shifted \/ p <= ReadUpTo)
    /\ UNCHANGED <<shown, photos, offset, loading, done, inView, requests,
                   broken>>

-----------------------------------------------------------------------------
(* The page's continuations                                                *)

Others(i) == SubSeq(requests, 1, i - 1) \o SubSeq(requests, i + 1, Len(requests))

IsLastPage(p) == Len(p) < PageLimit

\* A page: append it; a page of the viewport's size pushes the sentinel out.
PageArrives(i) ==
    /\ i \in DOMAIN requests
    /\ requests[i].state = "page"
    /\ requests' = Others(i)
    /\ loading' = FALSE
    /\ photos' = photos \o requests[i].page
    /\ offset' = offset + Len(requests[i].page)
    /\ done' = (done \/ IsLastPage(requests[i].page))
    /\ inView' = (inView /\ Len(requests[i].page) <= Viewport)
    /\ UNCHANGED <<album, changes, shown, broken, shifted>>

\* An answer without success is taken for the end of the album; after a
\* broken connection the page may ask again.
FailureArrives(i) ==
    /\ i \in DOMAIN requests
    /\ requests[i].state \in {"failed", "lost"}
    /\ requests' = Others(i)
    /\ loading' = FALSE
    /\ done' = (done \/ requests[i].state = "failed")
    /\ UNCHANGED <<album, changes, shown, photos, offset, inView, broken,
                   shifted>>

Served(i) ==
    ListItems(i) \/ ListFails(i) \/ PageArrives(i) \/ FailureArrives(i)

GalleryNext ==
    \/ GalleryUnlocked \/ ScrollToEnd \/ ScrollBack \/ ViewerNext
    \/ \E i \in 1 .. 2 : Served(i)
    \/ \E p \in 0 .. MaxAlbum + MaxChanges : OwnerAdds(p) \/ OwnerRemoves(p)

-----------------------------------------------------------------------------
(* Properties                                                              *)

\* "The caller detects the end of the album by receiving fewer than limit
\* items back." (photo/syno.go:128-129)  Unless the owner changes what was
\* already read, the grid is the beginning of the album without a gap or a
\* repetition, and when the page stops asking it is the whole of what was
\* there, or a request had failed.
GridIsAlbum ==
    ~shifted =>
        /\ Len(photos) <= Len(album) /\ photos = SubSeq(album, 1, Len(photos))
        /\ (done /\ ~broken) => Len(album) - Len(photos) <= changes
=============================================================================
