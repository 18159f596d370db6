----------------------------- MODULE FolderPage -----------------------------
(***************************************************************************)
(* The folder pages of a File Station share (sharing/templates/browse.     *)
(* html) and of a Drive share (drive/templates/browse.html), and the       *)
(* APIList handlers that answer them.                                      *)
(*                                                                         *)
(* A click on a folder or on the breadcrumb empties the table and asks for *)
(* a listing.  Nothing stops a further click while a listing is under way, *)
(* nor is an answer compared with the folder the page is in: answers are   *)
(* shown as they arrive.  The two pages differ in the trail: one derives   *)
(* it from the folder's path, the other pushes and cuts a stack.           *)
(***************************************************************************)
EXTENDS Integers, Sequences

CONSTANTS
    Nodes,       \* folders and files of the share
    Folders,     \* those that are folders
    Root,        \* the shared folder
    PathOf,      \* PathOf[n]: the nodes from Root to n
    MaxLoads,    \* bound: listings asked for
    MaxUnlocks   \* bound: passwords submitted

ASSUME BoundsAreNatural == MaxLoads \in Nat \ {0} /\ MaxUnlocks \in Nat

\* The share is a tree, and every node has one path.
ASSUME ShareIsTree ==
    /\ Folders \subseteq Nodes /\ Root \in Folders
    /\ {"loading", "error"} \cap Nodes = {}
    /\ PathOf \in [Nodes -> Seq(Nodes)]
    /\ PathOf[Root] = <<Root>>
    /\ \A n \in Nodes :
          /\ Len(PathOf[n]) > 0 /\ PathOf[n][Len(PathOf[n])] = n
          /\ \A i \in 1 .. Len(PathOf[n]) - 1 :
                /\ PathOf[n][i] \in Folders
                /\ PathOf[PathOf[n][i]] = SubSeq(PathOf[n], 1, i)

VARIABLES
    kind,       \* "sharing" or "drive"
    started,    \* the browse section is shown
    unlocks,    \* unlock requests sent so far
    unlocking,  \* those without an answer
    trail,      \* the breadcrumb: pathStack, or what currentPath spells
    table,      \* "loading", "error", or the folder whose rows are shown
    selected,   \* the nodes that are checked (drive)
    listings,   \* the folders asked for and not answered, oldest first
    loads,      \* how many were asked for
    overlapped  \* history: one was asked for while another was under way

folderVars == <<kind, started, unlocks, unlocking, trail, table, selected,
                listings, loads, overlapped>>

Children(d) == {n \in Nodes : PathOf[n] = Append(PathOf[d], n)}
Rows == IF table \in Folders THEN Children(table) ELSE {}
Here == trail[Len(trail)]

FolderTypeOK ==
    /\ kind \in {"sharing", "drive"} /\ started \in BOOLEAN
    /\ unlocks \in 0 .. MaxUnlocks /\ unlocking \in 0 .. unlocks
    /\ trail \in Seq(Folders) /\ Len(trail) > 0
    /\ table \in Folders \cup {"loading", "error"}
    /\ selected \subseteq Nodes
    /\ listings \in Seq(Folders)
    /\ loads \in 0 .. MaxLoads
    /\ overlapped \in BOOLEAN

\* The page as Browse and BrowsePage render it: a share without a password
\* starts browsing at once.
FolderInit ==
    /\ kind \in {"sharing", "drive"}
    /\ started \in BOOLEAN
    /\ unlocks = 0 /\ unlocking = 0
    /\ trail = <<Root>> /\ table = "loading" /\ selected = {}
    /\ listings = IF started THEN <<Root>> ELSE <<>>
    /\ loads = IF started THEN 1 ELSE 0
    /\ overlapped = FALSE

\* Mutated form: the selection survives.
LoadFiles_KeepSelected(d) ==
    /\ loads < MaxLoads
    /\ loads' = loads + 1
    /\ table' = "loading"
    /\ listings' = Append(listings, d)
    /\ overlapped' = (overlapped \/ listings # <<>>)
    /\ UNCHANGED selected

\* loadFiles(d): empty the table and the selection, ask for the listing.
LoadFiles(d) ==
    /\ loads < MaxLoads
    /\ loads' = loads + 1
    /\ table' = "loading"
    /\ selected' = {}
    /\ listings' = Append(listings, d)
    /\ overlapped' = (overlapped \/ listings # <<>>)

\* Enter in the password field; it works while the button is disabled.
SubmitPassword ==
    /\ unlocks < MaxUnlocks
    /\ ~started
    /\ unlocks' = unlocks + 1
    /\ unlocking' = unlocking + 1
    /\ UNCHANGED <<kind, started, trail, table, selected, listings, loads,
                   overlapped>>

\* The answer to an unlock.  Each success starts browsing, also the second.
UnlockAnswered ==
    /\ unlocking > 0
    /\ unlocking' = unlocking - 1
    /\ \/ /\ started' = TRUE
          /\ trail' = <<Root>>
          /\ LoadFiles(Root)
       \/ UNCHANGED <<started, trail, table, selected, listings, loads,
                      overlapped>>
    /\ UNCHANGED <<kind, unlocks>>

\* navigate (sharing) takes the path of the row; navigateInto (drive) pushes.
NewTrail(d) == IF kind = "sharing" THEN PathOf[d] ELSE Append(trail, d)

ClickFolder(d) ==
    /\ started
    /\ d \in Rows \cap Folders
    /\ trail' = NewTrail(d)
    /\ LoadFiles(d)
    /\ UNCHANGED <<kind, started, unlocks, unlocking>>

\* A link of the breadcrumb: navigate to the prefix, navigateToIndex.
ClickCrumb(i) ==
    /\ started
    /\ i \in 1 .. Len(trail) - 1
    /\ trail' = SubSeq(trail, 1, i)
    /\ LoadFiles(trail[i])
    /\ UNCHANGED <<kind, started, unlocks, unlocking>>

\* The checkbox of a row.
Check(n) ==
    /\ kind = "drive" /\ started
    /\ n \in Rows
    /\ selected' = IF n \in selected THEN selected \ {n} ELSE selected \cup {n}
    /\ UNCHANGED <<kind, started, unlocks, unlocking, trail, table, listings,
                   loads, overlapped>>

\* The Clear button.
ClearSelection ==
    /\ selected # {}
    /\ selected' = {}
    /\ UNCHANGED <<kind, started, unlocks, unlocking, trail, table, listings,
                   loads, overlapped>>

Without(s, i) == SubSeq(s, 1, i - 1) \o SubSeq(s, i + 1, Len(s))

\* Mutated form: a failed listing leaves the table as it is.
ShowError_Nothing == UNCHANGED table

\* showListError
ShowError == table' = "error"

\* A listing arrives, in any order: APIList's rows, or its error, a refusal
\* or a broken connection.  The selection is not touched.
ListingArrives(i) ==
    /\ i \in DOMAIN listings
    /\ listings' = Without(listings, i)
    /\ table' = listings[i] \/ ShowError
    /\ UNCHANGED <<kind, started, unlocks, unlocking, trail, selected, loads,
                   overlapped>>

Arrival == \E i \in 1 .. MaxLoads : ListingArrives(i)

FolderNext ==
    \/ SubmitPassword \/ UnlockAnswered
    \/ \E d \in Folders : ClickFolder(d)
    \/ \E i \in 1 .. MaxLoads : ClickCrumb(i)
    \/ \E n \in Nodes : Check(n)
    \/ ClearSelection
    \/ Arrival

-----------------------------------------------------------------------------
(* Properties                                                              *)

IsPath(t) == t = PathOf[t[Len(t)]]

\* As long as no listing was asked for while another was under way, what is
\* shown is the folder the breadcrumb ends in, the breadcrumb is its path,
\* and only rows that are shown are selected.  A File Station page keeps the
\* breadcrumb right even then.
FolderIsConsistent ==
    /\ kind = "sharing" => IsPath(trail)
    /\ ~overlapped =>
          /\ IsPath(trail)
          /\ table \in {Here, "loading", "error"}
          /\ selected \subseteq Rows
=============================================================================
