--------------------------- MODULE MCBrowsePages ---------------------------
(* A share with a folder in a folder and a file in each of the two.        *)
EXTENDS BrowsePages

CONSTANTS r, d, e, x, y

MCNodes == {r, d, e, x, y}
MCFolders == {r, d, e}
MCPathOf ==
    [n \in MCNodes |->
        CASE n = r -> <<r>>
          [] n = d -> <<r, d>>
          [] n = e -> <<r, d, e>>
          [] n = x -> <<r, x>>
          [] n = y -> <<r, d, y>>]
=============================================================================
