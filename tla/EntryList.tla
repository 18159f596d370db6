----------------------------- MODULE EntryList -----------------------------
(***************************************************************************)
(* The list of entries an upload page keeps, an array in the order the     *)
(* user added them.                                                        *)
(***************************************************************************)
EXTENDS Integers, Sequences, FiniteSets

Elements(s) == {s[i] : i \in DOMAIN s}

\* Nothing stands twice in s.
Distinct(s) == \A i, j \in 1 .. Len(s) : s[i] = s[j] => i = j

\* How many of the places are not behind i.
Rank(i, places) == Cardinality({j \in places : j <= i})

\* What is left of the array when only those places are kept, in its order:
\* Array.filter keeps some, Array.splice removes one.
EntriesAt(s, places) ==
    [k \in 1 .. Cardinality(places) |->
        s[CHOOSE i \in places : Rank(i, places) = k]]
=============================================================================
