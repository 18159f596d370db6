----------------------------- MODULE ScriptScan -----------------------------
(***************************************************************************)
(* Cutting a value out of the JavaScript the NAS answers with.             *)
(* extractReturnValue (drive/context.go) takes what stands between         *)
(* "return" and the ";" after it, extractBraceBlock (photo/context.go) an  *)
(* object literal.  Both scan bytes and keep track of quotes, escapes and  *)
(* nesting.                                                                *)
(*                                                                         *)
(* The NAS writes a value byte by byte, as the grammar of JavaScript       *)
(* literals allows, then a ";" and whatever follows in the script.  "x"    *)
(* stands for every byte without a meaning to the scanners, "open" and     *)
(* "close" for the brackets a scanner counts: "{" and "}", and "[" and "]"  *)
(* for extractReturnValue.                                                 *)
(***************************************************************************)
EXTENDS Integers, Sequences

CONSTANT MaxText   \* bound: bytes of the script

ASSUME MaxTextNatural == MaxText \in Nat

Quotes == {"dquote", "squote"}
Bytes == Quotes \cup {"open", "close", "semicolon", "backslash", "x"}

VARIABLES
    text,      \* what the NAS has written
    nesting,   \* open brackets of the value
    literal,   \* the quote that ends the current string, or "none"
    value,     \* how many bytes of text are the value
    closed     \* the value is complete, its ";" is written

scriptVars == <<text, nesting, literal, value, closed>>

ScriptTypeOK ==
    /\ text \in Seq(Bytes) /\ Len(text) <= MaxText
    /\ nesting \in Nat /\ literal \in Quotes \cup {"none"}
    /\ value \in 0 .. Len(text) /\ closed \in BOOLEAN

ScriptInit ==
    /\ text = <<>> /\ nesting = 0 /\ literal = "none"
    /\ value = 0 /\ closed = FALSE

-----------------------------------------------------------------------------
(* The NAS                                                                 *)

Writes(bytes) ==
    /\ Len(text) + Len(bytes) <= MaxText
    /\ text' = text \o bytes

\* Outside strings a value may go on inside its brackets, or has to begin.
Outside == ~closed /\ literal = "none" /\ (nesting > 0 \/ value = 0)

\* A number, a word, punctuation; a ";" only in the body of a function.
Plain ==
    /\ Outside
    /\ \/ Writes(<<"x">>)
       \/ nesting > 0 /\ Writes(<<"semicolon">>)
    /\ value' = value + 1
    /\ UNCHANGED <<nesting, literal, closed>>

Open ==
    /\ Outside /\ Writes(<<"open">>)
    /\ nesting' = nesting + 1 /\ value' = value + 1
    /\ UNCHANGED <<literal, closed>>

Close ==
    /\ Outside /\ nesting > 0 /\ Writes(<<"close">>)
    /\ nesting' = nesting - 1 /\ value' = value + 1
    /\ UNCHANGED <<literal, closed>>

OpenString ==
    /\ Outside
    /\ \E q \in Quotes : Writes(<<q>>) /\ literal' = q
    /\ value' = value + 1
    /\ UNCHANGED <<nesting, closed>>

InString ==
    /\ ~closed /\ literal # "none"
    /\ \/ \E b \in Bytes \ {literal, "backslash"} :
             Writes(<<b>>) /\ value' = value + 1
       \/ \E b \in Quotes \cup {"backslash", "x"} :
             Writes(<<"backslash", b>>) /\ value' = value + 2
    /\ UNCHANGED <<nesting, literal, closed>>

CloseString ==
    /\ ~closed /\ literal # "none" /\ Writes(<<literal>>)
    /\ literal' = "none" /\ value' = value + 1
    /\ UNCHANGED <<nesting, closed>>

\* "return ;" is a value too, an empty one.
EndValue ==
    /\ ~closed /\ literal = "none" /\ nesting = 0
    /\ Writes(<<"semicolon">>)
    /\ closed' = TRUE
    /\ UNCHANGED <<nesting, literal, value>>

\* The rest of the script.
Follow ==
    /\ closed
    /\ \E b \in Bytes : Writes(<<b>>)
    /\ UNCHANGED <<nesting, literal, value, closed>>

ScriptNext ==
    \/ Plain \/ Open \/ Close \/ OpenString \/ InString \/ CloseString
    \/ EndValue \/ Follow

-----------------------------------------------------------------------------
(* The scanners                                                            *)

Fresh == [depth |-> 0, quote |-> "none", skip |-> FALSE]

\* Mutated form: a backslash in a string is a byte like any other.
After_NoEscape(at, c) ==
    CASE at.quote # "none" ->
            IF c = at.quote THEN [at EXCEPT !.quote = "none"] ELSE at
      [] c \in Quotes -> [at EXCEPT !.quote = c]
      [] c = "open" -> [at EXCEPT !.depth = @ + 1]
      [] c = "close" -> [at EXCEPT !.depth = @ - 1]
      [] OTHER -> at

\* The loop's state after one byte: skip is the i++ after a backslash.
After(at, c) ==
    CASE at.skip -> [at EXCEPT !.skip = FALSE]
      [] ~at.skip /\ at.quote # "none" ->
            CASE c = "backslash" -> [at EXCEPT !.skip = TRUE]
              [] c = at.quote -> [at EXCEPT !.quote = "none"]
              [] OTHER -> at
      [] ~at.skip /\ at.quote = "none" ->
            CASE c \in Quotes -> [at EXCEPT !.quote = c]
              [] c = "open" -> [at EXCEPT !.depth = @ + 1]
              [] c = "close" -> [at EXCEPT !.depth = @ - 1]
              [] OTHER -> at

\* The loop's state after each prefix of s.
Scan(s) ==
    LET state[i \in 0 .. Len(s)] ==
            IF i = 0 THEN Fresh ELSE After(state[i - 1], s[i])
    IN  state

First(places) == CHOOSE i \in places : \A j \in places : i <= j

\* Neither scanner found an end: both return an error.
Unterminated == <<"unterminated">>

\* Mutated form: the value ends at a ";" in brackets.
Ends_AnyDepth(at, c) == c = "semicolon" /\ at.quote = "none"

\* A ";" outside strings and brackets ends the value.
Ends(at, c) == c = "semicolon" /\ at.quote = "none" /\ at.depth <= 0

ExtractReturnValue(s) ==
    LET scan == Scan(s)
        ends == {i \in 1 .. Len(s) : Ends(scan[i - 1], s[i])}
    IN  IF ends = {} THEN Unterminated ELSE SubSeq(s, 1, First(ends) - 1)

\* The "}" that brings the depth back to 0 ends the block.
ExtractBraceBlock(s) ==
    LET scan == Scan(s)
        ends == {i \in 1 .. Len(s) :
                    /\ s[i] = "close" /\ scan[i - 1].quote = "none"
                    /\ scan[i].depth = 0}
    IN  IF s = <<>> \/ s[1] # "open" \/ ends = {} THEN Unterminated
        ELSE SubSeq(s, 1, First(ends))

-----------------------------------------------------------------------------
(* Properties                                                              *)

Written == SubSeq(text, 1, value)

\* Whatever a value holds, quotes and brackets in its strings included, and
\* whatever follows it, the scanners give back that value.
ValueComesBack ==
    closed =>
        /\ ExtractReturnValue(text) = Written
        /\ (value > 0 /\ text[1] = "open") => ExtractBraceBlock(text) = Written

\* A script cut off before the end of the value, at any byte (the responses
\* are read up to a cap), is an error and never a shorter value.
CutIsNoValue ==
    \A n \in 0 .. value :
        LET cut == SubSeq(text, 1, n)
        IN  /\ ExtractReturnValue(cut) = Unterminated
            /\ n < value => ExtractBraceBlock(cut) = Unterminated
=============================================================================
