----------------------------- MODULE LineEditor -----------------------------
(***************************************************************************)
(* What the console promises its readers: the characters of finished       *)
(* lines, in order, after the erasures made while each line was edited.    *)
(***************************************************************************)
EXTENDS Naturals, Sequences

CONSTANTS Chars, Ends, Size   \* Ends: the characters that finish a line
VARIABLES finished, line

vars == <<finished, line>>

Init == finished = <<>> /\ line = <<>>

\* A character is added; the line is finished by it, or by lack of room.
Type(c) ==
  /\ Len(finished \o line) < Size
  /\ LET l == Append(line, c) IN
       IF c \in Ends \/ Len(finished \o l) = Size
         THEN finished' = finished \o l /\ line' = <<>>
         ELSE line' = l /\ UNCHANGED finished
Erase == line # <<>> /\ line' = SubSeq(line, 1, Len(line) - 1) /\ UNCHANGED finished
KillLine == line' = <<>> /\ UNCHANGED finished

\* A reader takes characters up to the end of a line at most.
Read(k) ==
  /\ \A j \in 1..(k - 1) : finished[j] \notin Ends
  /\ finished' = SubSeq(finished, k + 1, Len(finished))
  /\ UNCHANGED line

Next == \/ \E c \in Chars : Type(c)
        \/ Erase \/ KillLine
        \/ \E k \in 1..Len(finished) : Read(k)
====
