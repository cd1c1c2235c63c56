--------------------------- MODULE LineDiscipline ---------------------------
(***************************************************************************)
(* What the console promises those who read it: a line can be edited until *)
(* it is complete; complete lines are read in the order they were typed,   *)
(* every character once, and end-of-file is a read of its own.             *)
(***************************************************************************)
EXTENDS Naturals, Sequences

CONSTANTS Chars, NL, EOF, Size

VARIABLES edit,    \* the line being edited
          ready    \* complete lines that have not been read

Init == edit = <<>> /\ ready = <<>>

\* A line is complete at its newline, at end-of-file, or when the buffer is
\* full; what is typed beyond that is dropped.
Type(c) ==
  /\ Len(ready) + Len(edit) < Size
  /\ LET line == Append(edit, c) IN
     IF c \in {NL, EOF} \/ Len(ready) + Len(line) = Size
     THEN ready' = ready \o line /\ edit' = <<>>
     ELSE edit' = line /\ UNCHANGED ready

Erase ==
  /\ edit # <<>>
  /\ edit' = SubSeq(edit, 1, Len(edit) - 1)
  /\ UNCHANGED ready

\* A read takes at least one character and nothing beyond the end of a line.
Read ==
  \E n \in 1..Len(ready) :
    /\ \A i \in 1..(n - 1) : ready[i] \notin {NL, EOF}
    /\ ready[n] = EOF => n = 1
    /\ ready' = SubSeq(ready, n + 1, Len(ready))
    /\ UNCHANGED edit

Next == (\E c \in Chars : Type(c)) \/ Erase \/ Read

Spec == Init /\ [][Next]_<<edit, ready>>
=============================================================================
