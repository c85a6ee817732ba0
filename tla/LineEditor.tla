----------------------------- MODULE LineEditor -----------------------------
(***************************************************************************)
(* What the shell's input line promises its user: a text with a cursor and *)
(* the commands of the past, the last Lines of them, no command twice in a *)
(* row.  A text that fills the line is dropped.                            *)
(***************************************************************************)
EXTENDS Integers, SequencesExt

CONSTANTS Chars,   \* what can be typed
          Size,    \* a text is shorter than this
          Lines    \* the commands remembered

VARIABLES text, cursor, past,
          at,      \* past[at + 1] is the one shown last
          dropped  \* a text was dropped since the line was last replaced

vars == <<text, cursor, past, at, dropped>>

Insert(c) ==
    LET longer == InsertAt(text, cursor + 1, c)
    IN  /\ IF Len(longer) < Size
           THEN text' = longer /\ cursor' = cursor + 1 /\ UNCHANGED dropped
           ELSE text' = <<>> /\ cursor' = 0 /\ dropped' = TRUE
        /\ UNCHANGED <<past, at>>

Erase ==
    /\ cursor > 0
    /\ text' = RemoveAt(text, cursor) /\ cursor' = cursor - 1
    /\ UNCHANGED <<past, at, dropped>>

Move(n) ==
    /\ cursor + n \in 0..Len(text)
    /\ cursor' = cursor + n
    /\ UNCHANGED <<text, past, at, dropped>>

Show(i) ==
    /\ i \in 0..Len(past) - 1
    /\ at' = i /\ text' = past[i + 1] /\ cursor' = Len(past[i + 1])
    /\ dropped' = FALSE
    /\ UNCHANGED past

Older == Show(at - 1)
Newer == Show(IF at < Len(past) - 1 THEN at + 1 ELSE Len(past) - 1)

Complete ==
    /\ text' \in BoundedSeq(Chars, Size - 1) /\ IsPrefix(text, text')
    /\ cursor' = Len(text')
    /\ UNCHANGED <<past, at, dropped>>

\* The command is run.  After a drop it may be remembered although it repeats
\* the last one.
Enter ==
    /\ \/ past' = past /\ (text = <<>> \/ (past # <<>> /\ Last(past) = text))
       \/ /\ text # <<>> /\ (dropped \/ past = <<>> \/ Last(past) # text)
          /\ past' = IF Len(past) < Lines THEN Append(past, text) ELSE Append(Tail(past), text)
    /\ at' = Len(past')
    /\ text' = <<>> /\ cursor' = 0 /\ dropped' = FALSE

Init == text = <<>> /\ cursor = 0 /\ past = <<>> /\ at = 0 /\ dropped = FALSE

Next == \/ \E c \in Chars : Insert(c)
        \/ \E n \in {-1, 1} : Move(n)
        \/ Erase \/ Older \/ Newer \/ Complete \/ Enter

Spec == Init /\ [][Next]_vars
=============================================================================
