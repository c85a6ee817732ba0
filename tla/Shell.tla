------------------------------- MODULE Shell -------------------------------
(***************************************************************************)
(* The input line of the shell: finsh_thread_entry of shell.c, a step for  *)
(* each byte finsh_getchar returns, with shell_push_history and what       *)
(* msh_auto_complete makes of the line.                                    *)
(*                                                                         *)
(* The cells of the line keep what was typed until Enter clears them, also *)
(* when a line that is full is given up, and Tab measures the line by      *)
(* strlen.  The history is an option (FINSH_USING_HISTORY).                *)
(***************************************************************************)
EXTENDS Integers, SequencesExt

CONSTANTS Chars,     \* the printable bytes that are typed
          Nul,       \* '\0'
          Size,      \* FINSH_CMD_SIZE
          Lines,     \* FINSH_HISTORY_LINES
          Commands   \* the names in the symbol table

Arrows == {"A", "B", "C", "D"}   \* 0x41 up, 0x42 down, 0x43 right, 0x44 left

ShellAssumption ==
    /\ Nul \notin Chars /\ Size \in Nat \ {0} /\ Lines \in Nat \ {0}
    /\ Commands \subseteq BoundedSeq(Chars, Size - 1) \ {<<>>}

VARIABLES
    line,     \* shell->line
    pos,      \* line_position
    cur,      \* line_curpos
    history,  \* the first history_count lines of cmd_history
    current,  \* current_history
    stat      \* shell->stat, or "wild": strlen went on behind the line

vars == <<line, pos, cur, history, current, stat>>

TypeOK == /\ line \in [1..Size -> Chars \union {Nul}]
          /\ pos \in 0..Size /\ cur \in 0..Size
          /\ \A i \in DOMAIN history : Len(history[i]) < Size
          /\ Len(history) =< Lines /\ current \in 0..Lines
          /\ stat \in {"normal", "spec", "func", "wild"}

-----------------------------------------------------------------------------
Text == SubSeq(line, 1, pos)
Cells(s) == [i \in 1..Size |-> IF i =< Len(s) THEN s[i] ELSE Nul]
Length(l) == SelectInSeq(Append(l, Nul), LAMBDA x : x = Nul) - 1   \* strlen

\* The line becomes l and the cursor goes behind it.
Show(l) == line' = l /\ pos' = Length(l) /\ cur' = Length(l)

Byte == stat # "wild"
Plain == stat' = "normal"    \* whatever escape sequence had begun is over

\* 0x1b, and 0x5b behind it
Escape == /\ Byte /\ stat' = "spec"
          /\ UNCHANGED <<line, pos, cur, history, current>>

Bracket == /\ stat = "spec" /\ stat' = "func"
           /\ UNCHANGED <<line, pos, cur, history, current>>

\* '\0' or 0xFF
Ignored == /\ Byte /\ Plain
           /\ UNCHANGED <<line, pos, cur, history, current>>

\* Mutation of Up: the line keeps what is behind the command.
UpOver ==
    /\ stat = "func" /\ Plain
    /\ IF current > 0
       THEN /\ current' = current - 1
            /\ line' = [i \in 1..Size |-> IF i =< Len(history[current]) THEN history[current][i] ELSE line[i]]
            /\ pos' = Len(history[current]) /\ cur' = pos'
       ELSE UNCHANGED <<current, line, pos, cur>>
    /\ UNCHANGED history

Up ==
    /\ stat = "func" /\ Plain
    /\ IF current > 0
       THEN current' = current - 1 /\ Show(Cells(history[current]))
       ELSE UNCHANGED <<current, line, pos, cur>>
    /\ UNCHANGED history

Down ==
    /\ stat = "func" /\ Plain
    /\ IF history = <<>> THEN UNCHANGED <<current, line, pos, cur>>
       ELSE /\ current' = IF current < Len(history) - 1 THEN current + 1 ELSE Len(history) - 1
            /\ Show(Cells(history[current' + 1]))
    /\ UNCHANGED history

Left ==
    /\ stat = "func" /\ Plain
    /\ cur' = IF cur > 0 THEN cur - 1 ELSE cur
    /\ UNCHANGED <<line, pos, history, current>>

Right ==
    /\ stat = "func" /\ Plain
    /\ cur' = IF cur < pos THEN cur + 1 ELSE cur
    /\ UNCHANGED <<line, pos, history, current>>

\* msh_auto_complete: what the commands that begin with the text have in common
Completed(s) ==
    LET matching == {c \in Commands : IsPrefix(s, c)}
    IN  IF s = <<>> \/ matching = {} THEN s ELSE LongestCommonPrefix(matching)

Tabbed == LET s == Completed(SubSeq(line, 1, Length(line)))
          IN  [i \in 1..Size |-> IF i =< Len(s) THEN s[i] ELSE line[i]]

Tab ==
    /\ Byte
    /\ IF Length(line) < Size /\ Length(Tabbed) < Size
       THEN Plain /\ Show(Tabbed)
       ELSE stat' = "wild" /\ UNCHANGED <<line, pos, cur>>
    /\ UNCHANGED <<history, current>>

Backspace ==
    /\ Byte /\ Plain
    /\ IF cur = 0 THEN UNCHANGED <<line, pos, cur>>
       ELSE /\ pos' = pos - 1 /\ cur' = cur - 1
            /\ line' = [i \in 1..Size |-> IF i = pos THEN Nul
                                          ELSE IF i \in cur..pos' THEN line[i + 1] ELSE line[i]]
    /\ UNCHANGED <<history, current>>

\* shell_push_history: the last command is compared with the whole line, what
\* is behind the text included.
Pushed ==
    IF pos = 0 \/ (history # <<>> /\ Cells(Last(history)) = line) THEN history
    ELSE IF Len(history) < Lines THEN Append(history, Text)
    ELSE Append(Tail(history), Text)

\* msh_exec gets the text; then the line is cleared.
Enter ==
    /\ Byte /\ Plain
    /\ history' = Pushed /\ current' = Len(history')
    /\ Show(Cells(<<>>))

\* Mutation of Type: the cursor stays where it is when a full line is given up.
TypeKeepsCursor(c) ==
    /\ Byte /\ Plain
    /\ ~(stat = "spec" /\ c = "[") /\ ~(stat = "func" /\ c \in Arrows)
    /\ line' = [i \in 1..Size |-> IF i = cur + 1 THEN c
                                  ELSE IF i \in cur + 2..pos + 1 THEN line[i - 1] ELSE line[i]]
    /\ IF pos + 1 >= Size THEN pos' = 0 /\ UNCHANGED cur
                          ELSE pos' = pos + 1 /\ cur' = cur + 1
    /\ UNCHANGED <<history, current>>

\* A printable byte goes in at the cursor.  A line that is full is given up:
\* its cells stay.  The first test for that, before the byte goes in, finds pos
\* below Size always.
Type(c) ==
    /\ Byte /\ Plain
    /\ ~(stat = "spec" /\ c = "[") /\ ~(stat = "func" /\ c \in Arrows)
    /\ line' = [i \in 1..Size |-> IF i = cur + 1 THEN c
                                  ELSE IF i \in cur + 2..pos + 1 THEN line[i - 1] ELSE line[i]]
    /\ IF pos + 1 >= Size THEN pos' = 0 /\ cur' = 0
                          ELSE pos' = pos + 1 /\ cur' = cur + 1
    /\ UNCHANGED <<history, current>>

\* finsh_system_init clears the shell.
Init ==
    /\ line = Cells(<<>>) /\ pos = 0 /\ cur = 0
    /\ history = <<>> /\ current = 0 /\ stat = "normal"

Next ==
    \/ Escape \/ Bracket \/ Ignored \/ Up \/ Down \/ Left \/ Right
    \/ Tab \/ Backspace \/ Enter
    \/ \E c \in Chars : Type(c)

Spec == Init /\ [][Next]_vars
-----------------------------------------------------------------------------
(* Properties                                                               *)

Full == line[Size] # Nul    \* a line was given up since the cells were cleared

\* Whatever is typed, moved, erased, completed and recalled: the cursor is in
\* the text, the text has no hole, and the cell behind it ends it for strlen,
\* which only a line that was given up can undo.
LineEnds ==
    /\ TypeOK
    /\ cur =< pos /\ pos < Size /\ Nul \notin Range(Text)
    /\ ~Full => line[pos + 1] = Nul /\ stat # "wild"

\* The line, the cursor and the history behave as LineEditor says.
Editor == INSTANCE LineEditor WITH text <- Text, cursor <- cur, past <- history,
                                   at <- current, dropped <- Full
ImplementsEditor == Editor!Spec
=============================================================================
