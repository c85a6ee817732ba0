------------------------------ MODULE Console -------------------------------
(***************************************************************************)
(* Printing: rt_kprintf (kservice.c) formats its text into rt_log_buf, one *)
(* buffer for all callers, and has rt_hw_console_output (USart.c) send it. *)
(*                                                                         *)
(* Threads and interrupt handlers print.  Nothing guards the buffer;       *)
(* sending locks the scheduler, which keeps other threads away but not the *)
(* handlers.  A character that is put in the buffer is a step, and so is a *)
(* test for the end of the text, and a character that is sent.  A text is  *)
(* the characters its format makes of its arguments.                       *)
(***************************************************************************)
EXTENDS Integers, SequencesExt

CONSTANTS Threads,   \* the threads that print; any of them may be switched to
          Handlers,  \* the interrupt handlers that print
          Urgency,   \* [Handlers -> Nat]: who interrupts whom
          Texts,     \* what they print
          Size,      \* RT_CONSOLEBUF_SIZE
          Nul,       \* '\0'
          NoCall     \* prints nothing

Callers == Threads \union Handlers
Chars == {Nul} \union UNION {Range(x) : x \in Texts}

Cells == 0..Size - 1
\* str - buf, and while sending str - rt_log_buf, is n; `seen` is the character that
\* was tested.  `alone` until others write the buffer, a call has sent `sent`.
Prints == [at : {"format", "lock", "test", "send"}, text : Texts, n : Nat, seen : Chars,
           alone : BOOLEAN, sent : Seq(Chars)]

ConsoleAssumption ==
    /\ Threads \intersect Handlers = {} /\ Urgency \in [Handlers -> Nat]
    /\ \A x \in Texts : x \in Seq(Chars) /\ Nul \notin Range(x)
    /\ Size \in Nat /\ Size > 2
    /\ NoCall \notin Threads /\ NoCall \notin Prints

VARIABLES
    log,      \* rt_log_buf
    nest,     \* rt_scheduler_lock_nest
    running,  \* the thread that was switched to last
    print     \* the calls of rt_kprintf

vars == <<log, nest, running, print>>

TypeOK ==
    /\ log \in [Cells -> Chars] /\ nest \in Nat
    /\ running \in Threads \union {NoCall}
    /\ print \in [Callers -> Prints \union {NoCall}]

In(c, l) == print[c] # NoCall /\ print[c].at = l
Sends(c) == In(c, "test") \/ In(c, "send")

\* Handlers go before threads and the more urgent before the less; they run to
\* their end.  Threads are switched while the scheduler is not locked.
Outranks(d, c) == d \in Handlers /\ (c \in Handlers => Urgency[d] > Urgency[c])
Runs(c) ==
    /\ \A d \in Callers : Outranks(d, c) => print[d] = NoCall
    /\ c \in Threads => nest = 0 \/ running = c
    /\ running' = IF c \in Threads THEN c ELSE running

\* Everyone else in a call has company when c writes the buffer.
Writes(c, p) ==
    print' = [d \in Callers |->
                 IF d = c THEN p
                 ELSE IF print[d] = NoCall THEN NoCall
                 ELSE [print[d] EXCEPT !.alone = FALSE, !.sent = <<>>]]

-----------------------------------------------------------------------------
\* rt_kprintf has room for one character less than the buffer.
Room == Size - 1

Start(c, x) ==
    /\ Runs(c) /\ print[c] = NoCall
    /\ print' = [print EXCEPT ![c] =
          [at |-> "format", text |-> x, n |-> 0, seen |-> Nul, alone |-> TRUE, sent |-> <<>>]]
    /\ UNCHANGED <<log, nest>>

\* rt_vsnprintf puts the characters that fit and counts all of them.
Put(c) ==
    /\ Runs(c) /\ In(c, "format") /\ print[c].n < Len(print[c].text)
    /\ Writes(c, [print[c] EXCEPT !.n = @ + 1])
    /\ log' = IF print[c].n >= Room THEN log
              ELSE [log EXCEPT ![print[c].n] = print[c].text[print[c].n + 1]]
    /\ UNCHANGED nest

\* It ends the text behind its last character or in the last place there is.
End(n) == IF n < Room THEN n ELSE Room - 1

FinishFitting(c) ==
    /\ Runs(c) /\ In(c, "format") /\ print[c].n = Len(print[c].text)
    /\ log' = IF print[c].n < Room THEN [log EXCEPT ![print[c].n] = Nul] ELSE log
    /\ Writes(c, [print[c] EXCEPT !.at = "lock"])
    /\ UNCHANGED nest
Finish(c) ==
    /\ Runs(c) /\ In(c, "format") /\ print[c].n = Len(print[c].text)
    /\ log' = [log EXCEPT ![End(print[c].n)] = Nul]
    /\ Writes(c, [print[c] EXCEPT !.at = "lock"])
    /\ UNCHANGED nest

\* rt_hw_console_output locks the scheduler and begins at the front.
Lock(c) ==
    /\ Runs(c) /\ In(c, "lock")
    /\ nest' = nest + 1
    /\ print' = [print EXCEPT ![c].at = "test", ![c].n = 0]
    /\ UNCHANGED log

\* The loop of rt_hw_console_output reads the character when it tests it, and, if
\* the compiler did not keep it, once more when it sends it.
Test(c) ==
    /\ Runs(c) /\ In(c, "test") /\ log[print[c].n] # Nul
    /\ print' = [print EXCEPT ![c].at = "send", ![c].seen = log[print[c].n]]
    /\ UNCHANGED <<log, nest>>

Send(c) ==
    /\ Runs(c) /\ In(c, "send")
    /\ \E ch \in {print[c].seen, log[print[c].n]} :
          print' = [print EXCEPT ![c].at = "test", ![c].n = @ + 1, ![c].seen = Nul,
                                 ![c].sent = IF print[c].alone THEN Append(@, ch) ELSE @]
    /\ UNCHANGED <<log, nest>>

Return(c) ==
    /\ Runs(c) /\ In(c, "test") /\ log[print[c].n] = Nul
    /\ nest' = nest - 1
    /\ print' = [print EXCEPT ![c] = NoCall]
    /\ UNCHANGED log

Init ==
    /\ log = [i \in Cells |-> Nul] /\ nest = 0 /\ running = NoCall
    /\ print = [c \in Callers |-> NoCall]

Next == \E c \in Callers :
    \/ Put(c) \/ Finish(c) \/ Lock(c) \/ Test(c) \/ Send(c) \/ Return(c)
    \/ \E x \in Texts : Start(c, x)

Spec == Init /\ [][Next]_vars
-----------------------------------------------------------------------------
\* The texts of callers are mixed up, but only when their calls overlap: who was
\* alone has sent his text, or as much as has room, and no more.  Whatever the
\* others put in the buffer meanwhile, there is an end of the text ahead of where
\* a caller sends, inside the buffer; and a thread's text is never between the
\* characters of another's.
Printed ==
    /\ TypeOK
    /\ \A c \in Callers : Sends(c) => print[c].n \in Cells
    /\ \A c \in Callers : In(c, "test") => \E i \in Cells : i >= print[c].n /\ log[i] = Nul
    /\ \A c \in Callers : In(c, "test") /\ print[c].alone /\ log[print[c].n] = Nul =>
          print[c].sent = SubSeq(print[c].text, 1, End(Len(print[c].text)))
    /\ \A t, u \in Threads : Sends(t) /\ Sends(u) => t = u
=============================================================================
