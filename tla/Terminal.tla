------------------------------ MODULE Terminal -------------------------------
(***************************************************************************)
(* What a text screen promises: lines that scroll up, a line that is being *)
(* written, and a display that shows both after every byte.                *)
(***************************************************************************)
EXTENDS Integers, Sequences, SequencesExt

CONSTANTS
  WIDTH, HEIGHT,
  BYTES, SPACE, NEWLINE, BACKSPACE, TAB   \* what may be written

VARIABLES
  above,     \* the rows above the line, oldest first, WIDTH characters each
  line,      \* what has been written to the last row
  display,   \* the rows that are shown
  cursor     \* the cell that blinks

termVars == <<above, line, display, cursor>>

Blanks(n) == [c \in 1 .. n |-> SPACE]
Pad(text) == text \o Blanks(WIDTH - Len(text))
BlankRows == [r \in 1 .. HEIGHT - 1 |-> Blanks(WIDTH)]

Text(a, l) == [above |-> a, line |-> l]

Scrolled(t) == Text(Tail(Append(t.above, Pad(t.line))), <<>>)

\* A full line scrolls when the next character comes, not before.
WithChar(t, c) ==
  IF Len(t.line) = WIDTH THEN Text(Scrolled(t).above, <<c>>)
                         ELSE Text(t.above, Append(t.line, c))

After(t, byte) ==
  CASE byte = NEWLINE -> Scrolled(t)
    [] byte = BACKSPACE -> Text(t.above, IF t.line = <<>> THEN <<>> ELSE Front(t.line))
    [] byte = TAB -> FoldLeft(WithChar, t, Blanks(4))
    [] OTHER -> WithChar(t, byte)

Become(t) == above' = t.above /\ line' = t.line

Show ==
  /\ display' = Append(above', Pad(line'))
  /\ cursor' = (HEIGHT - 1) * WIDTH + Len(line')

-----------------------------------------------------------------------------
\* The display shows what the firmware left.
TermInit ==
  /\ above = BlankRows
  /\ line = <<>>

WriteTo == \E byte \in BYTES : Become(After(Text(above, line), byte)) /\ Show

Clear == Become(Text(BlankRows, <<>>)) /\ Show

\* Another terminal: it is empty, and is shown when it is written to.
Switch == Become(Text(BlankRows, <<>>)) /\ UNCHANGED <<display, cursor>>

TermNext == WriteTo \/ Clear \/ Switch

TermSpec == TermInit /\ [][TermNext]_termVars
=============================================================================
