----------------------------- MODULE TextBuffer ------------------------------
(***************************************************************************)
(* The text screen, src/device/vga/: the buffer SCREEN that is written to, *)
(* the VGA memory and cursor it is copied to, and the six buffers TTYS.    *)
(* All cells have the same colour.                                         *)
(***************************************************************************)
EXTENDS Integers, Sequences, SequencesExt

CONSTANTS
  WIDTH, HEIGHT,                    \* 80 and 25
  BYTES,                            \* u8
  SPACE, NEWLINE, BACKSPACE, TAB    \* the bytes write_byte looks at

VARIABLES
  screen,   \* SCREEN: chars, column_position, active
  ttys,     \* TTYS, <<>> before tty_init
  vga       \* VGA memory at 0xb8000, and the cursor's position

textVars == <<screen, ttys, vga>>

TTY_COUNT == 6
LAST == HEIGHT - 1

-----------------------------------------------------------------------------
ClearRow(chars, row) == [chars EXCEPT ![row] = [c \in 0 .. WIDTH - 1 |-> SPACE]]

NewLine(b) ==
  [b EXCEPT !.chars = ClearRow([r \in 0 .. LAST |-> @[IF r < LAST THEN r + 1 ELSE r]], LAST),
            !.column = 0]

DeleteByte(b) ==
  IF b.column = 0 THEN b
  ELSE [b EXCEPT !.chars[LAST][b.column - 1] = SPACE, !.column = @ - 1]

\* Mutant: the row is ended one character late.
WrapsLate(b) == IF b.column > WIDTH THEN NewLine(b) ELSE b

\* At the end of a row the next byte starts a new one.
Wrapped(b) == IF b.column >= WIDTH THEN NewLine(b) ELSE b

PutInRow(b, byte) == [b EXCEPT !.chars[LAST][b.column] = byte, !.column = @ + 1]

Put(b, byte) == PutInRow(Wrapped(b), byte)

Written(b, byte) ==
  CASE byte = NEWLINE -> NewLine(b)
    [] byte = BACKSPACE -> DeleteByte(b)
    [] byte = TAB -> FoldLeft(Put, b, [k \in 1 .. 4 |-> SPACE])
    [] OTHER -> Put(b, byte)

\* sync_buffer and update_cursor.
Shown(b) == [chars |-> b.chars, cursor |-> LAST * WIDTH + b.column]

Sync == vga' = IF screen'.active THEN Shown(screen') ELSE vga

Buffer(active) ==
  [chars |-> [r \in 0 .. LAST |-> [c \in 0 .. WIDTH - 1 |-> SPACE]],
   column |-> 0, active |-> active]

-----------------------------------------------------------------------------
\* `before` is what the firmware displays.
TextInit(before) ==
  /\ screen = Buffer(TRUE)
  /\ ttys = <<>>
  /\ vga = [chars |-> before, cursor |-> 0]

ClearScreen ==
  /\ screen' = FoldLeft(LAMBDA b, row : NewLine(b), screen, [row \in 1 .. HEIGHT |-> row])
  /\ Sync
  /\ UNCHANGED ttys

TtyInit ==
  /\ ttys' = [k \in 1 .. TTY_COUNT |-> Buffer(FALSE)]
  /\ UNCHANGED <<screen, vga>>

\* write_byte, called by write_str for each byte of buffer::print.
WriteByte(byte) ==
  /\ screen' = Written(screen, byte)
  /\ Sync
  /\ UNCHANGED ttys

\* switch(index) panics before tty_init and past the last terminal.
CanSwitch(index) == index + 1 \in DOMAIN ttys

\* Mutant: the terminal is not activated.
SwitchOnlyCopies(index) == screen' = ttys[index + 1] /\ UNCHANGED <<ttys, vga>>

\* The list is copied, then the terminal is copied to SCREEN; TTYS keeps its
\* six empty buffers, and nothing is displayed yet.
SwitchTty(index) ==
  /\ screen' = [ttys[index + 1] EXCEPT !.active = TRUE]
  /\ UNCHANGED <<ttys, vga>>

-----------------------------------------------------------------------------
Rows(chars) == [r \in 1 .. HEIGHT |-> [c \in 1 .. WIDTH |-> chars[r - 1][c - 1]]]

Term == INSTANCE Terminal WITH
          above <- Front(Rows(screen.chars)),
          line <- SubSeq(Last(Rows(screen.chars)), 1, screen.column),
          display <- Rows(vga.chars),
          cursor <- vga.cursor

\* SCREEN and the VGA memory are a text terminal: rows are kept while they
\* scroll up, a full row scrolls when the next character comes, backspace
\* erases what was written to this row and nothing before it, and after each
\* byte, also after a switch to another buffer, the display and the cursor
\* show the result (buffer.rs:28-135, vga.rs:75-107).
ImplementsTerminal == Term!TermSpec
=============================================================================
