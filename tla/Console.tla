------------------------------- MODULE Console -------------------------------
(***************************************************************************)
(* Keyboard and text screen together: keyboard_handler (interrupts/irq.rs) *)
(* parses a key, which may switch the screen to another terminal, while    *)
(* the kernel writes to it.  The handler is one step: the PIC holds the    *)
(* keyboard's line in service while it runs, and a timer tick touches none *)
(* of this state.  It has no gate in the IDT (see Boot), so this is what it *)
(* does when it is called.                                                 *)
(***************************************************************************)
EXTENDS Keyboard, TextBuffer

CONSTANTS
  Users,     \* the keys that are used, and the bytes the kernel writes
  Displays   \* what the firmware may have left on the display

VARIABLES
  user,          \* one of Users
  console_pc     \* "clear", "ttys", "run" or "panic"

consoleVars == <<kbdVars, textVars, user, console_pc>>

ConsoleInit ==
  /\ user \in Users
  /\ KbdInit
  /\ \E before \in Displays : TextInit(before)
  /\ console_pc = "clear"

\* init(): clear_screen, later vga::init.
BootClear ==
  /\ console_pc = "clear"
  /\ ClearScreen
  /\ console_pc' = "ttys"
  /\ UNCHANGED <<kbdVars, user>>

BootTtys ==
  /\ console_pc = "ttys"
  /\ TtyInit
  /\ console_pc' = "run"
  /\ UNCHANGED <<kbdVars, user>>

\* One byte of a print.  print holds SCREEN for all of its bytes, and a
\* keyboard_handler that came in between two of them would wait for it for
\* ever; here it finishes, so every order of the bytes is explored.
KernelWrites ==
  /\ console_pc \in {"ttys", "run"}
  /\ \E byte \in user.bytes : WriteByte(byte)
  /\ UNCHANGED <<kbdVars, user, console_pc>>

KeyDown == \E k \in user.keys : Press(k) /\ UNCHANGED <<textVars, user, console_pc>>

KeyUp == \E k \in user.keys : Release(k) /\ UNCHANGED <<textVars, user, console_pc>>

\* keyboard_handler: the switch comes before the character is printed.
KeyboardHandler ==
  /\ console_pc = "run" /\ wire # <<>>
  /\ \E c \in Codes :
       IF Switches(c[1])
       THEN \/ /\ CanSwitch(SwitchIndex)
               /\ SwitchTty(SwitchIndex)
               /\ Parse(c[1], c[2])
               /\ UNCHANGED console_pc
            \/ /\ ~CanSwitch(SwitchIndex)
               /\ console_pc' = "panic"
               /\ UNCHANGED <<kbdVars, textVars>>
       ELSE Parse(c[1], c[2]) /\ UNCHANGED <<textVars, console_pc>>
  /\ UNCHANGED user

Panicked == console_pc = "panic" /\ UNCHANGED consoleVars

ConsoleNext ==
  BootClear \/ BootTtys \/ KernelWrites \/ KeyDown \/ KeyUp \/ KeyboardHandler \/ Panicked

ConsoleSpec == ConsoleInit /\ [][ConsoleNext]_consoleVars

-----------------------------------------------------------------------------
ConsoleTypeOK ==
  /\ held \subseteq user.keys
  /\ Len(wire) <= WIRE /\ Len(owed) <= WIRE
  /\ down \subseteq Shifts \cup Controls \cup {"AltLeft"}
  /\ function_keys \subseteq 0 .. 11
  /\ {capsOn, caps_lock, num_lock} \subseteq BOOLEAN
  /\ screen.column \in 0 .. WIDTH /\ screen.active
  /\ DOMAIN screen.chars = 0 .. LAST
  /\ \A r \in 0 .. LAST : screen.chars[r] \in [0 .. WIDTH - 1 -> BYTES]
  /\ vga.cursor \in 0 .. HEIGHT * WIDTH
  /\ console_pc \in {"clear", "ttys", "run", "panic"}

\* What is typed is printed, in order and in the case that the user saw
\* fit, although the modifiers are only known from bytes that are handled
\* later, and whatever extended keys come in between: an interrupt for a key
\* of one byte prints what that key owes, and when all bytes have been read
\* nothing is owed and Shift and CapsLock are what they are on the keyboard.
\* (The second byte of an extended key, when it comes late, is taken for a
\* key of its own.)  ps2_keyboard.rs:66-169.
TypedIsPrinted ==
  /\ [][(wire # <<>> /\ wire' = Tail(wire) /\ ~Head(wire).second) =>
          out' = <<>> \/ out' = <<Head(owed)>>]_consoleVars
  /\ [](wire = <<>> =>
          /\ owed = <<>>
          /\ (down \cap Shifts # {}) = ShiftHeld
          /\ caps_lock = capsOn)
=============================================================================
