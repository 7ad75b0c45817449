------------------------------ MODULE Keyboard -------------------------------
(***************************************************************************)
(* The PS/2 keyboard: the bytes it sends and what parse_key makes of them  *)
(* (src/device/keyboard/).  A key sends its make code when it goes down    *)
(* and while it is held, and make + 0x80 when it goes up; an extended key  *)
(* sends 0xE0 first.  A LowerAscii key is known by its code: which         *)
(* characters the layout gives it is left out, except whether the upper    *)
(* one is printed.                                                         *)
(***************************************************************************)
EXTENDS Integers, Sequences

CONSTANT WIRE   \* bound: bytes that the keyboard has sent and nobody has read

VARIABLES
  held,      \* the keys that are down
  wire,      \* bytes sent; `second` marks those that follow 0xE0
  capsOn,    \* whether CapsLock was pressed an odd number of times
  owed,      \* what the keys that were pressed are still to print
  down,      \* ModifierState: the fields of shift, control and alt that are set,
  caps_lock, num_lock, function_keys,  \* ... and the rest of it
  out        \* what the latest interrupt printed, <<>> if nothing

deviceVars == <<held, wire, capsOn, owed>>
stateVars == <<down, caps_lock, num_lock, function_keys>>
kbdVars == <<deviceVars, stateVars, out>>

-----------------------------------------------------------------------------
\* match_scancode.
LowerAscii ==
  (\h02 .. \h0D) \cup (\h10 .. \h1B) \cup (\h1E .. \h28) \cup (\h2C .. \h35) \cup {\h29, \h2B}

Ascii == {\h01, \h0E, \h0F, \h1C, \h39}

\* Backspace, tab, newline and space; print_char drops escape.
Printed == Ascii \ {\h01}

Pressed(code) ==
  CASE code = \h1D -> {"ControlLeft"}
    [] code = \hE01D -> {"ControlRight"}
    [] code = \h2A -> {"ShiftLeft"}
    [] code = \h36 -> {"ShiftRight"}
    [] code = \h38 -> {"AltLeft"}
    [] OTHER -> {}

Released(code) ==
  CASE code = \h9D -> {"ControlLeft"}
    [] code = \hE09D -> {"ControlRight"}
    [] code = \hAA -> {"ShiftLeft"}
    [] code = \hB6 -> {"ShiftRight"}
    [] code = \hB8 -> {"AltLeft"}
    [] code \in {\hE038, \hE0B8} -> {"AltRight"}
    [] OTHER -> {}

CapsLock == \h3A
NumLock == \h45
ScrollLock == \h46

\* F1 to F12, pressed or released: FunctionKeys(m) sets the flag either way.
FunctionKeys(code) ==
  IF code \in (\h3B .. \h44) \cup (\hBB .. \hC4) THEN {(code % 128) - \h3B}
  ELSE IF code \in {\h57, \h58, \hD7, \hD8} THEN {(code % 128) - \h57 + 10}
  ELSE {}

\* is_special_key.
Special == {\h5B, \hDB, \h1D, \h9D, \h5C, \hDC, \h38, \hB8, \h5D, \hDD, \h52, \hD2,
            \h47, \h97, \h49, \hC9, \h53, \hD3, \h4F, \hCF, \h51, \hD1, \h48, \hC8,
            \h4B, \hCB, \h50, \hD0, \h4D, \hCD, \h35, \hB5, \h1C, \h9C}

\* retrieve_bytes folds from the end, shifting by one bit only.
Sequence(first, check) == IF check \in Special THEN 2 * check + first ELSE first

-----------------------------------------------------------------------------
\* ModifierState.
Shifts == {"ShiftLeft", "ShiftRight"}
Controls == {"ControlLeft", "ControlRight"}

UseUppercase == (down \cap Shifts # {}) # caps_lock

ShouldSwitchTty == down \cap Controls # {} /\ function_keys # {}

\* Mutant: a release is not told from a press.
UpdateOnlySets(code) ==
  /\ down' = down \cup Pressed(code) \cup Released(code)
  /\ caps_lock' = (caps_lock # (code = CapsLock))
  /\ num_lock' = IF code = ScrollLock THEN TRUE ELSE (num_lock # (code = NumLock))
  /\ function_keys' = function_keys \cup FunctionKeys(code)

\* ScrollLock assigns num_lock, from a scroll_lock that stays false.
Update(code) ==
  /\ down' = (down \cup Pressed(code)) \ Released(code)
  /\ caps_lock' = (caps_lock # (code = CapsLock))
  /\ num_lock' = IF code = ScrollLock THEN TRUE ELSE (num_lock # (code = NumLock))
  /\ function_keys' = function_keys \cup FunctionKeys(code)

\* What parse_key prints for a code.
Output(code) ==
  IF code \in LowerAscii THEN <<[key |-> code, upper |-> UseUppercase]>>
  ELSE IF code \in Printed THEN <<[key |-> code, upper |-> FALSE]>>
  ELSE <<>>

\* apply_to switches terminals only for lower case.
Switches(code) == code \in LowerAscii /\ ~UseUppercase /\ ShouldSwitchTty

\* The first function key that has ever been used.
SwitchIndex == CHOOSE k \in function_keys : \A j \in function_keys : k <= j

-----------------------------------------------------------------------------
KbdInit ==
  /\ held = {} /\ wire = <<>> /\ capsOn = FALSE /\ owed = <<>>
  /\ down = {} /\ caps_lock = FALSE /\ num_lock = FALSE /\ function_keys = {}
  /\ out = <<>>

Key(make, extended) == [make |-> make, extended |-> extended]

Bytes(k, code) ==
  (IF k.extended THEN <<[byte |-> \hE0, second |-> FALSE]>> ELSE <<>>)
    \o <<[byte |-> code, second |-> k.extended]>>

\* Shift is down, as opposed to: the kernel takes it to be down.
ShiftHeld == \E k \in held : ~k.extended /\ Pressed(k.make) \cap Shifts # {}

Owes(k) ==
  IF k.extended THEN <<>>
  ELSE IF k.make \in LowerAscii THEN <<[key |-> k.make, upper |-> ShiftHeld # capsOn]>>
  ELSE IF k.make \in Printed THEN <<[key |-> k.make, upper |-> FALSE]>>
  ELSE <<>>

\* A key goes down, or is held and repeats.
Press(k) ==
  /\ Len(wire) + Len(Bytes(k, k.make)) <= WIRE
  /\ held' = held \cup {k}
  /\ wire' = wire \o Bytes(k, k.make)
  /\ capsOn' = (capsOn # (k = Key(CapsLock, FALSE)))
  /\ owed' = owed \o Owes(k)
  /\ UNCHANGED <<stateVars, out>>

Release(k) ==
  /\ k \in held
  /\ Len(wire) + Len(Bytes(k, k.make)) <= WIRE
  /\ held' = held \ {k}
  /\ wire' = wire \o Bytes(k, k.make + 128)
  /\ UNCHANGED <<capsOn, owed, stateVars, out>>

\* The interrupt handler has read n bytes, which make up `code`.
Parse(code, n) ==
  /\ wire' = SubSeq(wire, n + 1, Len(wire))
  /\ out' = Output(code)
  /\ owed' = IF Output(code) # <<>> /\ ~wire[n].second /\ owed # <<>> THEN Tail(owed) ELSE owed
  /\ Update(code)
  /\ UNCHANGED <<held, capsOn>>

StartsSequence(byte) == byte \in {\hE0, \hE1}

\* What read_char and retrieve_bytes may find.  The second byte of a sequence
\* is not waited for: if it is not there yet the port still gives 0xE0, and
\* the byte gets an interrupt of its own later.
Codes ==
  LET first == wire[1].byte IN
  IF ~StartsSequence(first) THEN {<<first, 1>>}
  ELSE {<<Sequence(first, first), 1>>}
         \cup (IF Len(wire) > 1 THEN {<<Sequence(first, wire[2].byte), 2>>} ELSE {})
=============================================================================
