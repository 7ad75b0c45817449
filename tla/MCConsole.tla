------------------------------ MODULE MCConsole ------------------------------
(* Console with a screen of a few cells and three users: one who types, one *)
(* program that writes, and both in a smaller way.                          *)
EXTENDS Console

MCBytes == {"x", " ", "newline", "backspace", "tab"}

A == Key(\h1E, FALSE)
Enter == Key(\h1C, FALSE)
LeftShift == Key(\h2A, FALSE)
RightShift == Key(\h36, FALSE)
Caps == Key(\h3A, FALSE)
LeftControl == Key(\h1D, FALSE)
RightControl == Key(\h1D, TRUE)
KeypadEnter == Key(\h1C, TRUE)
F2 == Key(\h3C, FALSE)
F7 == Key(\h41, FALSE)

MCUsers ==
  {[keys |-> {A, LeftShift, RightShift, Caps, KeypadEnter}, bytes |-> {}],
   [keys |-> {A, Enter, LeftShift, RightControl, F7}, bytes |-> {}],
   [keys |-> {A, LeftControl, F2}, bytes |-> {"x", "newline"}],
   [keys |-> {}, bytes |-> MCBytes]}

\* An empty display, and one with some text.
MCDisplays ==
  {[r \in 0 .. LAST |-> [c \in 0 .. WIDTH - 1 |-> byte]] : byte \in {"x", " "}}
=============================================================================
