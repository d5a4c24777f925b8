------------------------------ MODULE Keyhelp --------------------------------
(***************************************************************************)
(* The translation of scancodes to characters, src/src/driver/keyhelp.c.   *)
(* kh is its static state: the modifier keys that are down and the locks   *)
(* that are on (key_state), the sequences of several scancodes it is in    *)
(* the middle of (key_internal_state) and how far it is in that of the     *)
(* pause key (key_sequence).                                               *)
(*                                                                         *)
(* A character is the level it is taken from and the code of its key; the  *)
(* numbers behind the levels do not matter here.  The raw character and    *)
(* the number pad bit of the result are used nowhere in the kernel.        *)
(***************************************************************************)
EXTENDS Integers, Sequences

CONSTANT NoChar  \* a result without data, KHE_UNDEFINED

\* key_state has "LSHIFT", "RSHIFT", "LCTL", "RCTL", "LALT", "RALT", "CAPS" and "NUM",
\* internal has "EXTENDED", "PAUSE", "PRSCR_DOWN" and "PRSCR_UP".
InitialState == [key_state |-> {}, internal |-> {}, sequence |-> 0]

Result(kh, code) == [kh |-> kh, code |-> code]

-----------------------------------------------------------------------------
KHS_SHIFT_CORE(kh) == kh.key_state \cap {"LSHIFT", "RSHIFT"} # {}
KHS_CTL_CORE(kh) == kh.key_state \cap {"LCTL", "RCTL"} # {}

KHS_SHIFT(kh, c) == IF KHS_SHIFT_CORE(kh) THEN <<"shift", c>> ELSE <<"plain", c>>

KHS_SHIFTCTL(kh, c) == IF KHS_CTL_CORE(kh) THEN <<"ctl", c>> ELSE KHS_SHIFT(kh, c)

\* (caps lock and shift together are shift)
KHS_SHIFTCAPSCTL_or(kh, c) ==
  IF KHS_CTL_CORE(kh) THEN <<"ctl", c>>
  ELSE IF KHS_SHIFT_CORE(kh) \/ "CAPS" \in kh.key_state THEN <<"shift", c>>
  ELSE <<"plain", c>>

KHS_SHIFTCAPSCTL(kh, c) ==
  IF KHS_CTL_CORE(kh) THEN <<"ctl", c>>
  ELSE IF KHS_SHIFT_CORE(kh) # ("CAPS" \in kh.key_state) THEN <<"shift", c>>
  ELSE <<"plain", c>>

\* The rows of the keyboard: 1 to =, q to ], a to `, \ to /.
NumberRow(kh, c) ==
  IF c \in {\h3, \h7, \hC} THEN KHS_SHIFTCTL(kh, c) ELSE KHS_SHIFT(kh, c)

TopRow(kh, c) == KHS_SHIFTCAPSCTL(kh, c)

HomeRow(kh, c) ==
  IF c \in \h1E..\h26 THEN KHS_SHIFTCAPSCTL(kh, c) ELSE KHS_SHIFT(kh, c)

BottomRow(kh, c) ==
  IF c = \h2B THEN KHS_SHIFTCTL(kh, c)
  ELSE IF c \in \h2C..\h32 THEN KHS_SHIFTCAPSCTL(kh, c)
  ELSE KHS_SHIFT(kh, c)

\* Escape, backspace, tab, enter and space, the function keys and the number pad have
\* one level.
EditKeys == {\h1, \hE, \hF, \h1C, \h39}
FunctionKeys == \h3B..\h44 \cup {\h57, \h58}
NumberPad == {\h37} \cup \h47..\h53

CodeOf(kh, c) ==
  CASE c \in \h2..\hD -> NumberRow(kh, c)
    [] c \in \h10..\h1B -> TopRow(kh, c)
    [] c \in \h1E..\h29 -> HomeRow(kh, c)
    [] c \in \h2B..\h35 -> BottomRow(kh, c)
    [] c \in EditKeys \cup FunctionKeys \cup NumberPad -> <<"plain", c>>
    [] OTHER -> NoChar

-----------------------------------------------------------------------------
\* A modifier is on while its key is down, a lock changes when it is pressed.
\* (a key that is released stays on)
Modifier_sticky(kh, flag, pressed) ==
  [kh EXCEPT !.key_state = IF pressed THEN @ \cup {flag} ELSE @]

Modifier(kh, flag, pressed) ==
  [kh EXCEPT !.key_state = IF pressed THEN @ \cup {flag} ELSE @ \ {flag}]

Lock(kh, flag, pressed) ==
  [kh EXCEPT !.key_state =
     IF ~pressed THEN @ ELSE IF flag \in @ THEN @ \ {flag} ELSE @ \cup {flag}]

InPause(kh, stage) == "PAUSE" \in kh.internal /\ kh.sequence = stage
NextStage(kh) == Result([kh EXCEPT !.sequence = @ + 1], NoChar)
Leave(kh, states) == [kh EXCEPT !.internal = @ \ states]
LeavePause(kh) == [Leave(kh, {"PAUSE"}) EXCEPT !.sequence = 0]

\* The codes that are also stages 0 to 3 of a pause sequence.
LeftControl(kh, pressed) ==
  IF InPause(kh, 0) THEN NextStage(kh)
  ELSE Result(Modifier(LeavePause(kh), "LCTL", pressed), NoChar)

NumLock(kh, pressed) ==
  IF InPause(kh, 1) THEN NextStage(kh)
  ELSE Result(Lock(LeavePause(kh), "NUM", pressed), NoChar)

PausePrefix(kh) ==
  IF "PAUSE" \notin kh.internal
  THEN Result([kh EXCEPT !.internal = @ \cup {"PAUSE"}, !.sequence = 0], NoChar)
  ELSE IF InPause(kh, 2) THEN NextStage(kh)
  ELSE Result(LeavePause(kh), NoChar)

process_simple_scan(kh, c, pressed) ==
  CASE c = \h1D -> LeftControl(kh, pressed)
    [] c = \h45 -> NumLock(kh, pressed)
    [] c = \h61 -> PausePrefix(kh)
    [] c = \h2A -> Result(Modifier(kh, "LSHIFT", pressed), NoChar)
    [] c = \h36 -> Result(Modifier(kh, "RSHIFT", pressed), NoChar)
    [] c = \h38 -> Result(Modifier(kh, "LALT", pressed), NoChar)
    [] c = \h3A -> Result(Lock(kh, "CAPS", pressed), NoChar)
    [] OTHER -> Result(kh, CodeOf(kh, c))

-----------------------------------------------------------------------------
\* Print screen is two extended codes, in one order when it is pressed and in the
\* other when it is released.
PrintScreen(kh, awaited, other) ==
  IF awaited \in kh.internal
  THEN Result(Leave(kh, {awaited, "EXTENDED"}), <<"seq", "PRINT_SCREEN">>)
  ELSE Result([kh EXCEPT !.internal = (@ \cup {other}) \ {"EXTENDED"}], NoChar)

\* Number pad enter and slash, the arrows and delete are characters of their own.
process_extended_scan(kh, c, pressed) ==
  LET left == Leave(kh, {"EXTENDED"})
  IN  CASE c = \h1D -> Result(Modifier(left, "RCTL", pressed), NoChar)
        [] c = \h38 -> Result(Modifier(left, "RALT", pressed), NoChar)
        [] c = \h2A -> PrintScreen(kh, "PRSCR_UP", "PRSCR_DOWN")
        [] c = \h37 -> PrintScreen(kh, "PRSCR_DOWN", "PRSCR_UP")
        [] c \in {\h1C, \h35, \h48, \h4B, \h4D, \h50, \h53} -> Result(left, <<"ext", c>>)
        [] OTHER -> Result(left, NoChar)

Pressed(scancode) == scancode < \h80

Simple(kh, scancode) ==
  process_simple_scan(Leave(kh, {"PRSCR_UP", "PRSCR_DOWN"}), scancode % \h80, Pressed(scancode))

process_scancode(kh, scancode) ==
  CASE "EXTENDED" \in kh.internal ->
         process_extended_scan(kh, scancode % \h80, Pressed(scancode))
    [] "EXTENDED" \notin kh.internal /\ scancode = \h9D ->
         IF InPause(kh, 3) THEN NextStage(kh) ELSE Simple(LeavePause(kh), scancode)
    [] "EXTENDED" \notin kh.internal /\ scancode = \hC5 ->
         IF InPause(kh, 4) THEN Result(Leave(kh, {"PAUSE"}), <<"seq", "PAUSE">>)
         ELSE Simple(LeavePause(kh), scancode)
    [] "EXTENDED" \notin kh.internal /\ scancode = \hE0 ->
         Result([kh EXCEPT !.internal = @ \cup {"EXTENDED"}], NoChar)
    [] OTHER -> Simple(kh, scancode)

\* What read_keyboard_char_impl hands out: KH_HASDATA and KH_ISMAKE.
Delivered(kh, scancode) ==
  IF Pressed(scancode) THEN process_scancode(kh, scancode).code ELSE NoChar

==============================================================================
