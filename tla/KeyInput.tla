------------------------------ MODULE KeyInput -------------------------------
(***************************************************************************)
(* From the keys to the characters a reader gets: the keyboard sends       *)
(* scancodes, the interrupt handler buffers them (src/src/driver/          *)
(* keyboard.c) and the readers translate them (Keyhelp).                   *)
(*                                                                         *)
(* A key with an extended code, print screen and pause send several        *)
(* scancodes, one interrupt each.  A reader can take scancodes out between *)
(* any two of them, and a scancode that finds the buffer full is lost.     *)
(***************************************************************************)
EXTENDS Keyhelp, FiniteSets

CONSTANTS
  Keys,               \* the keys that are used, of KeyNames
  MaxHeld,            \* bound on the keys that are down at a time
  MaxLost,            \* bound on the scancodes that are lost
  KEYBOARD_BUF_SIZE   \* capacity of the buffer

KeyNames == {"a", "2", ";", "lshift", "lctl", "rctl", "caps", "left", "prtscr", "pause"}

ASSUME KeyInputAssumption ==
  /\ Keys \subseteq KeyNames
  /\ MaxHeld \in Nat \ {0}
  /\ MaxLost \in Nat
  /\ KEYBOARD_BUF_SIZE \in Nat \ {0}

VARIABLES
  held,      \* the keys that are down
  caps,      \* caps lock has been switched on, until a scancode is lost
  sending,   \* the scancodes of the last key event the keyboard has still to send
  queue,     \* the buffer
  kh,        \* the state of the translation
  expected,  \* the characters typed that nobody has read, until a scancode is lost
  misread,   \* a reader has got another character than the one typed
  lost,      \* how many scancodes have been lost
  trusted    \* modifiers pressed, with everything in step, after the last loss

vars == <<held, caps, sending, queue, kh, expected, misread, lost, trusted>>

-----------------------------------------------------------------------------
\* The keyboard (scancode set 1).
Make(k) ==
  CASE k = "a" -> <<\h1E>>
    [] k = "2" -> <<\h3>>
    [] k = ";" -> <<\h27>>
    [] k = "lshift" -> <<\h2A>>
    [] k = "lctl" -> <<\h1D>>
    [] k = "rctl" -> <<\hE0, \h1D>>
    [] k = "caps" -> <<\h3A>>
    [] k = "left" -> <<\hE0, \h4B>>
    [] k = "prtscr" -> <<\hE0, \h2A, \hE0, \h37>>
    [] k = "pause" -> <<\hE1, \h1D, \h45, \hE1, \h9D, \hC5>>

Break(k) ==
  CASE k = "prtscr" -> <<\hE0, \hB7, \hE0, \hAA>>
    [] k \in {"rctl", "left"} -> <<\hE0, Make(k)[2] + \h80>>
    [] OTHER -> <<Make(k)[1] + \h80>>

Repeated(k) == IF k = "prtscr" THEN <<\hE0, \h37>> ELSE Make(k)

FlagOf(k) ==
  CASE k = "lshift" -> "LSHIFT"
    [] k = "lctl" -> "LCTL"
    [] k = "rctl" -> "RCTL"

ModifierKeys == Keys \cap {"lshift", "lctl", "rctl"}

\* The character a key stands for while the keys in down are held: control has a level
\* on "a" and "2" only, and caps lock acts on "a" only.
Level(k, down) ==
  IF down \cap {"lctl", "rctl"} # {} /\ k # ";" THEN "ctl"
  ELSE IF ("lshift" \in down) # (caps /\ k = "a") THEN "shift"
  ELSE "plain"

Typed(k, down) ==
  CASE k \in {"a", "2", ";"} -> <<<<Level(k, down), Make(k)[1]>>>>
    [] k = "left" -> <<<<"ext", \h4B>>>>
    [] k = "prtscr" -> <<<<"seq", "PRINT_SCREEN">>>>
    [] k = "pause" -> <<<<"seq", "PAUSE">>>>
    [] OTHER -> <<>>

\* KHE_PAUSE is recognised and never read: the scancode that completes its sequence has
\* the form of a break code, and read_keyboard_char_impl drops what is not a make event.
Dropped == {<<"seq", "PAUSE">>}

Drained == sending = <<>> /\ queue = <<>>

\* Key k goes down, or repeats.
Types(k, chars) ==
  /\ expected' = IF lost > 0 THEN <<>>
                 ELSE expected \o SelectSeq(chars, LAMBDA c : c \notin Dropped)
  /\ caps' = IF k = "caps" /\ lost = 0 THEN ~caps ELSE caps

\* The pause key has no break code, and sends another sequence while control is down;
\* print screen does so while shift or control is.  These are left out.
Press(k) ==
  /\ sending = <<>>
  /\ k \notin held
  /\ k = "pause" => held \cap {"lctl", "rctl"} = {}
  /\ k = "prtscr" => held \cap ModifierKeys = {}
  /\ k \in ModifierKeys => "prtscr" \notin held
  /\ k # "pause" => Cardinality(held) < MaxHeld
  /\ held' = IF k = "pause" THEN held ELSE held \cup {k}
  /\ sending' = Make(k)
  /\ Types(k, Typed(k, held))
  /\ trusted' = IF Drained /\ kh.internal = {} THEN trusted \cup (ModifierKeys \cap {k})
                ELSE trusted
  /\ UNCHANGED <<queue, kh, misread, lost>>

Release(k) ==
  /\ sending = <<>>
  /\ k \in held
  /\ held' = held \ {k}
  /\ sending' = Break(k)
  /\ UNCHANGED <<caps, queue, kh, expected, misread, lost, trusted>>

\* A key that is held repeats.  Print screen is not reported again, and caps lock is
\* switched with every repetition.
Repeat(k) ==
  /\ sending = <<>>
  /\ k \in held
  /\ sending' = Repeated(k)
  /\ Types(k, IF k = "prtscr" THEN <<>> ELSE Typed(k, held))
  /\ UNCHANGED <<held, queue, kh, misread, lost, trusted>>

-----------------------------------------------------------------------------

enqueue ==
  queue' = IF Len(queue) = KEYBOARD_BUF_SIZE THEN queue ELSE Append(queue, Head(sending))

\* keyboard_interrupt_handler
Interrupt ==
  /\ sending # <<>>
  /\ Len(queue) = KEYBOARD_BUF_SIZE => lost < MaxLost
  /\ sending' = Tail(sending)
  /\ enqueue
  /\ IF Len(queue) = KEYBOARD_BUF_SIZE
     THEN lost' = lost + 1 /\ trusted' = {} /\ expected' = <<>> /\ caps' = FALSE
     ELSE UNCHANGED <<lost, trusted, expected, caps>>
  /\ UNCHANGED <<held, kh, misread>>

\* One round of the loop of read_keyboard_char_impl.
ReadScancode ==
  /\ queue # <<>>
  /\ queue' = Tail(queue)
  /\ kh' = process_scancode(kh, Head(queue)).kh
  /\ LET c == Delivered(kh, Head(queue))
     IN  IF c = NoChar \/ lost > 0 THEN UNCHANGED <<expected, misread>>
         ELSE IF expected # <<>> /\ c = Head(expected)
         THEN expected' = Tail(expected) /\ UNCHANGED misread
         ELSE misread' = TRUE /\ UNCHANGED expected
  /\ UNCHANGED <<held, caps, sending, lost, trusted>>

Init ==
  /\ held = {}
  /\ caps = FALSE
  /\ sending = <<>>
  /\ queue = <<>>
  /\ kh = InitialState
  /\ expected = <<>>
  /\ misread = FALSE
  /\ lost = 0
  /\ trusted = ModifierKeys

Next ==
  \/ \E k \in Keys : Press(k) \/ Release(k) \/ Repeat(k)
  \/ Interrupt
  \/ ReadScancode

Spec == Init /\ [][Next]_vars

-----------------------------------------------------------------------------

\* Until a scancode is lost readers get the characters typed, in their order, with the
\* modifiers that were down when the key was pressed and not when it is read; all but
\* KHE_PAUSE, which no reader gets although the comments of keyhelp.c and keyhelp.h call
\* its sequence a make event.  When all has been read, process_scancode is in no sequence
\* and has the state of the keyboard.  (A repeated print screen may leave PRSCR_UP, which
\* the next key or its release ends.)
CharsAsTyped ==
  /\ ~misread
  /\ Drained /\ lost = 0 =>
       /\ expected = <<>>
       /\ kh.internal \subseteq {"PRSCR_UP"}
       /\ kh.key_state = {FlagOf(k) : k \in held \cap ModifierKeys}
                           \cup (IF caps THEN {"CAPS"} ELSE {})

\* Lost scancodes leave a modifier on or off by mistake only until its key is pressed
\* with the translation in no sequence.
ModifiersHeal ==
  Drained => \A k \in trusted : FlagOf(k) \in kh.key_state <=> k \in held

==============================================================================
