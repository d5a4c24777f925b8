SPECIFICATION Spec
CONSTANTS
  Keys = {"a", "2", ";", "lshift", "lctl", "rctl", "left", "prtscr", "pause", "caps"}
  MaxHeld = 2
  MaxLost = 2
  KEYBOARD_BUF_SIZE = 2
  NoChar = NoChar
INVARIANTS
  CharsAsTyped
  ModifiersHeal
