------------------------------ MODULE Monitor --------------------------------
(***************************************************************************)
(* The text screen of src/src/monitor/monitor.c: the video memory and the  *)
(* cursor.  Colours and the hardware cursor, which is always set to the    *)
(* software one, are left out.  Every call runs under monitor_lock.        *)
(***************************************************************************)
EXTENDS Integers, Sequences, SequencesExt

CONSTANTS
  Width,     \* 80 in the code
  Height,    \* 25
  TabSize    \* 8

ASSUME MonitorAssumption ==
  /\ Width \in Nat \ {0} /\ Height \in Nat \ {0}
  /\ TabSize \in Nat \ {0} /\ Width % TabSize = 0

Cells == 0..(Width * Height - 1)

BlankScreen == [x |-> 0, y |-> 0, cells |-> [i \in Cells |-> " "]]

Control == {"BS", "TAB", "CR", "NL"}

-----------------------------------------------------------------------------
\* Division as C does it,
CDiv(a, n) == IF a >= 0 THEN a \div n ELSE -((-a) \div n)
CMod(a, n) == a - n * CDiv(a, n)

\* (a quotient that is rounded to zero)
div_truncated(a, n) == CDiv(a, n)

\* and div and mod of src/src/utils/math.c.
div(a, n) == IF a >= 0 THEN CDiv(a, n) ELSE CDiv(a - n + 1, n)
mod(a, n) == CMod(CMod(a, n) + n, n)

monitor_move_cursor(s, delta_x, delta_y) ==
  LET y == s.y + delta_y + div(s.x + delta_x, Width)
  IN  CASE y < 0 -> [s EXCEPT !.x = 0, !.y = 0]
        [] y >= Height -> [s EXCEPT !.x = Width - 1, !.y = Height - 1]
        [] OTHER -> [s EXCEPT !.x = mod(s.x + delta_x, Width), !.y = y]

-----------------------------------------------------------------------------
\* (the cursor stays below the last line)
scroll_forgets(s) ==
  IF s.y < Height THEN s
  ELSE [s EXCEPT !.cells = [i \in Cells |-> IF i + Width \in Cells THEN @[i + Width] ELSE " "]]

scroll(s) ==
  IF s.y < Height THEN s
  ELSE [s EXCEPT !.cells = [i \in Cells |-> IF i + Width \in Cells THEN @[i + Width] ELSE " "],
                 !.y = Height - 1]

\* Where the cursor goes and what it leaves, before the line is wrapped.
Put(s, c) ==
  CASE c = "BS" -> IF s.x > 0 THEN [s EXCEPT !.x = @ - 1] ELSE s
    [] c = "TAB" -> [s EXCEPT !.x = TabSize * (@ \div TabSize + 1)]
    [] c = "CR" -> [s EXCEPT !.x = 0]
    [] c = "NL" -> [s EXCEPT !.x = 0, !.y = @ + 1]
    [] OTHER -> [s EXCEPT !.cells[s.y * Width + s.x] = c, !.x = @ + 1]

Wrap(s) == IF s.x >= Width THEN [s EXCEPT !.x = 0, !.y = @ + 1] ELSE s

monitor_write_char_with_color(s, c) == scroll(Wrap(Put(s, c)))

monitor_write_string_with_color(s, str) == FoldLeft(monitor_write_char_with_color, s, str)

==============================================================================
