------------------------------- MODULE Shell ---------------------------------
(***************************************************************************)
(* The line editor of the shell, src/user/src/shell.c, on the screen of    *)
(* Monitor.  The shell reads characters, keeps the line in cmd_buffer and  *)
(* edits what is on the screen with printf and relative cursor moves; a    *)
(* line is a command of its own or the name and arguments of a program,    *)
(* which prints what it likes before the shell goes on.                    *)
(*                                                                         *)
(* printf(cmd_buffer + ...) takes the line as a format: "%" and the        *)
(* character behind it are not printed.  The "%" at the end of the line    *)
(* takes the terminator with it, and what earlier lines have left behind   *)
(* it in cmd_buffer is printed (with the buffer full, also what lies       *)
(* behind it in memory, which is taken to be empty here).                  *)
(*                                                                         *)
(* No length is tested.  A character that does not fit into cmd_buffer,    *)
(* and an argument that does not fit into args, is stored outside: mode is *)
(* "undefined" then, and the model stops.                                  *)
(***************************************************************************)
EXTENDS Monitor

CONSTANTS
  Letters,    \* characters that can be typed, with " " and "%" and no conversion letter
  EXIT,       \* the line "exit"
  CLEAR,      \* the line "clear"
  Leftovers,  \* what program[] can hold before anything is stored there
  PromptLen,  \* length of the prompt
  TokenMax,   \* longest token kept, 127 in the code
  ArgsSize,   \* length of args, 32 in the code
  CMD_BUFFER_SIZE,  \* length of cmd_buffer, 512 in the code
  MaxFormatted,     \* bound on the length of a line with "%"
  MaxLines,   \* bound on the number of lines
  MaxOutput   \* bound on what a program prints

ASSUME ShellAssumption ==
  /\ CMD_BUFFER_SIZE \in Nat \ {0, 1} /\ CMD_BUFFER_SIZE - 1 < (Height - 1) * Width
  /\ PromptLen \in Nat \ {0} /\ TokenMax \in Nat \ {0} /\ ArgsSize \in Nat
  /\ MaxFormatted \in Nat /\ MaxLines \in Nat /\ MaxOutput \in Nat

NUL == "NUL"

VARIABLES
  screen,
  cmd_buffer,         \* the line, NUL, and what earlier lines have left
  cmd_end_index,
  line_cursor_index,  \* without the 3 the code adds to it
  mode,               \* "prompt", "edit", "run", "exited" or "undefined"
  argv,               \* name and arguments of the program run
  lines,              \* lines entered so far
  output,             \* characters the program has printed
  longest,            \* the longest this line has been
  formatted           \* this line has had a "%"

bufVars == <<cmd_buffer, cmd_end_index, line_cursor_index>>
ghostVars == <<longest, formatted>>
vars == <<screen, bufVars, mode, argv, lines, output, ghostVars>>

Line == [i \in 1..cmd_end_index |-> cmd_buffer[i - 1]]

-----------------------------------------------------------------------------
\* monitor_printf_args for a string of cmd_buffer from place i on: what is printed.
Formatted(buffer, i) ==
  LET shown[j \in 0..(CMD_BUFFER_SIZE + 1)] ==
        IF j >= CMD_BUFFER_SIZE \/ buffer[j] = NUL THEN <<>>
        ELSE IF buffer[j] = "%" THEN shown[j + 2]
        ELSE <<buffer[j]>> \o shown[j + 1]
  IN  shown[i]

printf(s, str) == monitor_write_string_with_color(s, str)

move_cursor(s, delta_x, delta_y) == monitor_move_cursor(s, delta_x, delta_y)

clear_screen(s) ==
  LET blank_lines == [i \in 1..(Height * Width) |-> " "]
  IN  move_cursor(printf(move_cursor(s, 0, -Height), blank_lines), 0, -Height)

\* The start of the loop of run_shell.
StartLine ==
  /\ mode = "prompt"
  /\ lines < MaxLines
  /\ cmd_end_index' = 0
  /\ line_cursor_index' = 0
  /\ screen' = printf(screen, [i \in 1..PromptLen |-> "$"])
  /\ mode' = "edit"
  /\ longest' = 0
  /\ formatted' = FALSE
  /\ UNCHANGED <<cmd_buffer, argv, lines, output>>

EditOnly == mode = "edit" /\ UNCHANGED <<mode, argv, lines, output>>

\* A printable character is inserted at the cursor.
Insert(c) ==
  /\ EditOnly
  /\ cmd_end_index + 1 \in DOMAIN cmd_buffer
  /\ formatted \/ c = "%" => cmd_end_index < MaxFormatted
  /\ cmd_buffer' = [i \in DOMAIN cmd_buffer |->
       CASE i = cmd_end_index + 1 -> NUL
         [] i = line_cursor_index -> c
         [] i > line_cursor_index /\ i <= cmd_end_index -> cmd_buffer[i - 1]
         [] OTHER -> cmd_buffer[i]]
  /\ cmd_end_index' = cmd_end_index + 1
  /\ line_cursor_index' = line_cursor_index + 1
  /\ screen' = move_cursor(printf(screen, Formatted(cmd_buffer', line_cursor_index)),
                           -(cmd_end_index' - line_cursor_index'), 0)
  /\ longest' = IF cmd_end_index' > longest THEN cmd_end_index' ELSE longest
  /\ formatted' = (formatted \/ c = "%")

\* The same with the line as long as the buffer: the terminator is stored behind it.
InsertOverflows ==
  /\ mode = "edit"
  /\ cmd_end_index + 1 \notin DOMAIN cmd_buffer
  /\ mode' = "undefined"
  /\ UNCHANGED <<screen, bufVars, argv, lines, output, ghostVars>>

\* What is left behind the shorter line.
EraseTail(s) == move_cursor(printf(s, <<" ">>), -(cmd_end_index - line_cursor_index + 1), 0)

\* Backspace takes away the character in front of the cursor.
Backspace ==
  /\ EditOnly
  /\ line_cursor_index # 0
  /\ cmd_buffer' = [i \in DOMAIN cmd_buffer |->
       CASE i = cmd_end_index - 1 -> NUL
         [] i >= line_cursor_index - 1 /\ i < cmd_end_index - 1 -> cmd_buffer[i + 1]
         [] OTHER -> cmd_buffer[i]]
  /\ cmd_end_index' = cmd_end_index - 1
  /\ line_cursor_index' = line_cursor_index - 1
  /\ screen' = EraseTail(printf(move_cursor(screen, -1, 0),
                                Formatted(cmd_buffer', line_cursor_index')))
  /\ UNCHANGED <<longest, formatted>>

ArrowLeft ==
  /\ EditOnly
  /\ line_cursor_index # 0
  /\ line_cursor_index' = line_cursor_index - 1
  /\ screen' = move_cursor(screen, -1, 0)
  /\ UNCHANGED <<cmd_buffer, cmd_end_index, longest, formatted>>

ArrowRight ==
  /\ EditOnly
  /\ line_cursor_index # cmd_end_index
  /\ line_cursor_index' = line_cursor_index + 1
  /\ screen' = move_cursor(screen, 1, 0)
  /\ UNCHANGED <<cmd_buffer, cmd_end_index, longest, formatted>>

-----------------------------------------------------------------------------
\* (only a blank ends a token)
Separator_blank(i) == cmd_buffer[i] = " "

Separator(i) == cmd_buffer[i] \in {" ", NUL}

\* The tokens of run_program: the state of its loop after i characters.
Tokens ==
  LET Take(t, i) ==
        LET blank == Separator(i)
            length == IF i - t.start > TokenMax THEN TokenMax ELSE i - t.start
        IN  CASE ~t.in_token /\ ~blank -> [t EXCEPT !.start = i, !.in_token = TRUE]
              [] t.in_token /\ blank ->
                   [t EXCEPT !.in_token = FALSE,
                             !.found = Append(@, SubSeq(Line, t.start + 1, t.start + length))]
              [] OTHER -> t
      after[i \in -1..cmd_end_index] ==
        IF i = -1 THEN [start |-> -1, in_token |-> FALSE, found |-> <<>>]
        ELSE Take(after[i - 1], i)
  IN  after[cmd_end_index].found

EndLine(next, s) ==
  /\ mode = "edit"
  /\ mode' = next
  /\ screen' = s
  /\ lines' = lines + 1
  /\ UNCHANGED <<bufVars, ghostVars>>

\* Enter with an empty line, with "exit", with "clear" or with a program,
EnterEmpty ==
  /\ cmd_end_index = 0
  /\ EndLine("prompt", printf(screen, <<"NL">>))
  /\ UNCHANGED <<argv, output>>

EnterExit ==
  /\ Line = EXIT
  /\ EndLine("exited", printf(screen, <<"NL">>))
  /\ UNCHANGED <<argv, output>>

ClearLine ==
  /\ Line = CLEAR
  /\ EndLine("prompt", clear_screen(screen))
  /\ UNCHANGED <<argv, output>>

\* whose name is what happens to be in program[] when the line has only blanks.
run_program ==
  /\ cmd_end_index > 0
  /\ Line \notin {EXIT, CLEAR}
  /\ \/ /\ Len(Tokens) <= ArgsSize + 1
        /\ EndLine("run", printf(screen, <<"NL">>))
        /\ argv' \in IF Tokens = <<>> THEN {<<name>> : name \in Leftovers} ELSE {Tokens}
     \/ /\ Len(Tokens) > ArgsSize + 1
        /\ EndLine("undefined", printf(screen, <<"NL">>))
        /\ UNCHANGED argv
  /\ output' = 0

\* and the control character that clears the screen at any time.
ControlL ==
  /\ EndLine("prompt", clear_screen(screen))
  /\ UNCHANGED <<argv, output>>

\* The program prints with printf,
ProgramPrints(c) ==
  /\ mode = "run"
  /\ output < MaxOutput
  /\ screen' = printf(screen, <<c>>)
  /\ output' = output + 1
  /\ UNCHANGED <<bufVars, mode, argv, lines, ghostVars>>

\* and wait returns when it has exited.
ProgramExits ==
  /\ mode = "run"
  /\ mode' = "prompt"
  /\ argv' = <<>>
  /\ output' = 0
  /\ UNCHANGED <<screen, bufVars, lines, ghostVars>>

Init ==
  /\ screen = BlankScreen
  /\ cmd_buffer = [i \in 0..(CMD_BUFFER_SIZE - 1) |-> NUL]
  /\ cmd_end_index = 0
  /\ line_cursor_index = 0
  /\ mode = "prompt"
  /\ argv = <<>>
  /\ lines = 0
  /\ output = 0
  /\ longest = 0
  /\ formatted = FALSE

Next ==
  \/ StartLine
  \/ \E c \in Letters : Insert(c)
  \/ InsertOverflows
  \/ Backspace \/ ArrowLeft \/ ArrowRight
  \/ EnterEmpty \/ EnterExit \/ ClearLine \/ run_program \/ ControlL
  \/ \E c \in Control \cup {"."} : ProgramPrints(c)
  \/ ProgramExits

Spec == Init /\ [][Next]_vars

-----------------------------------------------------------------------------
\* The cursor stays on the screen whatever is printed, and in the line, which has its
\* terminator whatever is inserted and deleted in it.
ShellTypeOK ==
  /\ screen.x \in 0..(Width - 1)
  /\ screen.y \in 0..(Height - 1)
  /\ line_cursor_index \in 0..cmd_end_index
  /\ mode = "edit" /\ cmd_end_index > 0 => cmd_buffer[cmd_end_index] = NUL

\* Where character i of the line is if the cursor is where the shell takes it to be.
Place(i) == screen.y * Width + screen.x - line_cursor_index + i

\* While a line without "%" is edited, the screen shows it behind the prompt, blank where
\* it has become shorter, and the cursor is at the character line_cursor_index says: also
\* when the line wraps, and when that scrolls the screen.
ScreenShowsLine ==
  mode = "edit" /\ ~formatted =>
    /\ Place(-1) \in Cells /\ screen.cells[Place(-1)] = "$"
    /\ \A i \in 0..(longest - 1) :
         screen.cells[Place(i)] = IF i < cmd_end_index THEN cmd_buffer[i] ELSE " "

\* The words of the line, a reference: a word starts behind a blank and ends at one.
IsWord(i, j) ==
  /\ \A k \in i..j : Line[k] # " "
  /\ i = 1 \/ Line[i - 1] = " "
  /\ j = Len(Line) \/ Line[j + 1] = " "

Words ==
  LET starts == {i \in 1..Len(Line) : \E j \in i..Len(Line) : IsWord(i, j)}
      word(i) == LET j == CHOOSE k \in i..Len(Line) : IsWord(i, k)
                 IN  SubSeq(Line, i, IF j - i + 1 > TokenMax THEN i + TokenMax - 1 ELSE j)
  IN  [n \in 1..Cardinality(starts) |->
         word(CHOOSE i \in starts : Cardinality({k \in starts : k < i}) = n - 1)]

\* A program is started with the words of the line the screen has shown, when it has any
\* (the program started for a line of blanks is one the user has not named).
ProgramGetsWords == mode = "run" /\ Words # <<>> => argv = Words

==============================================================================
