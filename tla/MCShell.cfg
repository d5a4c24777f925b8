SPECIFICATION Spec
CONSTANTS
  Width = 2
  Height = 4
  TabSize = 2
  Letters = {"a", " ", "%"}
  EXIT <- MCExit
  CLEAR <- MCClear
  Leftovers <- MCLeftovers
  PromptLen = 1
  TokenMax = 2
  ArgsSize = 1
  CMD_BUFFER_SIZE = 6
  MaxFormatted = 2
  MaxLines = 2
  MaxOutput = 1
CHECK_DEADLOCK FALSE
INVARIANTS
  ShellTypeOK
  ScreenShowsLine
  ProgramGetsWords
