CONSTANTS
  Width = 14
  Height = 1
  CMDLINE_MAX = 4
  Prompt <- MCPrompt
  Letters = {"[", "C", "D"}
  OtherKeys = {"enter", "backspace", "ctrl"}
  Pauses = FALSE
  Outputs <- MCOutputs
SPECIFICATION Spec
INVARIANTS
  TypeOK
  LineIsText
  CursorFollowsLine
  ScreenShowsLine
