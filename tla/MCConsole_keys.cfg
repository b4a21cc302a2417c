CONSTANTS
  Width = 14
  Height = 2
  CMDLINE_MAX = 2
  Prompt <- MCPrompt
  Letters = {"[", "D", "l"}
  OtherKeys = {"backspace", "ctrl"}
  Pauses = TRUE
  Outputs <- MCOutputs
SPECIFICATION Spec
INVARIANTS
  CursorFollowsLine
  ScreenShowsLine
 
