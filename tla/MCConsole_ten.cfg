CONSTANTS
  Width = 40
  Height = 2
  CMDLINE_MAX = 12
  Prompt <- MCPrompt
  Letters = {"a"}
  OtherKeys = {"backspace"}
  Pauses = FALSE
  Outputs <- MCOutputs
SPECIFICATION Spec
INVARIANT ScreenShowsLine
