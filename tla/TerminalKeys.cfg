SPECIFICATION ProbeSpec
CONSTANTS
  KeyPresses <- MCKeys
  Answers <- MCAnswers
  MaxTyped = 3
  MaxResponse = 7
  MaxReplay = 1
  Env = "windows_terminal"
CHECK_DEADLOCK FALSE
INVARIANTS KeysKept
