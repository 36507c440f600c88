SPECIFICATION ProbeSpec
CONSTANTS
  KeyPresses <- MCKeys
  Answers <- MCAnswers
  MaxTyped = 5
  MaxResponse = 8
  MaxReplay = 4
  Env = "windows_terminal"
CHECK_DEADLOCK FALSE
INVARIANTS
    KeysInOrder
    NoReplyTyped
PROPERTY
    NothingStuck
