SPECIFICATION FairSpec
CONSTANTS
  Mappings = {a, b}
  Probing = {a}
  Passwords = {right, wrong}
  Right = right
  NoPassword = empty
  Preset = empty
  Insecure = TRUE
  MaxConns = 2
  MaxTyped = 1
INVARIANTS OwnLogin TypedAnswersHash
PROPERTIES TypedIsSent
CHECK_DEADLOCK FALSE
