\* The relay in a conversation of its own, in a browser the operator uses.
CONSTANTS
  Foreign = {"p"}
  Fresh = {"n"}
  Messages = 2
  Window = 3
  StablePolls = 1
  Tries = 2
  MaxMoves = 1
  MaxRestarts = 1
SPECIFICATION Spec
CHECK_DEADLOCK FALSE
INVARIANTS TypedOnce AnswersItsOwnTurn
