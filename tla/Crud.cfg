SPECIFICATION MCSpec
CONSTANTS
  Callers = {c1, c2}
  c1 = c1
  c2 = c2
  Names = {1, 2}
  Owned = {1, 2}
  TokenSecret = 2
  Operations = {"get", "change", "put", "create", "delete", "list", "token", "account"}
  Attempts = 2
  MaxCalls = 3
  MaxFaults = 2
  MaxTokens = 1
  Texts = {"t", "u"}
  Numbers = {"0", "80"}
  Zero = "0"
  Nil = Nil
  Objects <- MCObjects
INVARIANT NoUpdateLost
INVARIANT ListIsSnapshot
INVARIANT TokenIsThere
INVARIANT WriteBackKeeps
PROPERTY CreatedAfresh
\* the calls run out
CHECK_DEADLOCK FALSE
SYMMETRY Symmetry
