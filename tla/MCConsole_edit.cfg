CONSTANTS
  Readers = {r1}
  CONSOLE_BUFFER_SIZE = 3
  BUFLEN = 3
  Bursts <- TypingBursts
  MaxTyped = 7
  MaxLines = 3
  MaxAhead = 2
SPECIFICATION FairSpec
CHECK_DEADLOCK FALSE
INVARIANT TypeOK
INVARIANT LineMatchesEdit
PROPERTY QueueRefinement
PROPERTY LineReturns
