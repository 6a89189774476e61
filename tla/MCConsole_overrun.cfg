CONSTANTS
  Readers = {r1}
  CONSOLE_BUFFER_SIZE = 3
  BUFLEN = 3
  Bursts <- TypingBursts
  MaxTyped = 7
  MaxLines = 3
  MaxAhead = 3
SPECIFICATION Spec
CHECK_DEADLOCK FALSE
PROPERTY QueueRefinement
