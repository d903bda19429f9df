\* Two controllers that send three lines, and the client.
SPECIFICATION FairSpec
CONSTANTS
  Controllers = {c1, c2}
  Client = client
  Freqs = {7, 9}
  MaxCommands = 3
  MaxPending = 2
INVARIANTS
  FreqAsCommanded
  FreshUnlessLate
PROPERTIES
  ClientFollows
  ServedAnswered
  ClientStops
\* All may have stopped.
CHECK_DEADLOCK FALSE
