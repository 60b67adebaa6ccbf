SPECIFICATION Spec
CONSTANTS Cases <- ResnetCase
          MaxInterleaved = 3
          MaxRanks = 2
INVARIANT RunsToTheEnd
CHECK_DEADLOCK FALSE
