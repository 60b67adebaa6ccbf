SPECIFICATION Spec
CONSTANTS Cases <- AllCases
          MaxInterleaved = 4
          MaxRanks = 8
INVARIANTS TypeOK RunsToTheEnd DataArrives TraceOrderKept
CHECK_DEADLOCK FALSE
