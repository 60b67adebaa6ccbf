SPECIFICATION Spec
CONSTANTS Procs = {2, 3, 4, 6}
          Clock <- Offsets
          Legs <- UnevenLegs
          NumberSmaller = 2
          Logged = 1
          MaxRecords <- Records
          BufSize = 4
          Threshold = 3
          MaxSize = 2
INVARIANTS TypeOK FileFaithful
PROPERTIES DiffsRight TraceComplete
