SPECIFICATION FairSpec
CONSTANTS
  Kinds = {"stream"}
  Unit = 1
  Low = 2
  Hiwat = 2
  Lowat = 1
  Half = 8
  TxRingSize = 3
  SelRoom = 1
  CmdRoom = 1
  MaxAhead = 1
INVARIANT ReportedFits
