SPECIFICATION MemSpec
CONSTANTS
  Arrays = {"coef", "whole"}
  Rows <- MCRows
  MaxAccess <- MCMaxAccess
  PreZero <- MCPreZero
  Values = {0, 1, 9}
  Zero = 0
  Junk = 9
  Heaps = {55, 90}
  Align = 2
  Hdr = 4
  MaxChunk = 12
  MgrSize = 10
  BlockSize = 5
  PtrSize = 1
  FirstSlop <- MCFirstSlop
  ExtraSlop <- MCExtraSlop
  MinSlop = 2
  RowSize <- MCRowSize
  SmallSizes = {3}
  StripRows = {3}
  MaxInUse = 1
  MaxObjects = 1
  Grants = {0, 12}
INVARIANTS
  PoolsSound
PROPERTIES
  PlainSpec
CHECK_DEADLOCK FALSE
