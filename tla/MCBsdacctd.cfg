SPECIFICATION Spec
CONSTANTS
  Rec = 2
  Blk = 4
  Buf = 8
  MaxSize = 40
INVARIANT TypeOK
INVARIANT TailIntact
INVARIANT OnePiece
INVARIANT NoLeak
INVARIANT WholeRecords
INVARIANT EstimateClose
INVARIANT DiskBound
PROPERTY TrimFrees
PROPERTY PunchAfterTruncateHarmless
PROPERTY ImplementsLog
