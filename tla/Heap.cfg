CONSTANTS
  t1 = t1
  t2 = t2
  None = None
  Tasks <- TwoTasks
  HeapStart = 3
  TotalHeapSize = 29
  Alignment = 2
  StructSize = 2
  Word = 1
  SizeCount = 128
  Requests <- SomeRequests
  GlueRequests <- SomeGlueRequests
  Alignments <- SomeAlignments
  MaxHeld = 4
SPECIFICATION Spec
SYMMETRY Symmetry
INVARIANTS
  HeapShape
  BytesCounted
  RequestsFit
PROPERTIES
  ImplementsContract
