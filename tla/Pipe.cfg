CONSTANTS
  Capacity = 4
  Readers = {r}
  Writers = {w}
  NoWaker = NoWaker
  MaxChunk = 3
  MaxBytes = 12
SPECIFICATION FairSpec
INVARIANTS WriterNotForgotten ReaderNotForgotten
PROPERTIES ImplementsByteStream BlockedWriterResumes
