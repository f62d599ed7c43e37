CONSTANTS
  producer = producer
  consumer = consumer
  Readers = {consumer}
  Writers = {producer}
  NoWaker = NoWaker
  Capacity = 3
  MaxChunk = 4
  MaxBytes = 9
  Total = 9
  Limits = {10}
  Modes = {FALSE}
SPECIFICATION PipelineSpec
INVARIANTS
  WriteAllArrives
CHECK_DEADLOCK FALSE
