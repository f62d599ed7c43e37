CONSTANTS
  producer = producer
  consumer = consumer
  Readers = {consumer}
  Writers = {producer}
  NoWaker = NoWaker
  Capacity = 3
  MaxChunk = 4
  MaxBytes = 9
  Total = 9
  Limits = {2, 10}
  Modes = {TRUE, FALSE}
SPECIFICATION PipelineSpec
PROPERTIES EofIsEnd OnlyEarlyExitHangs
CHECK_DEADLOCK FALSE
