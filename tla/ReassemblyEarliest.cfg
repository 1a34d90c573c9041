CONSTANTS
  SeqSpace = 7
  MaxBytes = 5
  BaseSeq = 5
  Byte = {1, 2}
  MaxFragment = 3
SPECIFICATION BufSpec
PROPERTY EarliestBytesKept
