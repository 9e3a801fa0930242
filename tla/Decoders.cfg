SPECIFICATION AllSpec
CONSTANTS
  InSize = 3
  OutSize = 2
  Streams <- MCStreams
  Entries <- MCEntries
  Calls <- MCCalls
  Keys <- MCKeys
  Bytes <- MCBytes
  StartKey = 4
  KeyStep <- MCKeyStep
  KeyByte <- MCKeyByte
  Xor <- MCXor
  Passwords <- MCPasswords
  Plains <- MCPlains
  MaxLen = 7
  MaxOut = 5
  BufSize = 2
  HeaderSize = 2
  MaxBlocks = 3
  Radix = 3
  Width = 3
  BlockLen = 4
  MaxPos = 130
  HeaderLen = 2
INVARIANTS
  TypeOK
  InputInOrder
  OutputComplete
  OneKeyStream
  BlocksChecked
  Decrypts
PROPERTIES
  LoopEnds
