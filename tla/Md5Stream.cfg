\* Blocks of 4 bytes with a length field of 2; a word of the bit count is
\* full after 4 bytes, both words after 128.
SPECIFICATION Spec
CONSTANTS
  BlockSize = 4
  WordBytes = 1
  WordMax = 32
  Sources <- MCSources
  Sizes <- MCSizes
  Garbage <- MCGarbage
  AllocMayFail = TRUE
  Clobbered = Clobbered
INVARIANTS
  TypeOK
  ContextDescribesMessage
  DigestIsOfMessage
PROPERTIES
  ContractSpec
