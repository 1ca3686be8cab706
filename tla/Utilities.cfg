\* CurlSend: every body, every split of it, every failure. The conversions:
\* every text of up to four characters, every two bytes, and as many bytes as
\* an int cannot count twice. enum_directory: two directories with a link in a
\* circle, and two changes meanwhile.
SPECIFICATION Spec
CONSTANTS
  Responses <- AllBodies
  Cookies = 2
  Texts <- SomeTexts
  Blocks <- SomeBlocks
  Capacities = {0, 1, 2, 4}
  Lengths <- SomeLengths
  MaxInt = 7
  Entries <- Tree
  Kind <- Kinds
  Root = "top"
  MaxLinks = 1
  MaxDepth = 6
  MaxChanges = 2
INVARIANTS
  WithinBlock
  ResponseIsBody
  HandleReleased
  WritesWithin
  ConvertsExactly
  LengthIsOfResult
  ListedOnce
PROPERTIES
  WalkEnds
CHECK_DEADLOCK FALSE
