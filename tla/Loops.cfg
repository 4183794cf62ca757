\* Entries that fit the first buffer, fill it exactly and outgrow it twice; lines
\* and circles of three styles; an int of 16 bits, which overflows with the
\* second byte.
CONSTANTS
  InitialSize = 2
  MaxLength = 9
  None = None
  Ids = {s1, s2, s3}
  StyleNodes <- SomeStyleNodes
  MaxStyles = 3
  TokenBytes <- SomeBytes
  TokenLength = 5
  Width = 16
SPECIFICATION LoopsSpec
INVARIANTS HandlesAreReleased EntriesAreWhole HeadingsAreInherited EncodesEveryBit
PROPERTIES LoopsEnd
