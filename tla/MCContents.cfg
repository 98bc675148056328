SPECIFICATION Spec
CONSTANTS
  Comments <- MCComments
  BlockTags <- MCBlockTags
  InlineTags <- MCInlineTags
  Texts <- MCTexts
  Wrap <- MCWrap
  Numbers <- MCNumbers
  HexWrap <- MCHexWrap
  Sources <- MCSources
  BufferSize = 7
  MaxUnread = 1
  Scripts <- MCScripts
  Versions <- MCVersions
INVARIANTS
  NothingLost
  ReadAsSpelled
  ReadAsEncoded
  TextKept
  JsdocReadsBack
  XmlReadsBack
  NumberMeaning
  NumberReadsBack
PROPERTIES
  CallsReturn
