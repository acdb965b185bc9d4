SPECIFICATION SinksSpec
CONSTANTS
  Word = 16
  Requested <- Sizes
  Event <- Events
  FRAME_BYTES = 256
  MAX_NAME_LEN = 64
  FIELD_BYTES = 16
  HEADER_BYTES = 12
  MaxEmits = 6
  Text <- Texts
  MaxDepth = 3
  MaxItems = 2
INVARIANTS HoldsLatest FramesFit Readable TakenWhole
