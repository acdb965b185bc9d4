SPECIFICATION CommsSpec
CONSTANTS
  Hid = {h1, h2}
  Axis = {x, y}
  Coord <- Coords
  CellSize <- Sizes
  Radius <- Radii
  Timeout = 1
  MaxTime = 2
  Base = 7
  SYNC_BYTE_1 = 6
  SYNC_BYTE_2 = 5
  MAX_PAYLOAD_BYTES = 4
  Tag <- Tags
  BodyBytes <- Bodies
  Contents <- Kinds
  BufferBytes = 7
  MaxInbox = 1
  MaxFaults = 1
INVARIANTS GridInSync VisitsExactly OneFreshEntry BytesAccounted Intact
PROPERTY Resynchronises
