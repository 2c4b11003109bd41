SPECIFICATION FairSpec
CONSTANTS
  Kind = {"policy"}
  VM = {1, 2}
  Handler = {h1, h2}
  Monitor = Monitor
  NoOne = NoOne
  Operation = {"define", "duplicate", "delete"}
PROPERTIES DuplicateEnds
CHECK_DEADLOCK FALSE
