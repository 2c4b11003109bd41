SPECIFICATION Spec
CONSTANTS
  Kind = {"policy", "network"}
  VM = {1, 2}
  Handler = {h1, h2}
  Monitor = Monitor
  NoOne = NoOne
  Operation <- Writers
SYMMETRY Interchangeable
INVARIANTS TypeOK ReferencesExist
CHECK_DEADLOCK FALSE
