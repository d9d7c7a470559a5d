SPECIFICATION Spec
CONSTANTS
  Payloads <- MCPayloads
  Written = {Sharp, Flat}
  Sharp = Sharp
  Flat = Flat
  NullPitch = NullPitch
  BadPitch = BadPitch
  NoField = NoField
  Null = Null
  MaxFrames = 3
  MaxEvents = 3
  MaxTotal = 5
CHECK_DEADLOCK FALSE
INVARIANTS
  OrderOfThePayloadIsForgotten
  EveryNoteKeepsItsSpelling
  RefusesExactlyTheIllFormed
  ValidRequestsHaveATrace
