CONSTANTS
  ThreadC = 2
  Workers = {w1, w2, w3}
  Events = {e1, e2, e3}
  NoEvent = NoEvent
  SqeCap = 1
  IdleLimit = 1
SPECIFICATION Spec
SYMMETRY Symmetry
INVARIANTS
  TypeOK
  AbortOnlyByRace
  FreeSlotsAreFree
  OneOwnerPerSlot
  AtMostOnce
  NoUseAfterFree
  NothingLost
  SlotsConserved
PROPERTY RefinesDispatcher
