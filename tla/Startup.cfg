\* Two instances, a stop anywhere, databases of every age with up to two rows.
SPECIFICATION FairSpec
CONSTANTS
  Instances = {i1, i2}
  RowIds = {w1, w2}
  MaxStops = 1
INVARIANTS
  TypeOK
  ServesOnSoundSchema
  SeededOnceOrNotAtAll
PROPERTIES
  RecordsKept
  EveryoneServes
CHECK_DEADLOCK FALSE
