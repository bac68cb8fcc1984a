SPECIFICATION Spec
CONSTANTS
  regWriter = regWriter
  regReader = regReader
  pubWriter = pubWriter
  subReader = subReader
  idlReader = idlReader
  ownWriter = ownWriter
  ownReader = ownReader
  Nobody = Nobody
  EmptyText = EmptyText
  host = host
  process = process
  longest = longest
  tooLong = tooLong
  Text <- MCText
  TextLength <- MCTextLength
  Writer = {regWriter, pubWriter, ownWriter}
  Reader = {regReader, subReader, idlReader, ownReader}
  Factory = {regWriter, regReader, pubWriter, subReader, idlReader}
  DisabledFirst = {subReader, idlReader}
  topic_name <- MCTopicName
  data_type <- MCDataType
  Object <- MCObject
  Foreign <- MCForeign
  RefLimit = 8
  Depth = 1
CONSTRAINT Bound
INVARIANTS TypeOK RefCountIsHolders TopicsAreThoseInUse NoAssertFails NeverOverflows WriteTellsTheTruth TakesWhatWasMeant
CHECK_DEADLOCK FALSE
