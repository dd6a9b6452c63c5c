CONSTANTS
  NoRow = NoRow
  ann = ann
  bob = bob
  old = old
  new = new
  m1 = m1
  m2 = m2
  t1 = t1
  t2 = t2
  Tasks <- TwoTasks
  Names <- OneName
  Ids <- OneId
  Profiles <- TwoProfiles
  MaxVariables = 1
  Faults = {"crash"}
SPECIFICATION Spec
SYMMETRY Alike
INVARIANTS StoreTypeOK AnsweredIsKept
PROPERTIES WonOnce TornOnlyByOthers
