CONSTANTS
  Everyone = Everyone
  NoParent = NoParent
  NoActor = NoActor
  NoObject = NoObject
  Elsewhere = Elsewhere
  ann = ann
  bob = bob
  cat = cat
  crew = crew
  t1 = t1
  t2 = t2
  m1 = m1
  m2 = m2
  Tasks <- TwoTasks
  Names <- TwoNames
  Reserved = {}
  Requested = {}
  Issued = {}
  Residents = {}
  Enrolled <- TwoNames
  Profiles <- NoProfiles
  Audiences <- Broadcast
  Copies <- NoCopies
  Ids <- TwoIds
  Parents <- AnyParent
  RetentionDays = 1
  NameAttempts = 1
  MaxTime = 2
  Ops = {"send", "read", "expire"}
SPECIFICATION Spec
SYMMETRY Alike
PROPERTIES SplitOnlyByLateTurns ExpirySparesTheLive Delivers
