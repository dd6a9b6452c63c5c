CONSTANTS
  Everyone = Everyone
  NoParent = NoParent
  NoActor = NoActor
  NoObject = NoObject
  Elsewhere = Elsewhere
  ann = ann
  bob = bob
  cat = cat
  crew = crew
  t1 = t1
  t2 = t2
  m1 = m1
  m2 = m2
  Tasks <- TwoTasks
  Names <- ThreeNames
  Reserved = {}
  Requested = {}
  Issued = {}
  Residents = {}
  Enrolled <- TwoNames
  Profiles <- NoProfiles
  Audiences <- ThreadMail
  Copies <- NoCopies
  Ids <- TwoIds
  Parents <- AnyParent
  RetentionDays = 0
  NameAttempts = 1
  MaxTime = 0
  Ops = {"send", "reply", "read", "view", "peek", "thread"}
SPECIFICATION Spec
SYMMETRY Alike
INVARIANTS ReadsByParties AttachedWithinSight ThreadsAreTrees
PROPERTIES ConsumedStaysConsumed PeekMissesNothing AnswersAreOwnMail
