CONSTANTS
  Everyone = Everyone
  NoParent = NoParent
  NoActor = NoActor
  NoObject = NoObject
  Elsewhere = Elsewhere
  ann = ann
  bob = bob
  cat = cat
  crew = crew
  t1 = t1
  t2 = t2
  m1 = m1
  m2 = m2
  Tasks <- OneTask
  Names <- ThreeNames
  Reserved = {}
  Requested = {}
  Issued = {}
  Residents = {}
  Enrolled <- ThreeNames
  Profiles <- ShadowBob
  Audiences <- ThreadMail
  Copies <- NoCopies
  Ids <- TwoIds
  Parents <- NoParents
  RetentionDays = 0
  NameAttempts = 1
  MaxTime = 0
  Ops = {"update_profile", "send"}
SPECIFICATION Spec
SYMMETRY Alike
INVARIANTS StoredAudience
