CONSTANTS
  Everyone = Everyone
  NoParent = NoParent
  NoActor = NoActor
  NoObject = NoObject
  Elsewhere = Elsewhere
  ann = ann
  bob = bob
  cat = cat
  crew = crew
  t1 = t1
  t2 = t2
  m1 = m1
  m2 = m2
  Tasks <- TwoTasks
  Names <- FourNames
  Reserved = {ann}
  Requested = {ann, cat}
  Issued = {bob, cat}
  Residents = {ann}
  Enrolled <- OneName
  Profiles <- InCrew
  Audiences <- GroupMail
  Copies <- GroupCopies
  Ids <- OneId
  Parents <- NoParents
  RetentionDays = 0
  NameAttempts = 2
  MaxTime = 0
  Ops = {"join", "update_profile", "install_resident", "send"}
SPECIFICATION FairSpec
INVARIANTS TypeOK StoredAudience
PROPERTIES Delivers IdentityPermanent EveryCallAnswered

