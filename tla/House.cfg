CONSTANTS
  Everyone = Everyone
  NoParent = NoParent
  NoActor = NoActor
  NoObject = NoObject
  Elsewhere = Elsewhere
  ann = ann
  host = host
  t1 = t1
  t2 = t2
  m1 = m1
  m2 = m2
  Tasks <- HouseTasks
  Names <- HouseNames
  Reserved = {host}
  Requested = {}
  Issued = {}
  Residents = {host}
  Enrolled <- OneAgent
  Profiles <- NoGroups
  Audiences <- ToAnyone
  Copies <- NoCc
  Ids <- HouseIds
  Parents <- NoThread
  RetentionDays = 0
  NameAttempts = 1
  MaxTime = 1
  Ops = {"send", "reply", "read"}
  MaxRecipients = 1
SPECIFICATION HouseSpec
SYMMETRY HouseAlike
INVARIANTS WithinLimits AuditedUnlessStopped
PROPERTIES ResidentsReachable
