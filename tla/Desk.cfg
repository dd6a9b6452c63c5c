CONSTANTS
  Everyone <- all
  NoParent = NoParent
  NoActor = NoActor
  NoObject = NoObject
  Elsewhere = Elsewhere
  t1 = t1
  m1 = m1
  m2 = m2
  Tasks <- OneTask
  Names <- DeskNames
  Reserved = {}
  Requested <- DeskNames
  Issued <- Generated
  Residents = {}
  Enrolled = {}
  Profiles <- NoProfiles
  Audiences = {}
  Copies = {}
  Ids <- TwoIds
  Parents <- AnyParent
  RetentionDays = 0
  NameAttempts = 1
  MaxTime = 0
  Ops = {"join", "update_profile", "peek", "read", "send", "reply"}
  ReservedNames <- Words
  MaxName = 4
  Given <- OneLetter
  Family <- OneLetter
  Typed <- Strings
  Headers <- Callers
  Lists <- Mailings
SPECIFICATION DeskSpec
SYMMETRY DeskAlike
INVARIANTS SpellingsAgree ReservedStayFree
PROPERTIES ForeignStaysForeign PostsReachTheNamed PathIsOwner
