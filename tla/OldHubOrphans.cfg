SPECIFICATION Spec
CONSTANTS
  ann = ann
  bob = bob
  vcard = vcard
  Clients = {ann, bob}
  Cards = {vcard}
  Literals = {"p", "a", "b", "unread", "mcp"}
  Globs <- MCGlobs
  None = None
  Malformed = Malformed
  MaxId = 2
  Dates = {0, 2}
  TtlDays = 1
  StaleDays = 1
  GraceDays = 1
  Desk <- MCDesk
  Settings <- MCSettings
  Addressees <- MCAddressees
  NewNames <- MCNewNames
  Ghosts <- MCGhosts
  Roles = {}
  MaxCalls = 3
INVARIANT NoOrphans
CHECK_DEADLOCK FALSE
