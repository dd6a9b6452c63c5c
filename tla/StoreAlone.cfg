CONSTANTS
  NoRow = NoRow
  ann = ann
  bob = bob
  old = old
  new = new
  m1 = m1
  m2 = m2
  t1 = t1
  t2 = t2
  Tasks <- OneTask
  Names <- OneName
  Ids <- TwoIds
  Profiles <- OneProfile
  MaxVariables = 1
  Faults = {"crash", "commit"}
SPECIFICATION Spec
SYMMETRY Alike
PROPERTIES RemovalIsWhole
