SPECIFICATION StoreSpec
CONSTANTS
  Installs = {i1, i2, o1}
  Offline = {o1}
  MaxVersion = 2
  MaxCrashes = 1
  None = None
  Partial = Partial
  Altered = Altered
  i1 = i1
  i2 = i2
  o1 = o1
  Tasks = {i1, i2}
  MaxIssued = 4
  MaxRestarts = 1
  AppInstalls = {i1, i2}
  Users = {user}
  Editors = {i1, i2, user}
  Tags = {a1, a2}
  Apps = {a1, a2}
  Labels = {k1}
  MaxValue = 1
  MaxEdits = 2
  MaxOut = 2
  MaxUrls = 2
SYMMETRY StoreSymmetry
INVARIANTS InstallSafe  RecordsAgree
CHECK_DEADLOCK FALSE
