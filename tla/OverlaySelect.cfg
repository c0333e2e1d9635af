\* Does choosing a row of the overlay fill the form?
CONSTANTS
  Scopes = {"content"}
  i1 = i1
  i2 = i2
  Items = {i1, i2}
  ScoreUrlMatch <- MCScore
  OVERLAY_MAX_ITEMS = 2
  MaxChanges = 1
  MaxFills = 2
  VaultItems = {"p", "n"}
  Passwords = {"p"}
  Otp = {"p"}
  MaxInbox = 1
  MaxRequests = 2
  MaxStates = 2
  MaxPolls = 2
  Exports <- MCExports
  Files <- MCFiles
  PasswordsTyped = {"right", "wrong"}
  KeyPasswords = {"p", "q"}
  VaultContents = {"i", "j"}
  NewContents = {"i"}
  MaxSeals = 6
  MaxResets = 1
  InputPages <- MCPages
  Forms <- MCForms
  RoleForms <- MCRoleForms
  Secrets <- MCSecrets
  TotpPeriod = 3
  MaxClock = 6
  MaxModals = 3
  MaxPosts = 2
SPECIFICATION Spec
\* A file is read once, a code is made once, the pages close.
CHECK_DEADLOCK FALSE
PROPERTY SelectionFills
