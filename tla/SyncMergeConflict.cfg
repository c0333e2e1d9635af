SPECIFICATION Spec
CONSTANTS
  Ids = {x, y}
  Versions = {v1, v2}
  Revisions = {1}
  MaxItems = 2
SYMMETRY VaultSymmetry
INVARIANTS NoVersionLost
