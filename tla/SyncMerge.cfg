SPECIFICATION EditSpec
CONSTANTS
  Ids = {x, y}
  Versions = {v1, v2, v3}
  Revisions = {1, 2, 3}
  MaxItems = 2
SYMMETRY VaultSymmetry
INVARIANTS TypeOK NeverOlder MergedIsNewest CountsAddUp
