CONSTANTS
  Queries <- MCQueries
  Empty = ""
  Matches <- MCMatches
  UploadTime <- MCUploadTime
  None = None
  PageSize = 2
  MaxObjects = 4
  Changing = {2, 3}
SPECIFICATION Spec
INVARIANT QueryChangeResets
