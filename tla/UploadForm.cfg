CONSTANTS
  o1 = o1  p1 = p1  p2 = p2  w1 = w1  registered = registered
  Objects = {o1}
  Parents = {p1, p2}
  SharedWith <- MCSharedWith
  Own = Own  PublicGroup = PublicGroup
  OtherGroups = {w1, registered}
  Workspaces = {w1}  Querying = {registered}
  None = None
  Users <- MCUsers
  MaxSubmissions = 2
SPECIFICATION FormSpec
CHECK_DEADLOCK FALSE
INVARIANTS SharedAsChosen ParentsAsShown FileConsent
