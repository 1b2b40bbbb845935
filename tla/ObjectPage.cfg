CONSTANTS
  a = a  b = b  file = file  blob = blob
  Objects = {a, b}
  None = None
  Types = {file, blob}
  Related <- MCRelated
  MaxChanges = 1
  MaxNavigations = 2
  MaxRequests = 3
SPECIFICATION Spec
INVARIANTS SerialOneObject SerialOwnChanges SerialBoxesFilled RemovalPending
SYMMETRY MCSymmetry
CHECK_DEADLOCK FALSE
