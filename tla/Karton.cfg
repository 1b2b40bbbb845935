CONSTANTS
  o1 = o1  o2 = o2  o3 = o3  a1 = a1  r1 = r1  r2 = r2  r3 = r3
  Objects = {o1, o2, o3}
  Analyses = {a1}
  Requests = {r1, r2, r3}
  Kinds = {"assign", "remove"}
SPECIFICATION FairSpec
CHECK_DEADLOCK FALSE
INVARIANTS SerialClean AssignsClean
PROPERTIES RequestsEnd
