CONSTANTS
  o1 = o1  o2 = o2  o3 = o3  o4 = o4  g1 = g1  g2 = g2  r1 = r1  r2 = r2  r3 = r3
  Objects = {o1, o2, o3}
  Groups = {g1, g2}
  Requests = {r1, r2, r3}
  Kinds = {"share", "link"}
  Relations <- TreesAndLinks
  NotLoaded = NotLoaded
SPECIFICATION MCFairSpec
ACTION_CONSTRAINT TwoWithLinks
CHECK_DEADLOCK FALSE
INVARIANTS TreeClosed LostOnlyToBelow SerialClosed
PROPERTIES SerialIsAtomic RequestsEnd
