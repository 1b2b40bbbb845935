CONSTANTS
  o1 = o1  o2 = o2  o3 = o3  o4 = o4  g1 = g1  g2 = g2  r1 = r1  r2 = r2  r3 = r3
  Objects = {o1, o2, o3, o4}
  Groups = {g1}
  Requests = {r1, r2}
  Kinds = {"share"}
  Relations <- Triangles
  NotLoaded = NotLoaded
SPECIFICATION Spec
CHECK_DEADLOCK FALSE
INVARIANTS ParentsImplyChildren
