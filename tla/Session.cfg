CONSTANTS
  t1 = t1  t2 = t2  u1 = u1  u2 = u2  f1 = f1
  Tabs = {t1, t2}
  Users = {u1, u2}
  Flows = {f1}
  None = None  Done = Done
  MaxVersion = 1
  MaxNow = 1
  MaxRequests = 2
SPECIFICATION Spec
INVARIANTS HeadersFollowStorage SerialSessionsAgree SerialSignedOutStays
CONSTRAINT OneEvent
SYMMETRY MCSymmetry
