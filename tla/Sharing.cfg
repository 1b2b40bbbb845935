CONSTANTS
  o1 = o1  o2 = o2  o3 = o3
  alice = alice  bob = bob  gAlice = gAlice  gBob = gBob
  Objects = {o1, o2, o3}
  Users = {alice, bob}
  Groups = {gAlice, gBob}
  Workspaces = {gAlice, gBob}
  Private <- DuoPrivate
  MemberOf <- DuoMemberOf
  GroupCaps <- DuoGroupCaps
  NoObject = NoObject
  NoGrant = NoGrant
  Idle = Idle
SPECIFICATION Spec
SYMMETRY ObjectSymmetry
CONSTRAINT FewRelations
ACTION_CONSTRAINT SmallSystems
INVARIANTS TypeOK ParentsImplyChildren TidyJustified AddedByOwner
PROPERTIES TidyOwnSharesKept UnlinkOnlyBelow UnlinkProgress
