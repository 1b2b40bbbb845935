CONSTANTS
  RightsCases <- MCRightsCases
  Volatile <- MCVolatile
  MaxChanges = 1
  FeatureCases <- MCFeatureCases
  Nobody = Nobody
SPECIFICATION Spec
INVARIANTS OfferedIsAllowed LoadsAreServed LinksArrive RemoteStaysRemote EverythingFound
