\* From every state of the managed resources, run after run, one call failing.
SPECIFICATION Spec
CONSTANTS
  p1 = p1  px = px  b1 = b1  bx = bx  u1 = u1  ux = ux
  d1 = d1  d2 = d2  r1 = r1  s1 = s1  s2 = s2  none = none  unset = unset
  Policies <- MCPolicies  Buckets <- MCBuckets  Users <- MCUsers
  Docs <- MCDocs  Rules <- MCRules  NoRules = none  Secrets <- MCSecrets
  Unset = unset  Grants <- MCGrants  Builtin = {}
  SpecPolicy <- MCSpecPolicy  SpecBucket <- MCSpecBucket  SpecUser <- MCSpecUser
  Ignored <- Other  FailOnUnmanaged = TRUE
  Concurrent = FALSE  MaxOps = 0  MaxFaults = 1
  InitialPolicy <- SomePolicies  InitialBucket <- SomeBuckets  InitialUser <- SomeUsers
INVARIANTS
  StillSo
  ReportIsExact
  UnmanagedIsExact
  ConvergeMerges
  HalfwayIsOnTheWay
  GreenMeansInSync
  DeadIsDead
PROPERTIES
  ImplementsAtomicReconcile
