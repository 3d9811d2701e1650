\* A spec that leaves keys out and names a policy it does not manage.
SPECIFICATION Spec
CONSTANTS
  p1 = p1  px = px  b1 = b1  bx = bx  u1 = u1  ux = ux
  d1 = d1  d2 = d2  r1 = r1  s1 = s1  s2 = s2  none = none  unset = unset
  Policies <- MCPolicies  Buckets <- MCBuckets  Users <- MCUsers
  Docs <- MCDocs  Rules <- MCRules  NoRules = none  Secrets <- MCSecrets
  Unset = unset  Grants <- MCGrants  Builtin = {}
  SpecPolicy <- MCSpecPolicy  SpecBucket <- SparseBucket  SpecUser <- SparseUser
  Ignored = {}  FailOnUnmanaged = FALSE
  Concurrent = FALSE  MaxOps = 0  MaxFaults = 0
  InitialPolicy <- LoosePolicies  InitialBucket <- SomeBuckets  InitialUser <- SomeUsers
INVARIANTS
  TypeOK
  ReportIsExact
  RefusedSpecTouchesNothing
