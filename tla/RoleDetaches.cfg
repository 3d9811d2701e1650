\* Violated: an attachment made during the run is detached by it.
SPECIFICATION Spec
CONSTANTS
  p1 = p1  px = px  b1 = b1  bx = bx  u1 = u1  ux = ux
  d1 = d1  d2 = d2  r1 = r1  s1 = s1  s2 = s2  none = none  unset = unset
  Policies <- MCPolicies  Buckets <- MCBuckets  Users <- MCUsers
  Docs <- MCDocs  Rules <- MCRules  NoRules = none  Secrets <- MCSecrets
  Unset = unset  Grants <- MCGrants  Builtin = {}
  SpecPolicy <- MCSpecPolicy  SpecBucket <- MCSpecBucket  SpecUser <- MCSpecUser
  Ignored = {}  FailOnUnmanaged = FALSE
  Concurrent = TRUE  MaxOps = 1  MaxFaults = 0
  InitialPolicy <- FewPolicies  InitialBucket <- FewBuckets  InitialUser <- FewUsers
PROPERTIES
  NothingIsEverDetached
