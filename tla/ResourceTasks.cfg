\* Every module, resource and parameter; two attempts per call; somebody else
\* acts once during a run, in any way.
SPECIFICATION Spec
CONSTANTS
  Retries = 2  MaxOthers = 1  Unset = unset
  Rulesets = {r1, r2}  NoRules = norules  Sizes = {1}
  Policy = p  Builtins = {b}  Documents = {d1, d2}  NoDocument = nodocument
  Secrets = {s1, s2}  NoSecret = nosecret  Users = {u1, u2}
INVARIANTS
  TypeOK
  OkMeansGoal
  ReturnedIsSo
  ChangedTellsTheTruth
  OkMeansEachPartWasSo
  FailsWithReason
PROPERTIES
  StaysOnCourse
  DryRunsDoNotWrite
  SecretsNeedAWarrant
  RunsEnd
