\* Any resource and any credential, changing three times during a run, in any way.
SPECIFICATION Spec
CONSTANTS
  Retries = 1  MaxMoves = 3  Unset = unset
  Rulesets = {r1}  NoRules = norules  Sizes = {1}
  Policy = p  Builtins = {b}  Documents = {d1, d2}  NoDocument = nodocument
  Secrets = {s1}  NoSecret = nosecret  Users = {u1}  Owners = {o1, o2}
INVARIANTS
  TypeOK
  ReportWasTrue
  NotFoundHasACause
  VerdictWasRight
