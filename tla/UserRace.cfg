\* Violated: a user that somebody else creates meanwhile gets the module's secret.
SPECIFICATION Spec
CONSTANTS
  Retries = 2  MaxOthers = 1  Unset = unset
  Rulesets = {r1, r2}  NoRules = norules  Sizes = {1}
  Policy = p  Builtins = {b}  Documents = {d1, d2}  NoDocument = nodocument
  Secrets = {s1, s2}  NoSecret = nosecret  Users = {u1, u2}
PROPERTIES
  SecretsAreSafe
