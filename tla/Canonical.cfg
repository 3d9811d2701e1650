\* Up to two statements or rules; arrays without repetition.
SPECIFICATION Spec
CONSTANTS
  Names = {n1, n2}  Text = text  Absent = absent  Empty = empty  Instants = {t1, t2}
  MaxLength = 2  MaxArray = 2  Repeats = FALSE
INVARIANTS
  NoFalseDrift
  NoMaskedDrift
PROPERTIES
  Converges
