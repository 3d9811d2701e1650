\* Violated: an array that names an element twice never compares equal.
SPECIFICATION Spec
CONSTANTS
  Names = {n1, n2}  Text = text  Absent = absent  Empty = empty  Instants = {t1, t2}
  MaxLength = 1  MaxArray = 2  Repeats = TRUE
PROPERTIES
  Converges
