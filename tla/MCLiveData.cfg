\* Orders and positions, two of each, three changes (MaxChanges) at any time: enough to
\* add, change and delete one row, or to delete one while another is changed.
CONSTANTS
  Kind = {"orders", "trades"}
  Id = {a, b}
  MaxChanges = 3
  Driver = {"none", "mysql"}
SPECIFICATION Spec
INVARIANTS NoDuplicates Mirror TransactionsAreStored
PROPERTY NeverBackwards
SYMMETRY IdSymmetry
CHECK_DEADLOCK FALSE
