SPECIFICATION Spec
CONSTANTS
  Users = {u1, u2}
  Tables = {t1}
  Budgets <- MCBudgets
\* the user may do nothing more
CHECK_DEADLOCK FALSE
INVARIANTS
  Settled
  ShownIsTrue
PROPERTIES
  LoaderClears
