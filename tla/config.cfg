CONSTANTS
  Clients = {c1, c2}
  Values = {v}
  Unset = unset
  NoOne = noone
  MaxHistory = 2
  MaxFaults = 2
SPECIFICATION Spec
INVARIANT AuditTellsAll
PROPERTIES OutcomeIsTrue RegisterSpec
SYMMETRY Symmetric
