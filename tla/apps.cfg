SPECIFICATION Spec

CONSTANTS
  Names = {n1, n2}
  Domains = {x}
  Types = {"managed", "adopted"}
  Handlers = {h1, h2}
  MaxId = 2
  Empty = Empty
  None = None

SYMMETRY Symmetry

INVARIANT TypeOK
INVARIANT RoutesFollowRows
INVARIANT RowsKeepTheirNames
PROPERTY DeletedStaysDeleted

\* The ids that are left bound the workload.
CHECK_DEADLOCK FALSE
