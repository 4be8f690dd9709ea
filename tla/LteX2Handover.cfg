SPECIFICATION Spec
CONSTANTS
  Cells = {1, 2}
  MaxRnti = 2
  MaxAttach = 2
  Confs <- HandoverConfs
INVARIANTS TypeOK AbortsExplained BearerMapsAgree NotStranded OneServingCell PathLeadsToUe
PROPERTIES ImplementsService HandoversEnd
CHECK_DEADLOCK FALSE
