SPECIFICATION Spec
CONSTANTS
  Units = {1, 2}
  Cards = {a, b}
  NoCard = NoCard
  MaxEvents = 4
SYMMETRY CardSymmetry
INVARIANTS OneLatest RedMeansReported FoundWhereItIs
 
CHECK_DEADLOCK FALSE
