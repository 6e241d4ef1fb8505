SPECIFICATION Spec
CONSTANTS
  ann = ann
  ben = ben
  None = None
  Bad = Bad
  Holders = {ann, ben}
  Exchanges <- ExchangesAll
  Calls <- CallsAll
  Templates <- TemplatesAll
  Foreign <- ForeignAll
  Vcs <- VcsAll
  Mdocs <- MdocsAll
  Odd <- OddAll
  MaxTime = 1
  Leeway = 0
  KbMaxAge = 0
  MaxDepth = 3
CHECK_DEADLOCK FALSE
INVARIANTS PresentedByItsHolder AnswersTheQuery WithholdingHidesNothing ExpiredMeansBound
