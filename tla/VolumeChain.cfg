SPECIFICATION Spec
CONSTANTS
  NotEgg = NotEgg
  MaxVolumes = 3
  MaxId = 4
  Firsts <- MCFirsts
  Others <- MCOthers
INVARIANTS
  TypeOK
  WholeWithinLimit
  CompleteSetOpens
  HandsOverLayout
