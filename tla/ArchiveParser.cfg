SPECIFICATION FairSpec
CONSTANTS
  Files <- MCFiles
  Components <- MCComponents
INVARIANTS
  TypeOK
  OpensWhatWasWritten
  CutIsNoticed
  WholeArchiveOpens
PROPERTIES
  Terminates
