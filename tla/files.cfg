SPECIFICATION FairSpec
CONSTANTS
  MAX_DIRS = 2
  MAX_RUNS = 2
  MAX_UPLOADS = 3
  Folder <- MCFolder
  Filenames <- MCFilenames
  Trees <- MCTrees
  Seconds <- MCSeconds
  Local <- MCLocal
INVARIANTS TypeOK StampsApart UploadsKept DeleteLeaves ErrnoTellsTruth
PROPERTY WalkEnds
