SPECIFICATION FairSpec
CONSTANTS
  MaxSection = 8
  EtagSize = 8
  MayKeep = TRUE
  Nodes <- MCNodes
  NoNode = NoNode
  Directories <- MCDirectories
  Answers <- MCAnswers
  Inputs <- MCInputs
  MaxRefusals = 1
INVARIANTS
  HeadIsReadAsSent
  ReplyIsWhole
PROPERTIES
  HeadEnds
