SPECIFICATION Spec
CONSTANTS
  UserGraphs <- Graphs
  Syndromes <- Chosen
  Rounds <- Twice
INVARIANTS
  MinimumWeight
  Pairing
  NoOverlap
  Watched
  TreesAndMatches
  CachesFresh
  SlotsAccounted
PROPERTIES
  Decodes
