CONSTANTS
  Lists <- MCLists
  Callers = {c1, c2}
  Embedding = {"embed"}
  Structured = {"large"}
  TierMap <- MCTierMap
  Policies <- MCPolicies
  Ttl = 1
  MaxTime = 2
  None = None
  Writers = {w1}
  Lengths = {0, 4}
  Sizes = {2, 3}
  Overlaps = {0, 1, 2}
  Nil = Nil
SPECIFICATION Spec
CHECK_DEADLOCK FALSE
INVARIANTS TypeOK NeverGoesBack StaleIsMarked ChunkingEnds ChunksCoverText VectorsMatchChunks
PROPERTIES CallersAnswered
