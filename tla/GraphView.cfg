SPECIFICATION FairSpec
CONSTANTS
  a = a
  b = b
  c = c
  p = p
  q = q
  Services = {a, b, c}
  Pods = {p, q}
  Rank <- MCRank
  Calls <- MCCalls
  NoNode = NoNode
INVARIANTS
  TypeOK
  CallsRunDown
  NodesKeepApart
  BlastRadiusIsExact
PROPERTIES
  LoopsEnd
