\* Up to three nodes of weight 1 or 3, up to six points among four values: collisions,
\* both ends of the ring, shares that are rounded,
\* the 18/5 of weight 3 of 5 among three nodes up to 4.
CONSTANTS
  Weights <- TwoWeights
  MaxServers = 3
  Share = 2
  PerHash = 1
  Precision = 8
  PointMod = 4
SPECIFICATION Spec
INVARIANTS
  TypeOK
  RingFits
  LookupRight
PROPERTIES
  LookupEnds
