\* Two photos, two hashes, a handler; one stop or crash and one error, under fairness.
SPECIFICATION FairSpec
CONSTANTS
  None = None
  Photo = {p1, p2}
  Hash = {c1, c2}
  Handler = {h1}
  MaxEnds = 1
  MaxErrs = 1
INVARIANTS TypeOK IdleMeansTried NoLostKick
PROPERTY KickSuffices
