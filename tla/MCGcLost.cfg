\* Two photos in one album; one crash or failed call at any step.
SPECIFICATION Spec
CONSTANTS
  p1 = p1
  p2 = p2
  p3 = p3
  a1 = a1
  a2 = a2
  Photo = {p1, p2}
  Album = {a1}
  AlbumOf <- TwoInOne
  MaxFaults = 1
SYMMETRY Symmetry
INVARIANT SafeWhileUp
