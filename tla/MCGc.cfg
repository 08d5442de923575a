\* Three photos in two albums, and up to two crashes or failed calls at any step.
SPECIFICATION Spec
CONSTANTS
  p1 = p1
  p2 = p2
  p3 = p3
  a1 = a1
  a2 = a2
  Photo = {p1, p2, p3}
  Album = {a1, a2}
  AlbumOf <- TwoAndOne
  MaxFaults = 2
SYMMETRY Symmetry
INVARIANTS TypeOK LiveFilesKept GcFinishes
