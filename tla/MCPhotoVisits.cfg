\* Three requests of any kind against a library of up to two photos, or a
\* reader or a crash or failing call anywhere instead of one or two of them.
SPECIFICATION VisitSpec
CONSTANTS
  p1 = p1 p2 = p2 a1 = a1 l1 = l1 l2 = l2 jpg1 = jpg1 jpg2 = jpg2 mov1 = mov1
  None = None
  Photo = {p1, p2}
  Album = {a1}
  Lr = {l1}
  Content = {jpg1, jpg2, mov1}
  Smaller = {"thumb"}
  Broken = {}
  Request = {r1, r2, r3}
  MaxFaults = 1
  AlbumOf <- MCAlbumOf
  KindOf <- MCKindOf
  Wide <- MCWide
INVARIANTS TypeOK ReadyMeansAgree NoneHalfDone HashKept NoStrayFiles FilesFound ETagNamesFile
PROPERTIES VisibleFilesFrozen
CONSTRAINT ThreeEventsOrReaders
SYMMETRY Symmetry
