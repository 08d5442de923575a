\* The comment of content_hash (db/photos.go:25) read as an invariant, with one fault.
SPECIFICATION Spec
INVARIANT HashMatchesOriginal
CONSTANTS
  p1 = p1 p2 = p2 a1 = a1 l1 = l1 l2 = l2 jpg1 = jpg1 jpg2 = jpg2 mov1 = mov1
  None = None
  Photo = {p1, p2}
  Album = {a1}
  Lr = {l1}
  Content = {jpg1, jpg2}
  Smaller = {"thumb"}
  Broken = {}
  Request = {r1, r2}
  MaxFaults = 1
  AlbumOf <- MCAlbumOf
  KindOf <- MCKindOf
  Wide <- MCWide
