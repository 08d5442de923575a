\* Two requests, one fault, and a video that never renders, under fairness.
SPECIFICATION FairSpec
PROPERTIES PendingSettles RequestsFinish ImplementsLife
CONSTANTS
  p1 = p1 p2 = p2 a1 = a1 l1 = l1 l2 = l2 jpg1 = jpg1 jpg2 = jpg2 mov1 = mov1
  None = None
  Photo = {p1, p2}
  Album = {a1}
  Lr = {l1}
  Content = {jpg1, mov1}
  Smaller = {"thumb"}
  Broken = {mov1}
  Request = {r1, r2}
  MaxFaults = 1
  AlbumOf <- MCAlbumOf
  KindOf <- MCKindOf
  Wide <- MCWide
