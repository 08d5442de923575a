\* Two collections of one name, or two tasks on one set, or one with two photos.
SPECIFICATION FairSpec
CONSTANTS
  None = None
  t1 = t1
  t2 = t2
  c1 = c1
  c2 = c2
  Collection = {c1, c2}
  Task = {t1, t2}
  Photo = {p1, p2}
  Work <- MCWork
  Handler = {h1, h2}
  MaxAlbums = 6
  MaxKeys = 6
  SlugRetries = 1
  MaxTroubles = 2
  MaxPhotoTroubles = 3
  MaxSlugLen = 5
  MaxNameLen = 7
INVARIANTS TypeOK OneAlbum NothingForgotten PublishedPhotosAreThere SlugsAreServed
PROPERTIES PublishedInTheEnd
