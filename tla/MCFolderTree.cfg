\* Three folders and an album; two clients that send any request.
SPECIFICATION Spec
CONSTANTS
  Root = Root
  Unborn = Unborn
  Gone = Gone
  None = None
  c1 = c1
  c2 = c2
  Client = {c1, c2}
  Folder = {f1, f2, f3}
  Album = {a1}
  May <- MayBoth
SYMMETRY Symmetry
INVARIANTS TypeOK StaysATree LiveAlbumsKeepFiles
PROPERTY KeepsItsPlace
