\* An album is moved out of a folder while the folder is deleted.
SPECIFICATION Spec
CONSTANTS
  Root = Root
  Unborn = Unborn
  Gone = Gone
  None = None
  c1 = c1
  c2 = c2
  Client = {c1, c2}
  Folder = {f1}
  Album = {a1}
  May <- MayMoveAndDelete
INVARIANT LivingKeepFiles
