\* Two clients move folders at the same time.
SPECIFICATION Spec
CONSTANTS
  Root = Root
  Unborn = Unborn
  Gone = Gone
  None = None
  c1 = c1
  c2 = c2
  Client = {c1, c2}
  Folder = {f1, f2}
  Album = {a1}
  May <- MayBothMove
SYMMETRY Symmetry
INVARIANT Acyclic
