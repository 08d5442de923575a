\* Two changes and three unlocks of albums two of which share a slug in turn, and a zip of four photos.
SPECIFICATION MCSpec
CONSTANTS
  a1 = a1 a2 = a2 a3 = a3 s1 = s1 s2 = s2
  home = home proxy = proxy forged = forged None = None
  Album = {a1, a2, a3}
  Password = {p1, p2}
  Browser = {b1}
  Proxy = proxy
  Forged = {forged}
  Writer = {w1, w2}
  Attempt = {u1, u2, u3}
  MaxGrants = 1
  TTL = 2
  Capacity = 2
  MaxKeys = 1
  SweepEvery = 2
  MaxTime = 2
  MaxEvents = 4
  MaxPhotos = 4
  FileName <- MCFileName
  SlugOf <- MCSlugOf
  AddressOf <- MCAddressOf
  Key <- MCKey
  Change <- MCChange
INVARIANTS TypeOK PasswordGuards ZipNamesDiffer
PROPERTIES StaysOpen RefusedForCause ImplementsBuckets
CHECK_DEADLOCK FALSE
CONSTRAINT InOrder
SYMMETRY Symmetry
