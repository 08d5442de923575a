\* Four threads, two photos, and mutexes that can be reused, under fairness.
SPECIFICATION FairSpec
CONSTANTS
  None = None
  Thread = {t1, t2, t3, t4}
  Photo = {p1, p2}
  Mutex = {x1, x2, x3, x4}
INVARIANTS TypeOK OneHolder EntryIffInUse
PROPERTIES ImplementsMutex WaitersEnter
