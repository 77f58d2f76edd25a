\* Three connections, two pages: a writer that dies, a reader that has been
\* there since before, and one that comes after.
CONSTANTS
  p1 = p1
  p2 = p2
  p3 = p3
  page1 = page1
  page2 = page2
  v1 = v1
  v2 = v2
  Proc = {p1, p2, p3}
  Process <- Processes
  Page = {page1, page2}
  Head = page1
  Value = {v1, v2}
  NoContent = NoContent
  NoJournal = NoJournal
  Kept = {page1}
  MaxCounter = 2
  Faults = {"crash", "power", "io"}
SPECIFICATION Spec
SYMMETRY Symmetry
INVARIANTS
  TypeOK
  OneJournalUser
  CacheIsCurrent
PROPERTIES
  CommitIsAtomic
  ImplementsAtomicFile
