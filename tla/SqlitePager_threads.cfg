\* Two threads of one server that dies within a commit.
CONSTANTS
  p1 = p1
  p2 = p2
  p3 = p3
  page1 = page1
  page2 = page2
  v1 = v1
  v2 = v2
  Proc = {p1, p2}
  Process <- OneServer
  Page = {page1, page2}
  Head = page1
  Value = {v1, v2}
  NoContent = NoContent
  NoJournal = NoJournal
  Kept = {page1}
  MaxCounter = 1
  Faults = {"crash"}
SPECIFICATION Spec
SYMMETRY Symmetry
INVARIANT CacheIsCurrent
