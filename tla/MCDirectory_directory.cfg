SPECIFICATION FairSpec
CONSTANTS
  t1 = t1  t2 = t2  p1 = p1  p2 = p2  ann = ann  ben = ben
  Threads = {t1, t2}
  Mysql = {p1, p2}
  None = None
  InitSize = 1
  MaxSize = 2
  Names = {ann, ben}
  Known <- AnnKnown
  MaxId = 2
  MaxCalls = 3
  Faults = {"db", "kill"}
INVARIANTS DirectoryInv OwnIds FoundedOrAbandoned RecipientsSound OneConnectionEach
PROPERTIES HandlersReturn
CHECK_DEADLOCK FALSE
