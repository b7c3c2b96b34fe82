CONSTANTS
  Threads = {t1, t2}
  Stmts = {s1, s2}
  Params = {p1, p2}
  Rows = 2
  MaxDepth = 2
  NoStmt = NoStmt
  NoParam = NoParam
SPECIFICATION Spec
SYMMETRY MCSymmetry
INVARIANTS StatementsAccounted FreedOnlyByTheProgram RowsComplete NoCircularWait
PROPERTIES ReadyAfterExecution
CHECK_DEADLOCK FALSE
