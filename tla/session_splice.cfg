SPECIFICATION Spec
CONSTANTS
  c1 = c1  c2 = c2  pkg1 = pkg1  pkg2 = pkg2
  Conn <- MCConn
  Pkg <- MCPkg
  Checked <- MCPkg
  Length <- MCLength
  Segs = 3
  MallocMayFail = TRUE
  None = None
INVARIANT StreamedWhole
