SPECIFICATION Spec
CONSTANTS
  Char <- MCChar
  OutputDirs <- MCOutputDirs
  Packages <- MCPackages
  Classes = {"C"}
  FileSystems <- MCFileSystems
  Cwd <- MCCwd
  PathSize = 8
  MaxCalls = 2
  MaxRefusals = 1
INVARIANTS TypeOK FileInPackage DirectoryMade
PROPERTIES StaysInside
CHECK_DEADLOCK FALSE
