SPECIFICATION Spec
CONSTANTS
  Char <- MCChar
  OutputDirs <- DottedDirs
  Packages <- MCPackages
  Classes = {"C"}
  FileSystems <- MCFileSystems
  Cwd <- MCCwd
  PathSize = 8
  MaxCalls = 2
  MaxRefusals = 1
INVARIANTS OutputBelowDir
CHECK_DEADLOCK FALSE
