SPECIFICATION Spec
CONSTANTS
  Leaves = {x, y}
  Depth = 2
  Width = 8
  MaxNodes = 6
INVARIANTS TypeOK Canonical CacheRight
PROPERTIES KeepsPromise
