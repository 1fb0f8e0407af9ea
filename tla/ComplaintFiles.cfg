CONSTANTS
  Files = {x1, x2, x3, x4}
  MaxFiles = 3
  Uploads = {up1, up2}
  Handlers = {h1}
SPECIFICATION ComplaintsSpec
INVARIANT FilesWithinLimit
CHECK_DEADLOCK FALSE
