CONSTANTS
  v1 = v1
  v2 = v2
  w = w
  p = p
  fileV = fileV
  fileW = fileW
  fileP = fileP
  pathV1 = pathV1
  pathV2 = pathV2
  pathW = pathW
  Calls = {c1, c2}
  Names = {fileV, fileW, fileP}
  Contents = {v1, v2, w, p}
  NameOf <- MCNameOf
  Paths = {pathV1, pathV2, pathW}
  FileOf <- MCFileOf
  Scenes <- MCScenes
SPECIFICATION Spec
INVARIANTS
  
  ModsKeepTheirSource
  ListedIsStored
SYMMETRY Symmetry
CHECK_DEADLOCK FALSE
