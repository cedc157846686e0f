\* Three slabs of three objects: one slab empty, one in use, one full at once.
CONSTANTS
  Slabs = {s1, s2, s3}
  Objects = 3
  ObjectSize = 5
  SlabSize = 32
SPECIFICATION Spec
INVARIANTS
  SlabsFiled
  ObjectsOnce
PROPERTIES
  ImplementsPool
