\* Eight threads merged in two rounds onto two nodes of three cores, over and over.
SPECIFICATION FairSpec
CONSTANTS
  NTHREADS = 8
  num_nodes = 2
  cores_per_node = 3
  Matrices <- SmallMatrices
  NULL = NULL
INVARIANTS
  TypeOK
  Partition
  SizeCounted
  NeighborFound
  CoresBalanced
  GroupsTogether
PROPERTY Terminates
