\* Three threads, three nodes, and operations enough for a node to be popped, freed
\* and back on top while another thread holds its pointer.
CONSTANTS
  Threads = {t1, t2, t3}
  Nodes = {n1, n2, n3}
  NoNode = NoNode
  MaxNum = 6
SPECIFICATION Spec
SYMMETRY Symmetry
INVARIANTS Linked NeverNull
PROPERTY PoolSpec
CHECK_DEADLOCK FALSE
