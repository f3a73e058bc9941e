\* Two producers and the consumer, nodes used again.
\* The bound on items ends the run: no deadlock check.
CONSTANTS
  Producers = {p1, p2}
  Consumer = consumer
  Nodes = {d, n1, n2, n3}
  Dummy = d
  NoNode = NoNode
  MaxItems = 3
SPECIFICATION LinkedSpec
SYMMETRY Symmetry
CHECK_DEADLOCK FALSE
INVARIANTS Whole EachOnce
PROPERTY QueueSpec
