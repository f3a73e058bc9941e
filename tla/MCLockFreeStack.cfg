\* A stack of three indexes whose count starts at any of three values, two threads that push and pop.
\* The bound on serial numbers ends the run: no deadlock check.
CONSTANTS
  Threads = {t1, t2}
  Indexes = {1, 2, 3}
  Nodes = {n1, n2, n3, n4}
  NoNode = NoNode
  FirstSizes <- AnySizes
  MaxNum = 8
SPECIFICATION Spec
SYMMETRY Symmetry
CHECK_DEADLOCK FALSE
INVARIANTS OnePlace SizeExact NeverNull
PROPERTY StackSafe
