\* Two processes of two pages; fewer RAM frames than pages and fewer swap frames.
CONSTANTS
  Procs = {p1, p2}
  NPages = 2
  RamSz = 2
  SwpSz = 2
  Values = {0, 1}
  Garbage <- MCGarbage
  Nodes = {n1, n2, n3}
  NULL = NULL
  Wild = Wild
SPECIFICATION Spec
PROPERTY SwappedBack
