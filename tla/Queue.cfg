SPECIFICATION Spec
CONSTANTS
  Item = {x, y, z}
  Default = empty
  N = 3
  CountMod = 4
PROPERTY ImplementsFifo
