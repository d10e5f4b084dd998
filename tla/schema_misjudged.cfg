SPECIFICATION Spec

CONSTANTS
  Keys = {k1, k2}
  None = None
  Handlers = {h1, h2}
  Latest = 5
  Alters = {3, 4}
  MayStop = TRUE

SYMMETRY Symmetry

INVARIANT SchemaIsComplete
