SPECIFICATION Spec
CONSTANTS
  Notifiers = {n1, n2, n3}
  Free = free
  Capacity = 3
  MaxInterrupts = 4
INVARIANTS
  NoLostNews
  NoBusyLoop
  NeverThrows
PROPERTIES
  NewsIsLoaded
