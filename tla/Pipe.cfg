SPECIFICATION PipeSpec
CONSTANTS
  Threads = {t1, t2, t3}
  Items = {a, b}
  None = None
  Nobody = Nobody
  MaxLength = 1
INVARIANTS
  PipeTypeOK
PROPERTIES
  ImplementsFifo
