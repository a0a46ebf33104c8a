CONSTANTS
  Procs = {p1, p2, p3}
  Pages = {g1, g2, g3}
  Slots = {s1, s2, s3, s4}
  NoPage = NoPage
  NoSlot = NoSlot
SPECIFICATION Spec
SYMMETRY Symmetry
INVARIANTS RefCountExact PageConserved WritableIsPrivate
