CONSTANTS
  i1 = i1
  i2 = i2
  i3 = i3
  i4 = i4
  k4 = k4
  k1 = k1
  k2 = k2
  k3 = k3
  v1 = v1
  v2 = v2
  Nil = Nil
  NoValue = NoValue
  Items = {i1, i2, i3, i4}
  Keys = {k1, k2, k3, k4}
  Values = {v1, v2}
  Capacities = {0, 1, 2, 3}
  MaxLen = 4
SPECIFICATION MCSpec
SYMMETRY MCSymmetry
INVARIANTS RepresentationOK
PROPERTIES CacheImplementsLru ListImplementsSequence
