\* Two writers mixing single writes and batches of up to two mutations on
\* two keys; each commit holding the store mutex.
CONSTANTS
  w1 = w1  w2 = w2  k1 = k1  k2 = k2  v1 = v1  Empty = Empty
  Writers = {w1, w2}
  Keys = {k1, k2}
  Values = {Empty}
  EmptyValue = Empty
  Missing = Missing
  NoHolder = NoHolder
  MaxStaged = 2
  MaxOps = 2
SPECIFICATION Spec
INVARIANT TypeOK
