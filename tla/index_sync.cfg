SPECIFICATION Spec
CONSTANTS
  a = a
  b = b
  c = c
  old = old
  new1 = new1
  new2 = new2
  t1 = t1
  t2 = t2
  m1 = m1
  m2 = m2
  Retrievers = {old, new1, new2}
  Citations = {a, b, c}
  Texts = {t1, t2}
  Models = {m1, m2}
  TextOf <- ReleaseTexts
  ModelOf <- ReleaseModels
INVARIANTS
  TypeOK
  VectorsMatch
  ReadyIsExact
