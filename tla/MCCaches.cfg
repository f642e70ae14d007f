CONSTANTS
  base = base
  mid = mid
  leaf = leaf
  Global = mid
  Objects <- MCObjects
  ProtoChain <- MCProtoChain
  Keys = {a, b}
  Values = {v1}
  NoValue = NoValue
  NoKey = NoKey
  Cids = {c1}
  MaxNonMapped = 1
  MaxShapes = 4
  MaxHierarchy = 2
SPECIFICATION CtxSpec
SYMMETRY Symmetry
INVARIANT CacheTypeOK
INVARIANT GetHitSound
INVARIANT PutHitSound
INVARIANT CtxHitOwnSound
CHECK_DEADLOCK FALSE
