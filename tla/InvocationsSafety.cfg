\* Two manifests and two texts; lists of more than one input go to a file.  At
\* time 1 nothing is newer than a manifest, at time 2 what is written is.
CONSTANTS
  m = m  n = n  many = many  pair = pair
  a = a  b = b  o = o  p = p  r = r
  Manifest = {m, n}
  Text = {many, pair}
  File = {a, b}
  Output = {o, p}
  Links <- MCLinks
  Rsp = {r}
  RspOf <- MCRspOf
  Limit = 1
  BodySize <- MCBodySize
  StringsSize <- MCStringsSize
  MaxTime = 2
SPECIFICATION Spec
SYMMETRY ManifestsAlike
INVARIANTS
  TypeOK
  LinkReadsItsInputs
PROPERTIES
  NamedManifestLoaded
