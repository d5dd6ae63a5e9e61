SPECIFICATION Spec
CONSTANTS
  Workspace <- MCWorkspace
  PersonalOnly = {}
  DefaultVisibility <- MCDefaultVisibility
  Project = {}
  ProjectsOf <- MCProjectsOf
  Principal = {p1, p2}
  None = None
  Content = {a1, a2, b}
  Fingerprint = {fa, fb}
  FingerprintOf <- MCFingerprintOf
  NoFp = NoFp
  Stub = Stub
  Id = {t1, t2, t3}
  NoRow = NoRow
  NoIndex = NoIndex
  Req = {r1}
  InitialHeads <- MCInitialHeads
  Workload <- FullWorkload
  w = w
  p1 = p1
  p2 = p2
  a1 = a1
  a2 = a2
  b = b
  fa = fa
  fb = fb
  t1 = t1
  t2 = t2

PROPERTIES
  NothingDuplicates
