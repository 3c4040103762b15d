\* Two handlers that overlap, with no interruption.
CONSTANTS
  None = None
  Provider = {p1}
  Conf = {c1}
  Job = {j1, j2}
  Request = {r1, r2}
  Faults = {}
SPECIFICATION Spec
INVARIANTS NoJobWithoutProvider
