\* Two threads, two providers, three job names; handlers may be interrupted.
CONSTANTS
  None = None
  Provider = {p1, p2}
  Conf = {c1, c2}
  Job = {j1, j2, j3}
  Request = {r1, r2}
  Faults = {"timeout", "crash"}
SPECIFICATION Spec
SYMMETRY Symmetry
INVARIANTS TypeOK SequentialJobs SequentialConfigurations NamedJobsExist NoForeignJob
