\* Two runners, two configurations, one shared cache; edits only go forward.
CONSTANTS
  Runners = {p1, p2}
  Configs = {c1, c2}
  Dirs = {d1}
  Artifacts = {a1}
  Reads = 2
  Versions = {0, 1}
  Reverts = FALSE
  MaxRuns = 3
  None = None
SPECIFICATION Spec
CHECK_DEADLOCK FALSE
SYMMETRY Symmetry
INVARIANTS TypeOK CacheFaithful QuietRunExact
