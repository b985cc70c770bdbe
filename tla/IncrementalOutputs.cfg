\* One runner, two configurations that export to the same directory.
CONSTANTS
  Runners = {p1}
  Configs = {c1, c2}
  Dirs = {d1}
  Artifacts = {a1, a2}
  Reads = 1
  Versions = {0}
  Reverts = FALSE
  MaxRuns = 3
  None = None
SPECIFICATION Spec
CHECK_DEADLOCK FALSE
INVARIANT HitArtifactsCurrent
