CONSTANTS
  SkipSets <- Skips
  Layouts <- IntoLayout
  MaxVersion = 1
  MaxCalls = 4
  MaxRuns = 1
  Raising <- Building
  Garbled <- Partial
  Stops <- Third
  Sections <- OneSection
  Required <- OneSection
  Nothing = Nothing
SPECIFICATION SessionSpec
CHECK_DEADLOCK FALSE
INVARIANTS SessionTypeOK Lineage RunOneGraph CertifiedIsOwn SuccessIsWhole
