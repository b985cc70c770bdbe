CONSTANTS
  a = a
  b = b
  Base <- TwoMappings
  Short <- Shorts
  MergedShort = "merged"
  Nodes <- TwoNodes
  Kinds <- FewKinds
  NoKind = NoKind
  Proposed <- Proposals
  Full = 100
  Bonus = 15
  Updates <- FewUpdates
  Definitions <- FewSplits
  MergedKinds <- HiddenOrNone
  MaxReviews = 3
  GraphNodes <- TwoNodes
  Edges <- TwoEdges
  NoModel = NoModel
SPECIFICATION Spec
INVARIANTS ReviewTypeOK AuditTrail ScoreBounded QuietReuseExact RejectedIsUncertain
