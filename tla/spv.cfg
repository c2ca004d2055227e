SPECIFICATION LCSpec
CONSTANT MaxTxs = 9
CONSTANT FewerPerBlock = 3
INVARIANT AcceptedFilterSound WholeFilterExact MatchingBlockWhole InclusionExact HeaderChainExact
