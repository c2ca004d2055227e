SPECIFICATION DeskSpec
CONSTANTS
  Party = {"alice", "bob", "board"}
  Embedding = {"alice", "bob"}
  KeyHolder <- MCKeyHolder
  Nobody = Nobody
  Never = Never
  Terms <- MCTerms
  Deadlines = {0, 1}
  Percentages = {0, 50}
  MaxClock = 2
  MaxDocuments = 5
  MaxRequests = 6
  Documents <- MCDocuments
  Nonces = {"n1", "n2"}
  MaxRevealed = 2
  MaxMixUps = 1
INVARIANTS
  DisclosureExact
  TitleUnbroken
  RecordsExplainStore
CHECK_DEADLOCK FALSE
