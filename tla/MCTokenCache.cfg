SPECIFICATION FairSpec
CONSTANTS
  Handlers = {h1, h2}
  Refresher = refresher
  Nobody = Nobody
  MaxTokens = 3
INVARIANTS RetryUsesAnotherToken
PROPERTIES NoNeedlessRefresh RequestAnswered
