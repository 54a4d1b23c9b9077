SPECIFICATION FairBridgeSpec
CONSTANTS
  Calls = {c1}
  Lists = {l1}
  Authentications = {a1}
INVARIANTS AutomaticLoginOnce BooksAreExact NoCallRunsTwice
PROPERTIES RequestSettled SessionEnds
