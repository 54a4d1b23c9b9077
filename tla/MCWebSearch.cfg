SPECIFICATION FairSpec
CONSTANTS
  Searches = {s1, s2, s3}
  Ids = {i1, i2}
  Workers = 2
  None = None
PROPERTIES Implements SearchSettled ServeEnds
