CONSTANTS
  s1 = s1
  s2 = s2
  s3 = s3
  None = None
  Servers = {s1, s2, s3}
  Stands <- MCStands
  Feeds <- MCFeeds
  MaxLog <- MCMaxLog
  MaxInFlight = 2
SPECIFICATION Spec
INVARIANTS
  MatchIsReplicated
