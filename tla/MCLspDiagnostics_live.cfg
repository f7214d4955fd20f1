SPECIFICATION FairSpec
CONSTANTS
  Uri = {u1}
  Task = {l1, l2}
  Fetcher = {f1}
  MaxGen = 2
  Poison = {1}
  Ignorable = {u1}
  NoTask = NoTask
  Main = Main
  NoUri = NoUri
INVARIANTS TypeOK PendingIsLive EditCovered OffIsLastWord
PROPERTIES EditIsAnswered
CHECK_DEADLOCK FALSE
