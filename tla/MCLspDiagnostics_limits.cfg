SPECIFICATION Spec
CONSTANTS
  Uri = {u1}
  Task = {l1, l2}
  Fetcher = {f1, f2}
  MaxGen = 2
  Poison = {}
  Ignorable = {u1}
  NoTask = NoTask
  Main = Main
  NoUri = NoUri
INVARIANTS ClosedShowsNothing HoverAgrees SettingsReachEveryBuffer
PROPERTIES NeverOlder SilentAfterShutdown
CHECK_DEADLOCK FALSE
