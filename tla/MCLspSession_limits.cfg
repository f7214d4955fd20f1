SPECIFICATION LspSpec
CONSTANTS
  upper = upper
  lower = lower
  home = home
  other = other
  top = top
  folder = folder
  plain = plain
  long = long
  absolute = absolute
  Doc <- MCDoc
  Text = {v1, v2}
  Place <- MCPlace
  Home = home
  Written <- MCWritten
  Root <- MCRoot
  RootOf <- MCRootOf
  Inside <- MCInside
  Name <- MCName
  Key <- MCKey
  Fetcher = {f1}
  Lint = {}
  Answers <- MCAnswers
  Main = Main
  Nil = Nil
VIEW LiveFiles
SYMMETRY Symmetry
INVARIANTS HostRecovers HostFollows SessionFollows ReloadSeesBuffers BufferIsAuthoritative
