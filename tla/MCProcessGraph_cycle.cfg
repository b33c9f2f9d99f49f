CONSTANTS
  r1 = r1  r2 = r2  r3 = r3  h1 = h1  h2 = h2  gui = gui  osc = osc
  Main = main
  NoRoute = none
  Routes = {r1, r2, r3}
  Helpers = {h1, h2}
  Editors = {gui}
  RechainInputs <- JoinOnly
SPECIFICATION CyclingSpec
INVARIANTS
  TypeOK FeedersFirst RunsOnce TokensCountSleepers NoLostWakeup
PROPERTY ImplementsCycle
SYMMETRY Symmetry
CHECK_DEADLOCK FALSE
