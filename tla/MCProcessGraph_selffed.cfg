CONSTANTS
  r1 = r1  r2 = r2  r3 = r3  h1 = h1  h2 = h2  gui = gui  osc = osc
  Main = main
  NoRoute = none
  Routes = {r1, r2, r3}
  Helpers = {h1}
  Editors = {gui}
  RechainInputs <- SelfFedInputs
SPECIFICATION FairSpec
PROPERTY CallReturns
CHECK_DEADLOCK FALSE
