\* Two overlapping runs of a wave with two applications.
SPECIFICATION Spec
CONSTANTS
  r1 = r1
  r2 = r2
  h1 = h1
  h2 = h2
  shop = shop
  wiki = wiki
  l1 = l1
  l2 = l2
  Run = {r1, r2}
  Host = {h1, h2}
  App = {shop, wiki}
  AppOf <- MCAppOf
  Look = {l1, l2}
  Given <- MCGiven
  Faults = {"discovery", "probe"}
  MaxDeaths = 1
SYMMETRY Symmetry
INVARIANTS
  TypeOK
  OneBaseline
  OneComparison
  
  SomethingMoved
