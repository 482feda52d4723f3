SPECIFICATION FairSpec
CONSTANTS
  dough = dough
  meat = meat
  cheese = cheese
  Dough = dough
  Fillings <- TwoFillings
  N = 1
  Ids = 2
PROPERTIES NoStarvation
