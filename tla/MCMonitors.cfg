SPECIFICATION FairSpec
CONSTANTS
  dough = dough
  meat = meat
  cheese = cheese
  NoThread = NoThread
  Dough = dough
  Fillings <- TwoFillings
  N = 2
  Ids = 2
INVARIANTS TypeOK NoSignalLost
PROPERTIES ImplementsKitchen GoesOn
