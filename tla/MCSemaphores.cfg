SPECIFICATION Spec
CONSTANTS
  dough = dough
  meat = meat
  cheese = cheese
  Dough = dough
  Fillings <- TwoFillings
  N = 2
  Ids = 2
INVARIANTS TypeOK Exclusion NoStandstill
PROPERTIES ImplementsKitchen
SYMMETRY Symmetry
