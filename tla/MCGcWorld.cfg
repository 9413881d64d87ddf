SPECIFICATION FairSpec
CONSTANTS
  k1 = k1  k2 = k2  k3 = k3
  Thread = {k1, k2, k3}
INVARIANTS CountersMeasure
PROPERTIES DecisionIsSound CollectionReleases OnlyLeaversGoUnnoticed
