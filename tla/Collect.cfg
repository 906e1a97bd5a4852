SPECIFICATION FairSpec
CONSTANTS
  Scans = {s1}
  Tests = {t1}
  Addresses = {a1}
  Keys = {k1, k2}
  NoKey = NoKey
  Nobody = Nobody
  MaxForgets = 1
INVARIANTS KeyInv NeverCutShort
PROPERTY EveryConnectionEnds
