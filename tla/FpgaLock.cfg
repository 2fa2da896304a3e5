\* Three accelerators contend for one critical region.
SPECIFICATION FairSpec
CONSTANTS
  Accs = {a1, a2, a3}
  Locks = {l1}
  NoAcc = NoAcc
  Nested = FALSE
INVARIANTS TypeOK OwnerAgrees MutualExclusion PhaseInv
PROPERTIES ImplementsCriticalRegions SomeoneEnters ReleaseArrives
