SPECIFICATION FairSpec
CONSTANTS
  Tabs = {t1, t2}
  Users = {u1, u2}
  Nobody = Nobody
  Slots = {s1, s2}
INVARIANT TypeOK
INVARIANT TokenWithoutUserIsChecked
INVARIANT StorageIsHeld
PROPERTY OnlyStaleChecksDisagree
PROPERTY FormComesBack
