SPECIFICATION FairSpec
CONSTANTS
  Tokens = {t1, t2}
  Requests = {r1, r2}
  TTL = 1
  MaxSpentTombstones = 1
  MaxTime = 2
INVARIANTS
  TypeOK
  SpentInSync
  WorkEnteredOnce
PROPERTIES
  OldestForgottenFirst
  LinksKeepTheirPromise
  ExpiredItemsAreReaped
