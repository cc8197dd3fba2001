SPECIFICATION MCSpec
CONSTANTS
  ta = ta  tb = tb  none = none  x1 = x1  x2 = x2  s1 = s1  s2 = s2  s3 = s3
  r1 = r1  r2 = r2  r3 = r3  r4 = r4  u1 = u1  a1 = a1  p1 = p1  all = all
  Decided <- MCDecided
  Outcome = {"approve", "block"}
  MaxOverrides = 2
  Explainers <- MCExplainers
  Channels <- MCChannels
  Senders <- MCSenders
  Limit = 2
  Window = 3
  MaxCount = 6
  Rows <- MCRows
  Places <- MCPlaces
  Sizes <- MCSizes
  MaxPage = 2
  Users <- MCUsers
  Tenants <- MCTenants
  Roles <- MCRoles
  Actions <- MCActions
  AnyTenant = none
  Calls <- MCCalls
  MaxTokens = 1
SYMMETRY MCSymmetry
INVARIANTS TypeOK TornOnlyWhenRaced RateWindowBounded WalksMissNothing AllowedIsCurrent
