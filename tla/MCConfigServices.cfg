SPECIFICATION MCSpec
CONSTANTS
  t1 = t1  r1 = r1  c1 = c1  c2 = c2  w1 = w1  w2 = w2  b1 = b1
  p1 = p1  allow = allow  s1 = s1  s2 = s2  f1 = f1  f2 = f2  q1 = q1
  Tenants <- MCTenants
  Rules <- MCRules
  Contents <- MCContents
  Templates <- MCTemplates
  Transitions <- MCTransitions
  RuleSets <- MCRuleSets
  WorkflowTemplates <- MCWorkflowTemplates
  Writers <- MCWriters
  Readers <- MCReaders
  Queries <- MCQueries
  MaxVersion = 3
  Expressions <- MCExpressions
  Height <- MCHeight
  RuleLists <- MCRuleLists
  Payments <- MCPayments
  Parsed <- MCParsed
  Within <- MCWithin
  MaxExact <- MCMaxExact
  MaxExponent <- MCMaxExponent
INVARIANTS TypeOK ArchiveIsTrue SupersededArchived StaleOnlyWhenRaced TearsLookForward CachedConfigWasInForce ErrorsNeverFlip ComparisonsKeepOrder SeverestMatchWins
CHECK_DEADLOCK FALSE
PROPERTY CachesSettle
