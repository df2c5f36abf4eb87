CONSTANTS
  N = 2
  size = 2
  owner = 1
  NTests = 2
  MAX_FAULTS_PER_THREAD = 8
  UNKNOWN = UNKNOWN
  pte_x <- pteX
  pte_y <- pteY
  Tests <- fourTests
  Hafdbs = {0, 1, 2}
SPECIFICATION Spec
INVARIANTS Undisturbed BreakBeforeMake FreshTranslations LoggedPte FaultsLogged FeaturesAsAsked
