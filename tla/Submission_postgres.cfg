SPECIFICATION FairSpec
CONSTANTS
  a1 = a1
  a2 = a2
  v1 = v1
  Applications <- OneApplication
  Vacancies = {v1}
  VacancyOf <- SameVacancy
  ManualResume = {}
  Tokens = {t1}
  Handlers = {h1, h2}
  Reconciler = job
  None = None
  DemoMode = FALSE
  RowLocks = TRUE
  ActiveGuard = TRUE
  UserTargets = {"hidden", "viewed"}
  MaxAttempts = 2
  MaxCrashes = 1
INVARIANTS
  ConnectionFailureIsTrue
PROPERTIES
  ApplicationIsNotHidden
  ImplementsContract
  NoSubmissionIsStuck
  LegacyRowsAreRepaired
