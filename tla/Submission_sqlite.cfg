SPECIFICATION Spec
CONSTANTS
  a1 = a1
  a2 = a2
  v1 = v1
  Applications <- OneApplication
  Vacancies = {v1}
  VacancyOf <- SameVacancy
  ManualResume = {}
  Tokens = {t1, t2}
  Handlers = {h1, h2}
  Reconciler = job
  None = None
  DemoMode = FALSE
  RowLocks = FALSE
  ActiveGuard = FALSE
  UserTargets = {"rejected"}
  MaxAttempts = 1
  MaxCrashes = 0
SYMMETRY Symmetry
INVARIANTS
  TypeOK
  LeasesAreExclusive
  OnePostPerConfirmation
  SubmittedIsTrue
PROPERTIES
  SubmittedWithLifecycle
  SourceIsKept
