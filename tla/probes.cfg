\* Cron runs over more than a short year, which no search spans, beside services of
\* every kind, with a cache of one.
CONSTANTS
  MinutesPerHour = 2
  HoursPerDay = 2
  DaysPerMonth = 3
  MonthsPerYear = 2
  DaysPerWeek = 2
  cronSearchCap = 20
  NoTime = NoTime
  Shortcut = Shortcut
  None = None
  unit = unit
  web = web
  webd = webd
  ctr = ctr
  pod = pod
  box = box
  guest = guest
  timer = timer
  Crontabs <- McCrontabs
  Kind <- McKind
  Namesakes <- McNamesakes
  Cron = Cron
  Registrations <- McRegistrations
  maxCacheEntries = 1
  MaxClock = 30
  MaxCPU = 2
  MaxRuns = 3
SPECIFICATION Spec
CHECK_DEADLOCK FALSE
INVARIANTS
  TypeOK
  TriggeredExact
PROPERTIES
  CronExact
  RateSound
