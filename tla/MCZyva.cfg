SPECIFICATION HistFairSpec
CONSTANTS
  n_exe = 2
  N = 2
  max_run = 3
  size_of_test = 1
  existential = TRUE
  all_cpus <- cpus5
  ncpus_used = 4
  cpu_scan <- scan2
  NOUTS = 2
  Outcomes <- outcomes3
  Positive <- positive1
INVARIANTS DistinctCpus StopTogether Histogram
PROPERTY Termination
