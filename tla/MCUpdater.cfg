\* Three versions, two files; one write fails and two processes die in three updates.
\* It may stop: nothing starts once the launcher's file is missing.
CONSTANTS
  v1 = v1
  v2 = v2
  v3 = v3
  exe = exe
  lib = lib
  File = {exe, lib}
  Launcher = exe
  Version = {v1, v2, v3}
  None = None
  MaxAttempts = 3
  MaxFaults = 1
  MaxCrashes = 2
  Patient = TRUE
SPECIFICATION Spec
INVARIANTS TypeOK NothingChangedIsTrue RollBack
PROPERTY NoSilentMix
SYMMETRY Symmetry
CHECK_DEADLOCK FALSE
