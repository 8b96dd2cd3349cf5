SPECIFICATION TeamSpec
CONSTANTS
  TaskIds = {t1, t2}
  Agents = {a1, a2}
  Users = {u1}
  Names = {"worker"}
  Keys = {"key"}
  Absent = Absent
  Members = {"m1", "m2"}
  Tagged = {"m1"}
  UserCalls = {"user"}
  TeamCalls = {"team"}
  Slots = {1, 2}
  Schedule <- EveryMinuteAndOnce
  MaxMinute = 3
  MaxRaises = 1
  MaxEdits = 1
  Evaluators = {"loop", "cron"}
  MaxTime = 4
  Closers <- AllClosers
SYMMETRY SameCalls
CHECK_DEADLOCK FALSE
INVARIANTS BoardIsSound SenderIsTold TriggersKeepTime SweepsKeepSegmentsDisjoint
PROPERTY OnlyNamedFieldsChange
