\* One CPU and three slots, so that two environments may keep a third waiting
\* (a second CPU would need a fourth); five levels of priority.
SPECIFICATION FairSpec
CONSTANTS
  CPUs = {c1}
  NENV = 3
  Initial = 3
  MAX_PRIORITY = 4
  BOOST_INTERVAL = 3
PROPERTIES
  MostImportantChosen
  OnlyBoostRaises
  NoStarvation
\* The system stops in the monitor when nothing is left to run.
CHECK_DEADLOCK FALSE
