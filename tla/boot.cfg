SPECIFICATION FairSpec
CONSTANTS
  Tasks = {t1, t2, t3}
  NoTask = NoTask
INVARIANTS OneCreator SchemaBeforeService LockNotKept
PROPERTIES TaskBoots
