CONSTANTS
  Tasks = {t1, t2}
  InitialItems <- RunItems
  InitialContents = {"v1", "missing"}
  NewUids = {"n"}
  SwitchTo = {"a", "b"}
  Deletable = {"c"}
  Reordered <- RunReordered
  Commands = {"switch", "create", "delete", "reorder", "update", "auto", "save_file", "patch_restart", "patch_reload", "restart", "chain", "import", "quit"}
  MaxCommands = 2
  MaxFaults = 1
SPECIFICATION FairSpec
INVARIANTS
  ListIsSound
  RunningIsCurrent
PROPERTY SwitchReturns
