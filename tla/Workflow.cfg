\* Two workers, all policies, two disturbances of any kind.
CONSTANTS
  root = root
  child = child
  Workflows = {root, child}
  NoWorkflow = NoWorkflow
  Parent <- MCParent
  Programs <- MCPrograms
  Runs <- MCRuns
  ChildPolicies = {"REQUEST_CANCEL", "TERMINATE", "ABANDON"}
  Workers = {x1, x2}
  NoWorker = NoWorker
  MaxAttempts = 2
  ExternalKinds = {"signal", "cancel", "update"}
  MaxDisturbances = 2
SPECIFICATION WorkflowSpec
INVARIANTS
  WorkflowTypeOK
  HistoriesReplay
  ClosedIsFinal
  WaitingHasReason
PROPERTY WorkflowsClose
CHECK_DEADLOCK FALSE
