CONSTANTS
  Types = {"ppt", "docx"}
  Earlier = {{"ppt"}, {"ppt", "docx"}}
  Configs = {1, 2}
  Runs = {1, 2, 3}
  MaxFaults = 1
SPECIFICATION Spec
INVARIANTS TypeOK WorkflowKeepsModel OpenWorkflowIsPending CurrentArtifactIsLatest
  ReportMatchesRows PlanUsesPresentExperience
CHECK_DEADLOCK FALSE
