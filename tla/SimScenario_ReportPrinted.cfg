CONSTANTS
  BehaviorFiles <- MCBehaviorFiles
  Scenarios = {s1, s2}
SPECIFICATION ScenSpec
PROPERTY ReportPrinted
