SPECIFICATION Spec
CONSTANTS
  Job = {j1, j2}
  Upload = {}
  Editor = Editor
  Events = {"rest", "mcp", "chat", "edit", "rest_cancel", "mcp_cancel", "wall_clock", "fault", "restart"}
  MaxVersion = 2
SYMMETRY JobSymmetry
INVARIANTS ImportedMeansCommitted OnlyStopsHideImports
PROPERTIES ImportFollowsItsRead OutcomesStand
