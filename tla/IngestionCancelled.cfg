SPECIFICATION Spec
CONSTANTS
  Job = {j1}
  Upload = {}
  Editor = Editor
  Events = {"rest", "mcp_cancel"}
  MaxVersion = 1
INVARIANTS CancelledLeavesStaging
