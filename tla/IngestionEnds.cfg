SPECIFICATION FairSpec
CONSTANTS
  Job = {j1, j2}
  Upload = {u1}
  Editor = Editor
  Events = {"rest", "chat", "edit", "wall_clock"}
  MaxVersion = 1
PROPERTIES JobsEnd UploadsStay
