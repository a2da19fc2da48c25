SPECIFICATION Spec
CONSTANTS
  Msgs = {m1}
  Tags = {"Inbox", "Unread", "Trash"}
  MaxRequests = 3
  MaxCrashes = 0
INVARIANTS RenameKeepsTags
CHECK_DEADLOCK FALSE
