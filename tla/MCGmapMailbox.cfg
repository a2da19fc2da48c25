SPECIFICATION Spec
CONSTANTS
  Msgs = {m1, m2}
  Tags = {"Inbox", "Unread", "Trash"}
  MaxRequests = 3
  MaxCrashes = 1
SYMMETRY Symmetric
INVARIANTS TypeOK TagsAsAcknowledged OnlyTrashIsDeleted AnswersAreExact
PROPERTIES ImplementsTagStore
CHECK_DEADLOCK FALSE
