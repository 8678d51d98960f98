CONSTANTS
  Reverb = TRUE
  Starts = {s1, s2}
  Texts = {t1}
  Replies = {a1}
  OperatorStatuses = {"closed"}
  MaxConversations = 2
SPECIFICATION Spec
CHECK_DEADLOCK FALSE
INVARIANTS
  TypeOK
  NoMessageTwice
  StoredOnce
  OneConversationShown
PROPERTIES
  ShownStaysShown
  LoadingEnds
  ReplyReachesSubscriber
