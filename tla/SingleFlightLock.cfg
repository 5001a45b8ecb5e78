\* A node lane and a bash reviewer, and two chats of the dashboard.
CONSTANTS
  worker = worker
  reviewer = reviewer
  chat = chat
  chat2 = chat2
  Nobody = Nobody
  Lanes <- MCLanes
  Chats <- MCChats
  Inheriting <- MCBash
  MaxDepth = 2
SPECIFICATION FairSpec
INVARIANTS TypeOK MutualExclusion HandlesKeepTheLock NoTicketLeft FifoService
PROPERTIES ImplementsMutex LanesServedOnceChatsRest
CHECK_DEADLOCK FALSE
