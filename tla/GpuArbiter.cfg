\* A chat session, two drafts and a reviewer; four events among them.
SPECIFICATION Spec
CONSTANTS
  chat = chat
  draft1 = draft1
  draft2 = draft2
  reviewer = reviewer
  Procs <- MCProcs
  Rank <- MCRank
  Placing = {chat}
  Outside = {reviewer}
  Nobody = Nobody
  MaxEvents = 4
INVARIANTS TypeOK Precedence ShownHolds
PROPERTY WaitsEnd
\* The events are used up.
CHECK_DEADLOCK FALSE
