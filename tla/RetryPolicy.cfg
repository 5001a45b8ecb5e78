\* One gate that can be wrong, one triage bucket, people act once.
SPECIFICATION Spec
CONSTANTS
  Gates = {"stale-premise"}
  Buckets = {"K"}
  MaxHands = 1
INVARIANTS TypeOK DraftBudget
PROPERTIES DraftsEnd 
\* A task that is done, or waits for a person, or stays in blocked/ with a note, rests.
CHECK_DEADLOCK FALSE
