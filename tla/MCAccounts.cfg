\* Two accounts; the user asks for two refreshes, and a game uses an account once.
SPECIFICATION FairSpec
CONSTANTS
  Account = {a1, a2}
  NoAccount = NoAccount
  MaxRequests = 2
  MaxUses = 1
INVARIANTS TypeOK ScheduleAlive ActivityCovers
PROPERTIES QueuedIsServed
