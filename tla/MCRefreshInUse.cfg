\* Two accounts; nobody asks for a refresh, and a game uses an account once.
SPECIFICATION Spec
CONSTANTS
  Account = {a1, a2}
  NoAccount = NoAccount
  MaxRequests = 0
  MaxUses = 1
PROPERTIES GamesAreSpared
