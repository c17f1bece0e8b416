CONSTANTS
  Nick = {n1, n2}
  MaxRequests = 3
  MaxChanges = 2
  MaxSent = 2
  Text = {t1}
  NoText = NoText
  ModeArgs <- MCModeArgs
SYMMETRY NickSymmetry
SPECIFICATION ContactsSpec
INVARIANTS
  TypeOK
  ListedIsShown
  ModesAddUp
  StatusIsServers
  OwnStatusAgrees
