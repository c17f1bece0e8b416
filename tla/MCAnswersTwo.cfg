CONSTANTS
  Nick <- MCNick
  Room <- MCRoom
  Lines <- MCLines
  MaxWaiting = 2
  MaxAsked = 2
SPECIFICATION Spec
INVARIANTS
  AnsweredAsAsked
