CONSTANTS
  Nick <- MCNick
  Room <- MCRoom
  Lines <- MCLines
  MaxWaiting = 3
  MaxAsked = 4
SPECIFICATION Spec
INVARIANTS
  TypeOK
  AnsweredOneByOne
  HandlersAwaited
PROPERTY
  CallbacksFire
