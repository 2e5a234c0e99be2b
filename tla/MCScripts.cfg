CONSTANTS
  trigger = trigger
  n1 = n1
  n2 = n2
  Waiters <- MCWaiters
  Names <- MCNames
  Uses <- MCUses
  Events = {e1, e2}
  MailboxSize = 2
  Texts = {empty, t1}
  Empty = empty
  Places <- MCPlaces
  MaxListed = 2
  MaxErrors = 1
  NoName = noname
  NoText = notext
  NoScript = noscript
  NoEvent = noevent
  Nobody = nobody
SPECIFICATION Spec
SYMMETRY MCSymmetry
INVARIANTS
  OwnResult
  EventsConserved
  ListIsStored
PROPERTIES
  LostWithTheName
