SPECIFICATION FairSpec
CONSTANTS
  x = x
  y = y
  gx = gx
  gy = gy
  hx = hx
  px = px
  choice = choice
  reader = reader
  sender = sender
  Chan = {x, y}
  Offer = {gx, gy, hx, px}
  Sync = {choice, reader, sender}
  Puts = {px}
  ChanOf <- MCChanOf
  Owner <- MCOwner
  Timed = {gy, reader}
  NoOffer = NoOffer
  Ok = Ok
  Fail = Fail
INVARIANTS
  OnePerSide
PROPERTIES
  Meetings
  PartnersMeet
  EveryoneTold
