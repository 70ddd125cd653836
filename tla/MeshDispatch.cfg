CONSTANTS
  Packets = {1, 2}
  None = None
  Public = {pub}
  Direct = {dir}
  Other = {req, adv, oth}
  Asking = {req}
  Adverts = {adv}
  RingSize = 1
  History = 2
  MaxSends = 1
  MaxHeard = 2
SPECIFICATION FairSpec
INVARIANTS PoolConserved OutboundIsOnAir ReportIsOurs ShownOnce
PROPERTIES DirectIsShown
