CONSTANTS
  Handler = {h1, h2}
  Adjudicator = {a1}
  Reconciler = {}
  Sweeper = {}
  NoHandler = NoHandler
  Timings = {TRUE}
  Initial = 1
  Increment = 1
  Window = 1
  Requests = {"move","resign","offer_draw","decline_draw","accept_draw"}
  MaxPly = 2
  MaxNow = 2
  MaxFaults = 1
SPECIFICATION Spec
SYMMETRY Symmetry
INVARIANTS OfferIsFresh TypeOK FlagFollowsTheRow NoTimeIsCreated
PROPERTIES NoRepeatedOffer LifeSpec
