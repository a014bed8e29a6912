CONSTANTS
  Players = {p, q}
  Requests = {r1, r2}
  Handlers = {h1, h2}
  NoPlayer = NoPlayer
  NoRequest = NoRequest
  Challenges = {c1}
  NoChallenge = NoChallenge
SYMMETRY Alike
SPECIFICATION Spec
INVARIANTS ChallengeTypeOK AnswersAreWhole BlockKeepsApart CacheIsTrue
