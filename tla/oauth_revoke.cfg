\* What the comment on POST /auth/revoke promises.
SPECIFICATION OAuthSpec
CONSTANTS
  Clients = {gateway}
  Stranger = stranger
  Uris = {callback, app}
  OtherUri = elsewhere
  Codes = {c1, c2}
  Scopes = {read}
  v1 = v1
  v2 = v2
  d1 = d1
  d2 = d2
  Verifiers = {v1, v2}
  Challenges = {d1, d2}
  Derive <- MCDerive
  CodeTTL = 1
  TokenTTL = 1
  Second = 2
  MaxNow = 3
  NoCode = NoCode
INVARIANT RevokedIsRefused
