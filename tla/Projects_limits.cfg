\* Three slugs and three tokens, room for one of each, two handlers.
CONSTANTS
  Slugs = {s1, s2, s3}
  Tokens = {t1, t2, t3}
  Handlers = {h1, h2}
  MaxActive = 1
  MaxTokens = 1
SYMMETRY Symmetry
SPECIFICATION Spec
INVARIANTS
  LimitsOvershoot
