SPECIFICATION Spec
CONSTANTS
  Handler = {h1, h2}
  Connection = {c1}
  None = None
  MaxNumbers = 5
INVARIANTS TypeOK WritesOwnBuffer OwnAnswer
