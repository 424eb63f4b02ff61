SPECIFICATION Spec
CONSTANTS
  Manifests = {m1, m2}
  Attempts = 2
  MaxCAs = 2
  MaxLines = 4
  None = None
  Torn = Torn
SYMMETRY Symmetry
INVARIANTS ShownIsAttested TrustedIsTraceable
PROPERTIES ResultIsDeserved
