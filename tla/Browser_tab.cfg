CONSTANTS
  a1 = a1
  a2 = a2
  q1 = q1
  q2 = q2
  Accounts = {a1, a2}
  Requests = {q1, q2}
  Nobody = Nobody
  None = None
SPECIFICATION Spec
SYMMETRY Symmetry
INVARIANTS
  
  SubmissionListed
