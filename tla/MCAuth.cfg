CONSTANTS
  l1 = l1  l2 = l2  l3 = l3  l4 = l4  k1 = k1  k2 = k2  s1 = s1  s2 = s2  c1 = c1  c2 = c2
  None = None
  Logins = {l1, l2, l3, l4}
  Setups = {s1, s2}
  Calls = {c1, c2}
  Followed = l4
  KeyOf <- MCKeyOf
  Limit = 2
  MaxEntries = 1
  Workers = 1
SYMMETRY Symmetry
SPECIFICATION Spec
INVARIANTS LimiterInv GuessesBounded SingleAdmin
PROPERTY SessionsEnd
