\* Two phones of one tenant, a card on each, two titles: the lists change
\* under the cards, taps overlap, and either phone may be offline.
SPECIFICATION Spec
CONSTANTS
  d1 = d1
  d2 = d2
  c1 = c1
  c2 = c2
  t1 = t1
  t2 = t2
  Devices = {d1, d2}
  Cards = {c1, c2}
  DeviceOf <- TwoPhones
  Titles = {t1, t2}
  MaxTaps = 2
SYMMETRY Symmetric
INVARIANTS
  TypeOK
  IconIsTrue
