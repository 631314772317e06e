\* One mktexlsr that nobody stops, one maker.
CONSTANTS
  u1 = u1
  u2 = u2
  m1 = m1
  m2 = m2
  f = f
  Gone = Gone
  Updaters = {u1}
  Makers = {m1}
  Fonts = {f}
  MaySignal = FALSE
SPECIFICATION LsRSpec
INVARIANT
  Coordinated
