\* Two mktexlsr that may be stopped, two makers of one font.
CONSTANTS
  u1 = u1
  u2 = u2
  m1 = m1
  m2 = m2
  f = f
  Gone = Gone
  Updaters = {u1, u2}
  Makers = {m1, m2}
  Fonts = {f}
  MaySignal = TRUE
SPECIFICATION LsRSpec
INVARIANTS
  NeverTorn
  PrintedThere
  ListedThere
PROPERTIES
  BrieflyGone
  NeverForgotten
