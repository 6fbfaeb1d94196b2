SPECIFICATION Spec
CONSTANTS
  t1 = t1
  t2 = t2
  t3 = t3
  nop = nop
  ghost = ghost
  s1 = s1
  s2 = s2
  junk = junk
  None = None
  Teams = {t1, t2, t3, nop}
  Nop = nop
  Services = {s1, s2}
  Flags <- MCFlags
  Garbage = {junk}
  Offers <- AllOffers
  Retention = 1
  Cap = 2
  MaxTick = 2
  Reqs = {r1, r2}
SYMMETRY Symmetry
INVARIANTS NoUniqueClash CapOnCurrentFlags SomeoneGoesOn
PROPERTY LedgerKept
