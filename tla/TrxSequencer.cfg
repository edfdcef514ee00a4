SPECIFICATION FairTurns
CONSTANTS
  s1 = s1
  s2 = s2
  r1 = r1
  Root = Root
  Scope = {s1, s2, r1}
  KindOf <- Kinds
  MaxWrites = 2
INVARIANT TurnsTypeOK
INVARIANT ScopeAlone
INVARIANT BlocksAreAtomic
INVARIANT RoleOfItsLevel
PROPERTY EverythingRuns
