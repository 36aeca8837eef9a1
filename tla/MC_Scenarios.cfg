\* main.c with three processes and one key: creators with kills, creators
\* and openers without kills, and two rounds of creators without kills.
\* MaxSets = 2 lets a removed set be created again under a new id.
CONSTANTS
  Procs = {p1, p2, p3}
  Keys = {k1}
  SEMKEY = k1
  BIGCOUNT = 10000
  MaxSets = 2
SPECIFICATION Spec
INVARIANT TypeOK RefcountExact NoPrematureRemove SeqnoExclusive
PROPERTY Termination RefinesRefSem
