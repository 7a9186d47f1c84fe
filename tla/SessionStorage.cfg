\* Two storages, in memory or on one file, two peers; a key, a value and a
\* username with a NUL in them, and a username that begins with one.
CONSTANTS
  k = k
  kNul = kNul
  v = v
  vNul = vNul
  n = n
  nNul = nNul
  startsNul = startsNul
  Storage = {s1, s2}
  File = File
  Key = {k, kNul}
  Value = {v, vNul}
  PeerId = {p1, p2}
  Name = {n, nNul, startsNul, NoName}
  NoName = NoName
  None = None
  CStr <- MCCStr
  MaxCalls = 5
SPECIFICATION Spec
INVARIANTS
  TypeOK
  LookupByName
PROPERTIES
  ImplementsStore
\* The application has made its calls.
CHECK_DEADLOCK FALSE
