SPECIFICATION Spec
CONSTANTS
  Clients = {alice, bob}
  Pods = {p1, p2}
  Requests = {r1, r2, r3}
  NoClient = NoClient
  NoPod = NoPod
INVARIANTS
  TypeOK
  PatientClientsFollowOnePod
SYMMETRY Symmetry
CHECK_DEADLOCK FALSE
