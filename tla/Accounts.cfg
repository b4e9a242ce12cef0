SPECIFICATION Spec
CONSTANTS
  ann = ann
  bob = bob
  eve = eve
  s1 = s1
  s2 = s2
  Emails <- People
  AdminEmail = ann
  Identities <- Asserted
  Founders <- Firm
  Codes = {c1}
  Requests = {r1, r2}
  MaxUsers = 3
  MaxFlows = 2
  MaxOps = 4
  MaxUpsets = 1
SYMMETRY AnyOrder
INVARIANTS Invited DisabledStays
PROPERTIES AdminRemains IdentityKept
CHECK_DEADLOCK FALSE
