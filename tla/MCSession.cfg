\* A member and a courier sign up and log in on one phone, three times in all.
SPECIFICATION Spec
CONSTANTS
  m1 = m1
  c1 = c1
  none = none
  Account = {m1, c1}
  Role <- Roles
  MaxTaps = 3
  MaxEdits = 2
INVARIANTS HomeOfRole ProfilesOfRole StopsOnlyCrossed EmailsAgree
