SPECIFICATION Spec
CONSTANTS
  c1 = c1
  c2 = c2
  w1 = w1
  Changing = {c1}
  Crowd = 2
  Creds = {c1}
  Workers = {w1}
  JobSlots = 1
  Period = 1
  Pending = 1
  Failure = 1
  Ineffective = 1
  MaxLag = 1
  Results = {"401", "ok"}
PROPERTY DueIsRefreshed
