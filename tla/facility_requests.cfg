SPECIFICATION FairSpec
CONSTANTS
  i1 = i1  i2 = i2  i3 = i3  r1 = r1  r2 = r2  c1 = c1  c2 = c2  e1 = e1
  None = None
  Ids = {i1, i2}
  Reqs = {r1, r2}
  Contacts = {c1}
  Actors = {"staff"}
  Events = {e1}
  Drafts <- RequestDrafts
  Prices <- FreePrices
  Configs <- RequestConfigs
PROPERTIES RequestsAnswered
CHECK_DEADLOCK FALSE
