SPECIFICATION FairSpec
CONSTANTS
  me = me
  other = other
  h1 = h1
  h2 = h2
  p1 = p1
  p2 = p2
  f1 = f1
  user = user
  lower = lower
  upper = upper
  rx = rx
  NoUser = NoUser
  Self = me
  Handler = {h1, h2}
  Post = {p1, p2}
  Foreign = {f1}
  From <- Senders
  ChannelOf <- Places
  Author <- Authors
  Name = {lower, upper}
  Lower <- LowerCase
  Valid = {lower}
  MaxSyncs = 1
  MaxFaults = 1
INVARIANTS CountsHold NumbersInOrder AnswersHold
PROPERTIES LockGivenBack
