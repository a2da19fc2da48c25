SPECIFICATION Spec
CONSTANTS
  s1 = s1
  s2 = s2
  alice = alice
  bob = bob
  dev = dev
  news = news
  post1 = post1
  post2 = post2
  Servers <- TwoServers
  Addresses <- TheAddresses
  Mailboxes <- TheMailboxes
  Lists <- TheLists
  ServerOf <- ServerOfAddress
  Identity <- IdentityOf
  Blocked <- AliceBlocksNews
  Archives = {s1}
  Interval = 1
  Posts <- ByOthers
  Subscriptions <- Crossed
  Absences <- SomeAway
  Changing = {alice}
  MaxTime = 1
  MaxPosts = 2
  MaxEvents = 1
INVARIANTS TypeOK ChainsAreShort  RepliesAreSpaced ForwardsGoToSubscribers
CHECK_DEADLOCK FALSE
