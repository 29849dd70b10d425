SPECIFICATION FairSpec
CONSTANTS
  Fetchers = {f1, f2}
  Queries = {c1, c2}
  eth = eth
  nft = nft
  dot = dot
  Assets = {eth, nft, dot}
  Ether = eth
  NFTs = {nft}
  Wrapped = {dot}
  Units = {1, 2}
  Baskets <- MCBaskets
  MaxChanges = 1
INVARIANTS TypeOK DepositsAsGiven
PROPERTY DepositEnds
CHECK_DEADLOCK FALSE
