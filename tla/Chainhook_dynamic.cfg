SPECIFICATION Spec
CONSTANTS
  nft = nft
  ft = ft
  sft = sft
  wrap = wrap
  n1 = n1
  n2 = n2
  f1 = f1
  s1 = s1
  s2 = s2
  w1 = w1
  owner = owner
  other = other
  a1 = a1
  a2 = a2
  a3 = a3
  b2 = b2
  c1 = c1
  c2 = c2
  d2 = d2
  Contracts = {nft, ft, sft, wrap}
  Tokens = {n1, n2, f1, s1, s2, w1}
  Blocks = {a1, a2, a3}
  Transactions <- TwoTransactions
  Chains <- TwoChains
  MaxFaults = 0
  Abi <- MCAbi
  Principals = {owner, other}
  Deployer <- MCDeployer
  ContractOf <- MCContractOf
  TokenOne <- MCTokenOne
  Huge = {w1}
  Importable = {}
  Height <- MCHeight
  Null = Null
CHECK_DEADLOCK FALSE
INVARIANTS NothingBlocksIngestion
