-------------------------------- MODULE Tcc ---------------------------------
(***************************************************************************)
(* pallets/tcc: the $TCC asset.  The calls of pallet-assets are commented  *)
(* out in the code, so that the pallet's whole storage is a flag and the   *)
(* cached supply.  The ledger is what a reader of its events computes: the *)
(* balance of each account from Minted, Burned and Transferred.            *)
(***************************************************************************)
EXTENDS Integers, FiniteSetsExt

CONSTANTS
  Accounts,            \* accounts
  Root,                \* the Root origin
  InstantiateOrigin, MintOrigin, BurnOrigin,  \* origins Config accepts
  BalanceMax,          \* the largest Balance
  LedgerMax,           \* bound on the ledger of the events
  GenesisInstantiate,  \* GenesisConfig's instantiate_asset
  GenesisCachedTotal   \* GenesisConfig's cached_total

Origins  == Accounts \cup {Root}
Balances == 0..BalanceMax

\* The genesis supply is a balance, accounts are finitely many and origins are
\* told apart.
ASSUME TccConstants ==
  /\ IsFiniteSet(Accounts)
  /\ Root \notin Accounts
  /\ InstantiateOrigin \cup MintOrigin \cup BurnOrigin \subseteq Origins
  /\ {BalanceMax, LedgerMax} \subseteq Nat
  /\ GenesisInstantiate \in BOOLEAN
  /\ GenesisCachedTotal \in Balances

VARIABLES
  assetInstantiated,  \* AssetInstantiated
  cachedTotalSupply,  \* CachedTotalSupply
  ledger              \* history: account -> its balance by the events

vars == <<assetInstantiated, cachedTotalSupply, ledger>>

\* cached_total is looked at only when the asset is instantiated at genesis.
GenesisSupply == IF GenesisInstantiate THEN GenesisCachedTotal ELSE 0

Credited(to, amount) ==
  /\ ledger[to] + amount <= LedgerMax
  /\ ledger' = [ledger EXCEPT ![to] = @ + amount]

Debited(from, amount) ==
  /\ ledger[from] - amount >= -LedgerMax
  /\ ledger' = [ledger EXCEPT ![from] = @ - amount]

Init ==
  /\ assetInstantiated = GenesisInstantiate
  /\ cachedTotalSupply = GenesisSupply
  /\ ledger = [a \in Accounts |-> 0]

\* Mutant: a second instantiation resets the supply.
InstantiateAssetAgain(origin) ==
  /\ origin \in InstantiateOrigin
  /\ assetInstantiated' = TRUE
  /\ cachedTotalSupply' = 0
  /\ UNCHANGED ledger

InstantiateAsset(origin) ==
  /\ origin \in InstantiateOrigin
  /\ ~assetInstantiated
  /\ assetInstantiated' = TRUE
  /\ cachedTotalSupply' = 0
  /\ UNCHANGED ledger

\* Mutant: the sum is not checked.
MintUnchecked(origin, to, amount) ==
  /\ origin \in MintOrigin
  /\ assetInstantiated
  /\ cachedTotalSupply' = cachedTotalSupply + amount
  /\ Credited(to, amount)
  /\ UNCHANGED assetInstantiated

Mint(origin, to, amount) ==
  /\ origin \in MintOrigin
  /\ assetInstantiated
  /\ cachedTotalSupply + amount <= BalanceMax
  /\ cachedTotalSupply' = cachedTotalSupply + amount
  /\ Credited(to, amount)
  /\ UNCHANGED assetInstantiated

\* The balance of `from` is not looked at.
Burn(origin, from, amount) ==
  /\ origin \in BurnOrigin
  /\ assetInstantiated
  /\ cachedTotalSupply - amount >= 0
  /\ cachedTotalSupply' = cachedTotalSupply - amount
  /\ Debited(from, amount)
  /\ UNCHANGED assetInstantiated

\* Only the event is left of a transfer.
Transfer(who, to, amount) ==
  /\ assetInstantiated
  /\ {ledger[who] - amount, ledger[to] + amount} \subseteq -LedgerMax..LedgerMax
  /\ ledger' = [a \in Accounts |->
                  ledger[a] + (IF a = to THEN amount ELSE 0)
                            - (IF a = who THEN amount ELSE 0)]
  /\ UNCHANGED <<assetInstantiated, cachedTotalSupply>>

Next ==
  \/ \E origin \in Origins : InstantiateAsset(origin)
  \/ \E origin \in Origins, to \in Accounts, amount \in Balances :
       Mint(origin, to, amount)
  \/ \E origin \in Origins, from \in Accounts, amount \in Balances :
       Burn(origin, from, amount)
  \/ \E who, to \in Accounts, amount \in Balances : Transfer(who, to, amount)

Spec == Init /\ [][Next]_vars

-----------------------------------------------------------------------------
(* balance_of and total_supply, and properties *)

BalanceOf(who) == 0

TotalSupply == cachedTotalSupply

\* The flag and the supply keep their types: checked arithmetic leaves no
\* supply above the largest balance or below zero.
TypeOK ==
  /\ assetInstantiated \in BOOLEAN
  /\ cachedTotalSupply \in Balances
  /\ ledger \in [Accounts -> -LedgerMax..LedgerMax]

\* mint, burn, transfer and instantiate_asset: the supply is what the genesis
\* configuration set plus what the events say the accounts hold, so that no
\* call counts twice or not at all, and no instantiation resets a supply.
SupplyMatchesEvents ==
  TotalSupply = GenesisSupply + MapThenSumSet(LAMBDA a : ledger[a], Accounts)
=============================================================================
