------------------------------ MODULE TccProofs -----------------------------
(* Theorems about Tcc, for every value of its constants. *)
EXTENDS Tcc, NumberLemmas, TLAPS

\* The bounds are natural numbers.
LEMMA ConstantTypes == BalanceMax \in Nat /\ LedgerMax \in Nat
BY TccConstants

\* The genesis configuration sets them within their types.
LEMMA InitType == Init => TypeOK
BY ConstantTypes, TccConstants DEF Init, GenesisSupply, TypeOK, Balances

\* Every call keeps the flag, the supply and the ledger within their types.
LEMMA TypeStep == TypeOK /\ [Next]_vars => TypeOK'
<1> SUFFICES ASSUME TypeOK, [Next]_vars PROVE TypeOK'
  OBVIOUS
<1>1. ASSUME NEW origin \in Origins, InstantiateAsset(origin) PROVE TypeOK'
  BY <1>1, ConstantTypes DEF InstantiateAsset, TypeOK, Balances
<1>2. ASSUME NEW origin \in Origins, NEW to \in Accounts,
             NEW amount \in Balances, Mint(origin, to, amount)
      PROVE  TypeOK'
  <2>1. ledger[to] + amount \in -LedgerMax..LedgerMax
    BY <1>2, ConstantTypes DEF Mint, Credited, TypeOK, Balances
  <2>2. QED
    BY <1>2, <2>1, ConstantTypes DEF Mint, Credited, TypeOK, Balances
<1>3. ASSUME NEW origin \in Origins, NEW from \in Accounts,
             NEW amount \in Balances, Burn(origin, from, amount)
      PROVE  TypeOK'
  <2>1. ledger[from] - amount \in -LedgerMax..LedgerMax
    BY <1>3, ConstantTypes DEF Burn, Debited, TypeOK, Balances
  <2>2. QED
    BY <1>3, <2>1, ConstantTypes DEF Burn, Debited, TypeOK, Balances
<1>4. ASSUME NEW who \in Accounts, NEW to \in Accounts,
             NEW amount \in Balances, Transfer(who, to, amount)
      PROVE  TypeOK'
  <2>1. ASSUME NEW a \in Accounts PROVE ledger'[a] \in -LedgerMax..LedgerMax
    <3>1. /\ ledger[a] \in -LedgerMax..LedgerMax
          /\ ledger[who] - amount \in -LedgerMax..LedgerMax
          /\ ledger[to] + amount \in -LedgerMax..LedgerMax
          /\ amount \in Int /\ ledger[a] \in Int
      BY <1>4, ConstantTypes DEF Transfer, TypeOK, Balances
    <3>2. ledger'[a] = ledger[a] + (IF a = to THEN amount ELSE 0)
                                 - (IF a = who THEN amount ELSE 0)
      BY <1>4 DEF Transfer
    <3>3. QED
      BY <3>1, <3>2
  <2>2. ledger' \in [Accounts -> -LedgerMax..LedgerMax]
    BY <1>4, <2>1 DEF Transfer
  <2>3. QED
    BY <1>4, <2>2 DEF Transfer, TypeOK
<1>5. CASE UNCHANGED vars
  BY <1>5 DEF vars, TypeOK
<1>6. QED
  BY <1>1, <1>2, <1>3, <1>4, <1>5 DEF Next

\* mint and burn: checked arithmetic keeps the cached supply a balance, never
\* above the largest one and never below zero, from any genesis configuration.
THEOREM TccTypes == Spec => []TypeOK
BY InitType, TypeStep, PTL DEF Spec

-----------------------------------------------------------------------------
\* What the events say the accounts hold together.
HeldByEvents == Total(ledger, Accounts)

\* SupplyMatchesEvents is about that sum.
LEMMA SupplyIsHeld ==
  SupplyMatchesEvents <=> cachedTotalSupply = GenesisSupply + HeldByEvents
BY DEF SupplyMatchesEvents, TotalSupply, HeldByEvents, MapThenSumSet,
       MapThenFoldSet, Total, Sums, Unfolded, Taken, Left

\* Accounts are finitely many; balances and the ledger's entries are integers.
LEMMA LedgerTypes ==
  ASSUME TypeOK
  PROVE  /\ IsFiniteSet(Accounts)
         /\ ledger \in [Accounts -> Int]
         /\ cachedTotalSupply \in Int
         /\ Balances \subseteq Int
         /\ GenesisSupply \in Int
         /\ HeldByEvents \in Int
<1>1. /\ IsFiniteSet(Accounts)
      /\ ledger \in [Accounts -> Int]
      /\ cachedTotalSupply \in Int
      /\ Balances \subseteq Int
      /\ GenesisSupply \in Int
  BY ConstantTypes, TccConstants DEF TypeOK, Balances, GenesisSupply
<1>2. HeldByEvents \in Int
  BY <1>1, SumsType DEF HeldByEvents, Total
<1>3. QED
  BY <1>1, <1>2

\* The ledger after a step, entry by entry, gives what is held after it.
LEMMA HeldMoves ==
  ASSUME TypeOK, TypeOK', NEW p \in Accounts, NEW q \in Accounts,
         NEW d \in Int, NEW e \in Int,
         \A a \in Accounts :
           ledger'[a] = ledger[a] + (IF a = p THEN d ELSE 0)
                                  - (IF a = q THEN e ELSE 0)
  PROVE  HeldByEvents' = HeldByEvents + d - e
<1>1. PICK l : l = ledger
  OBVIOUS
<1>2. PICK m : m = ledger'
  OBVIOUS
<1>3. IsFiniteSet(Accounts) /\ l \in [Accounts -> Int] /\ m \in [Accounts -> Int]
  BY <1>1, <1>2, LedgerTypes, ConstantTypes DEF TypeOK
<1>4. \A a \in Accounts : m[a] = l[a] + (IF a = p THEN d ELSE 0)
                                      - (IF a = q THEN e ELSE 0)
  BY <1>1, <1>2
<1>5. Total(m, Accounts) = Total(l, Accounts) + d - e
  BY <1>3, <1>4, SumMoves
<1>6. QED
  BY <1>1, <1>2, <1>5 DEF HeldByEvents

\* Every call moves the supply by what its event says.
LEMMA SupplyStep ==
  ASSUME TypeOK, TypeOK', [Next]_vars,
         cachedTotalSupply = GenesisSupply + HeldByEvents,
         ~assetInstantiated => cachedTotalSupply = 0
  PROVE  /\ cachedTotalSupply' = GenesisSupply + HeldByEvents'
         /\ ~assetInstantiated' => cachedTotalSupply' = 0
<1> USE LedgerTypes
<1>1. ASSUME NEW origin \in Origins, InstantiateAsset(origin)
      PROVE  /\ cachedTotalSupply' = cachedTotalSupply
             /\ assetInstantiated' /\ ledger' = ledger
  BY <1>1 DEF InstantiateAsset
<1>2. ASSUME NEW origin \in Origins, NEW to \in Accounts,
             NEW amount \in Balances, Mint(origin, to, amount)
      PROVE  /\ cachedTotalSupply' = GenesisSupply + HeldByEvents'
             /\ assetInstantiated'
  <2> PICK zero \in Int : zero = 0
    OBVIOUS
  <2>1. \A a \in Accounts : ledger'[a] = ledger[a] + (IF a = to THEN amount ELSE 0)
                                          - (IF a = to THEN zero ELSE 0)
    BY <1>2 DEF Mint, Credited
  <2>2. amount \in Int /\ HeldByEvents' = HeldByEvents + amount - zero
    BY <2>1, HeldMoves
  <2>3. cachedTotalSupply' = cachedTotalSupply + amount /\ assetInstantiated'
    BY <1>2 DEF Mint
  <2>4. QED
    BY <2>2, <2>3
<1>3. ASSUME NEW origin \in Origins, NEW from \in Accounts,
             NEW amount \in Balances, Burn(origin, from, amount)
      PROVE  /\ cachedTotalSupply' = GenesisSupply + HeldByEvents'
             /\ assetInstantiated'
  <2> PICK zero \in Int : zero = 0
    OBVIOUS
  <2>1. \A a \in Accounts : ledger'[a] = ledger[a] + (IF a = from THEN zero ELSE 0)
                                          - (IF a = from THEN amount ELSE 0)
    BY <1>3 DEF Burn, Debited
  <2>2. amount \in Int /\ HeldByEvents' = HeldByEvents + zero - amount
    BY <2>1, HeldMoves
  <2>3. cachedTotalSupply' = cachedTotalSupply - amount /\ assetInstantiated'
    BY <1>3 DEF Burn
  <2>4. QED
    BY <2>2, <2>3
<1>4. ASSUME NEW who \in Accounts, NEW to \in Accounts,
             NEW amount \in Balances, Transfer(who, to, amount)
      PROVE  /\ cachedTotalSupply' = GenesisSupply + HeldByEvents'
             /\ assetInstantiated'
  <2>1. \A a \in Accounts : ledger'[a] = ledger[a] + (IF a = to THEN amount ELSE 0)
                                          - (IF a = who THEN amount ELSE 0)
    BY <1>4 DEF Transfer
  <2>2. amount \in Int /\ HeldByEvents' = HeldByEvents + amount - amount
    BY <2>1, HeldMoves
  <2>3. cachedTotalSupply' = cachedTotalSupply /\ assetInstantiated'
    BY <1>4 DEF Transfer
  <2>4. QED
    BY <2>2, <2>3
<1>5. ledger' = ledger => HeldByEvents' = HeldByEvents
  BY DEF HeldByEvents
<1>6. CASE UNCHANGED vars
  BY <1>5, <1>6 DEF vars
<1>7. QED
  BY <1>1, <1>2, <1>3, <1>4, <1>5, <1>6 DEF Next

\* mint, burn, transfer and instantiate_asset: for any accounts and any genesis
\* configuration, the cached supply is the genesis supply plus what the events
\* say the accounts hold.
THEOREM TccSupplyMatchesEvents == Spec => []SupplyMatchesEvents
<1> DEFINE Inv == /\ TypeOK
                  /\ cachedTotalSupply = GenesisSupply + HeldByEvents
                  /\ ~assetInstantiated => cachedTotalSupply = 0
<1>1. Init => Inv
  <2> SUFFICES ASSUME Init PROVE Inv
    OBVIOUS
  <2>1. TypeOK
    BY InitType
  <2>2. HeldByEvents = 0
    BY TccConstants, SumOfZeros DEF Init, HeldByEvents
  <2>3. QED
    BY <2>1, <2>2, LedgerTypes DEF Init, GenesisSupply
<1>2. Inv /\ [Next]_vars => Inv'
  BY TypeStep, SupplyStep
<1>3. Inv => SupplyMatchesEvents
  BY SupplyIsHeld
<1>4. QED
  BY <1>1, <1>2, <1>3, PTL DEF Spec
=============================================================================
