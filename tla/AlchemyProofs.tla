--------------------------- MODULE AlchemyProofs ----------------------------
(***************************************************************************)
(* Proofs about Alchemy, for every set of accounts and for any number of   *)
(* handlers that run at the same time and fail anywhere.                   *)
(*                                                                         *)
(* What a handler wrote long ago may be gone, but what it holds in hand is *)
(* always enough for its next step: the balance it read covers the amount  *)
(* it debits, and the pool it draws from has a depositor.  The last part   *)
(* is about the $POL: the pool is what its depositors paid in, a lone      *)
(* handler neither makes nor loses any, and what it does are the atomic    *)
(* steps of PoolLedger.                                                    *)
(***************************************************************************)
EXTENDS Alchemy, Integers, SequenceTheorems, FiniteSetTheorems, WellFoundedInduction, TLAPS

AccountRecords == [balance : Nat, coins : SUBSET CoinIds]

(* The pool is empty, or somebody has paid into it.                        *)
HasDepositor(p) == p.amount > 0 => \E a \in Accounts : p.depositors[a] > 0

FundedPools == {p \in Pools : HasDepositor(p)}

(* The pools an alchemy may burn.                                          *)
FullPools == {p \in FundedPools : p.amount >= Target}

(* One to six winners.                                                     *)
Draws == {w \in Seq(Accounts) : Len(w) \in 1 .. Len(Prizes)}

(* What a handler holds at each of its steps.                              *)
Depositing(r) ==
    /\ r.from \in Accounts /\ r.amount \in Amounts /\ r.pool \in FundedPools

Minter(r) ==
    /\ r.pool \in FullPools
    /\ r.base \in Nat /\ r.winners \in Draws

HandlerOK(r) ==
    /\ r.at \in {"idle", "account", "debit", "credit", "check", "draw",
                 "mint", "winner", "award", "count", "reset", "record"}
    /\ r.at \in {"account", "debit", "credit"} => Depositing(r)
    /\ r.at = "debit" =>
          r.read \in AccountRecords /\ r.amount <= r.read.balance
    /\ r.at = "draw" => r.pool \in FullPools
    /\ r.at \in {"mint", "winner", "award", "count", "reset", "record"} =>
          Minter(r)
    /\ r.at \in {"mint", "winner", "award"} => r.next \in 1 .. Len(r.winners)
    /\ r.at = "award" => r.read \in AccountRecords

HInv ==
    /\ TypeOK
    /\ pool \in FundedPools
    /\ DOMAIN handler = Handlers
    /\ \A h \in Handlers : HandlerOK(handler[h])

-----------------------------------------------------------------------------
(* What the draw and the coin numbers are made of.                         *)

(* A draw from a pool with a depositor has one to six winners, all of them *)
(* accounts (select_alchemy_winners).                                      *)
LEMMA WinnersType ==
    ASSUME NEW d \in [Accounts -> Nat], \E a \in Accounts : d[a] > 0,
           NEW w \in Winners(d)
    PROVE  w \in Draws
<1> DEFINE D == {a \in Accounts : d[a] > 0}
           k == Min({Len(Prizes), Cardinality(D)})
<1>1. IsFiniteSet(D) /\ D # {}
  BY AccountsAssumption, FS_Subset
<1>2. Cardinality(D) \in Nat /\ Cardinality(D) # 0
  BY <1>1, FS_CardinalityType, FS_EmptySet
<1>3. Len(Prizes) = 6
  BY DEF Prizes
<1>4. k \in 1 .. 6
  <2> HIDE DEF D
  <2>1. \E x \in {6, Cardinality(D)} :
           \A y \in {6, Cardinality(D)} : x <= y
    BY <1>2
  <2>2. k \in {6, Cardinality(D)} /\ k <= 6
    BY <1>3, <2>1 DEF Min
  <2>3. QED
    BY <1>2, <2>2
<1>5. w \in [1 .. k -> D]
  BY DEF Winners, Injection
<1> HIDE DEF k
<1>6. w \in [1 .. k -> Accounts]
  BY <1>5
<1>7. w \in Seq(Accounts) /\ Len(w) = k
  BY <1>4, <1>6
<1>8. QED
  BY <1>3, <1>4, <1>7 DEF Draws

(* The coin of a winner is a well-formed coin.                             *)
LEMMA CoinIdType ==
    ASSUME NEW w \in Draws, NEW i \in 1 .. Len(w), NEW base \in Nat
    PROVE  CoinId(i, base) \in CoinIds /\ w[i] \in Accounts
<1>1. i \in 1 .. 6 /\ Len(Prizes) = 6
  BY DEF Draws, Prizes
<1>2. Prizes[i] \in {"Gold", "Silver", "Bronze"}
  <2>1. i \in {1, 2, 3, 4, 5, 6}
    BY <1>1
  <2>2. QED
    BY <2>1 DEF Prizes
<1>3. base + i \in Nat \ {0}
  BY <1>1
<1>4. w[i] \in Accounts
  BY DEF Draws
<1>5. QED
  BY <1>2, <1>3, <1>4 DEF CoinId, CoinIds

(* A new pool is empty.                                                    *)
LEMMA NewPoolType ==
    ASSUME NEW id \in Seconds
    PROVE  NewPool(id) \in FundedPools
BY DEF NewPool, FundedPools, Pools, HasDepositor

(* A pool with a deposit on top has a depositor.                           *)
LEMMA CreditType ==
    ASSUME NEW p \in FundedPools, NEW a \in Accounts, NEW x \in Amounts
    PROVE  [p EXCEPT !.amount = @ + x, !.depositors = [p.depositors EXCEPT ![a] = @ + x]] \in FundedPools
<1> DEFINE q == [p EXCEPT !.amount = @ + x, !.depositors = [p.depositors EXCEPT ![a] = @ + x]]
           D == [p.depositors EXCEPT ![a] = @ + x]
           n == p.amount + x
<1>1. x \in Nat /\ x > 0
  BY AmountsAssumption
<1>2. p \in Pools /\ p.amount \in Nat /\ p.depositors \in [Accounts -> Nat]
  BY DEF FundedPools, Pools
<1>3. D \in [Accounts -> Nat] /\ D[a] = p.depositors[a] + x /\ n \in Nat
  BY <1>1, <1>2
<1>4. q = [p EXCEPT !.amount = n, !.depositors = D]
  OBVIOUS
<1> HIDE DEF D, n, q
<1>5. q \in Pools /\ q.depositors[a] = p.depositors[a] + x
  BY <1>2, <1>3, <1>4 DEF Pools
<1>6. p.depositors[a] + x > 0
  BY <1>1, <1>2
<1>7. q \in FundedPools
  BY <1>5, <1>6 DEF FundedPools, HasDepositor
<1>8. QED
  BY <1>7 DEF q

-----------------------------------------------------------------------------
(* Every step keeps the invariant.                                         *)

(* The invariant holds again when the storage is well typed and the one    *)
(* handler that took the step is well formed.                              *)
LEMMA StepOK ==
    ASSUME HInv, NEW h \in Handlers, NEW r, Set(h, r), HandlerOK(r),
           TypeOK', pool' \in FundedPools
    PROVE  HInv'
<1>1. /\ DOMAIN handler' = Handlers
      /\ \A i \in Handlers : handler'[i] = IF i = h THEN r ELSE handler[i]
  BY DEF HInv, Set
<1>2. \A i \in Handlers : HandlerOK(handler'[i])
  BY <1>1 DEF HInv
<1>3. QED
  BY <1>1, <1>2 DEF HInv

(* A handler may always be back at its start.                              *)
LEMMA IdleOK == HandlerOK(Idle)
BY DEF HandlerOK, Idle

(* The steps of a deposit.                                                 *)
LEMMA DepositOK ==
    ASSUME HInv, NEW h \in Handlers,
           ReadPool(h) \/ ReadAccount(h) \/ Debit(h) \/ Credit(h) \/ Check(h)
    PROVE  HInv'
<1>1. TypeOK /\ pool \in FundedPools /\ HandlerOK(handler[h])
  BY DEF HInv
<1>2. UNCHANGED <<account, pool, counter, minted, history, failures, replaced>>
        => TypeOK' /\ pool' \in FundedPools
  BY <1>1 DEF TypeOK
<1>3. CASE ReadPool(h)
  <2>1. PICK a \in Accounts, x \in Amounts :
          Set(h, [at |-> "account", from |-> a, amount |-> x, pool |-> pool])
    BY <1>3 DEF ReadPool
  <2>2. HandlerOK([at |-> "account", from |-> a, amount |-> x, pool |-> pool])
    BY <1>1 DEF HandlerOK, Depositing
  <2>3. QED
    BY <1>2, <1>3, <2>1, <2>2, StepOK DEF ReadPool
<1>4. CASE ReadAccount(h)
  <2> DEFINE s == handler[h]
             r == [at |-> "debit", from |-> s.from, amount |-> s.amount,
                   pool |-> s.pool, read |-> account[s.from]]
  <2>1. CASE Set(h, Idle)
    BY <1>2, <1>4, <2>1, IdleOK, StepOK DEF ReadAccount
  <2>2. CASE Set(h, r) /\ ~(account[s.from].balance < s.amount)
    <3>1. Depositing(s) /\ account[s.from] \in AccountRecords
      BY <1>1, <1>4 DEF ReadAccount, At, HandlerOK, TypeOK, AccountRecords,
                        Depositing
    <3>2. s.amount \in Nat /\ account[s.from].balance \in Nat
      BY <3>1, AmountsAssumption DEF Depositing, AccountRecords
    <3>3. HandlerOK(r)
      BY <2>2, <3>1, <3>2 DEF HandlerOK, Depositing
    <3>4. QED
      BY <1>2, <1>4, <2>2, <3>3, StepOK DEF ReadAccount
  <2>3. QED
    BY <1>4, <2>1, <2>2 DEF ReadAccount
<1>5. CASE Debit(h)
  <2> DEFINE s == handler[h]
             r == [at |-> "credit", from |-> s.from, amount |-> s.amount,
                   pool |-> s.pool]
             k == [s.read EXCEPT !.balance = @ - s.amount]
  <2>1. /\ Depositing(s) /\ s.read \in AccountRecords
        /\ s.amount <= s.read.balance
    BY <1>1, <1>5 DEF Debit, At, HandlerOK
  <2>2. k \in AccountRecords
    <3>1. s.amount \in Nat /\ s.read.balance \in Nat
      BY <2>1, AmountsAssumption DEF Depositing, AccountRecords
    <3>2. s.read.balance - s.amount \in Nat
      BY <2>1, <3>1
    <3>3. QED
      BY <2>1, <3>2 DEF AccountRecords
  <2>3. HandlerOK(r)
    BY <2>1 DEF HandlerOK, Depositing
  <2>4. Set(h, r) /\ account' = [account EXCEPT ![s.from] = k]
    BY <1>5 DEF Debit
  <2> HIDE DEF k, r
  <2>5. account' \in [Accounts -> AccountRecords]
    BY <1>1, <2>1, <2>2, <2>4 DEF TypeOK, AccountRecords, Depositing
  <2>6. TypeOK' /\ pool' \in FundedPools
    BY <1>1, <1>5, <2>5 DEF Debit, TypeOK, AccountRecords
  <2>7. QED
    BY <2>3, <2>4, <2>6, StepOK
<1>6. CASE Credit(h)
  <2> DEFINE s == handler[h]
             d == s.pool.depositors
             q == [s.pool EXCEPT !.amount = @ + s.amount,
                                 !.depositors = [d EXCEPT ![s.from] = @ + s.amount]]
  <2>1. Depositing(s)
    BY <1>1, <1>6 DEF Credit, At, HandlerOK
  <2>2. q \in FundedPools
    BY <2>1, CreditType DEF Depositing
  <2>3. pool' = q
    BY <1>6 DEF Credit
  <2> HIDE DEF q
  <2>4. TypeOK' /\ pool' \in FundedPools
    BY <1>1, <1>6, <2>2, <2>3 DEF Credit, TypeOK, FundedPools
  <2>5. HandlerOK([at |-> "check"])
    BY DEF HandlerOK
  <2>6. QED
    BY <1>6, <2>4, <2>5, StepOK DEF Credit
<1>7. CASE Check(h)
  <2>1. CASE pool.amount >= Target
    <3>1. HandlerOK([at |-> "draw", pool |-> pool])
      BY <1>1, <2>1 DEF HandlerOK, FullPools
    <3>2. QED
      BY <1>2, <1>7, <2>1, <3>1, StepOK DEF Check
  <2>2. CASE ~(pool.amount >= Target)
    BY <1>2, <1>7, <2>2, IdleOK, StepOK DEF Check
  <2>3. QED
    BY <2>1, <2>2
<1>8. QED
  BY <1>3, <1>4, <1>5, <1>6, <1>7

(* The steps of an alchemy.                                                *)
LEMMA AlchemyOK ==
    ASSUME HInv, NEW h \in Handlers,
           \/ Draw(h) \/ Mint(h) \/ ReadWinner(h) \/ Award(h)
           \/ Count(h) \/ Reset(h) \/ Record(h)
    PROVE  HInv'
<1> DEFINE s == handler[h]
<1>1. TypeOK /\ pool \in FundedPools /\ HandlerOK(s)
  BY DEF HInv
<1>2. UNCHANGED <<account, pool, counter, minted, history, failures, replaced>>
        => TypeOK' /\ pool' \in FundedPools
  BY <1>1 DEF TypeOK
<1>3. ASSUME Minter(s)
      PROVE  /\ s.pool.id \in Seconds /\ s.pool.amount \in Nat
             /\ s.base \in Nat /\ Len(s.winners) \in 1 .. Len(Prizes)
             /\ Len(s.winners) \in Nat
  <2>1. s.pool \in Pools
    BY <1>3 DEF Minter, FullPools, FundedPools
  <2>2. s.pool.id \in Seconds /\ s.pool.amount \in Nat
    BY <2>1 DEF Pools
  <2>3. Len(Prizes) = 6
    BY DEF Prizes
  <2>4. QED
    BY <1>3, <2>2, <2>3 DEF Minter, Draws
<1>4. CASE Draw(h)
  <2>1. s.pool \in FullPools
    BY <1>1, <1>4 DEF Draw, At, HandlerOK
  <2>2. PICK w \in Winners(s.pool.depositors), base \in {counter, 0} :
          /\ Set(h, [at |-> "mint", pool |-> s.pool, base |-> base,
                     winners |-> w, next |-> 1])
          /\ \/ base = counter /\ UNCHANGED failures
             \/ base = 0 /\ failures < MaxFailures /\ failures' = failures + 1
    BY <1>4 DEF Draw
  <2>3. w \in Draws
    <3>1. /\ s.pool.depositors \in [Accounts -> Nat]
          /\ \E a \in Accounts : s.pool.depositors[a] > 0
      BY <2>1, TargetAssumption DEF FullPools, FundedPools, Pools, HasDepositor
    <3>2. QED
      BY <3>1, <2>2, WinnersType
  <2>4. 1 \in 1 .. Len(w)
    BY <2>3 DEF Draws, Prizes
  <2>5. HandlerOK([at |-> "mint", pool |-> s.pool, base |-> base,
                   winners |-> w, next |-> 1])
    BY <1>1, <2>1, <2>2, <2>3, <2>4 DEF HandlerOK, Minter, TypeOK
  <2>6. failures' \in 0 .. MaxFailures
    BY <1>1, <2>2, BoundsAssumption DEF TypeOK
  <2>7. TypeOK' /\ pool' \in FundedPools
    BY <1>1, <1>4, <2>6 DEF Draw, TypeOK
  <2>8. QED
    BY <2>2, <2>5, <2>7, StepOK
<1>5. CASE Mint(h)
  <2> DEFINE r == [s EXCEPT !.at = "winner"]
             id == CoinId(s.next, s.base)
             c == [id |-> id, owner |-> s.winners[s.next]]
  <2>1. Minter(s) /\ s.next \in 1 .. Len(s.winners)
    BY <1>1, <1>5 DEF Mint, At, HandlerOK
  <2>2. id \in CoinIds /\ s.winners[s.next] \in Accounts
    BY <1>3, <2>1, CoinIdType DEF Minter
  <2>3. c \in [id : CoinIds, owner : Accounts]
    BY <2>2
  <2>4. Set(h, r) /\ minted' = {x \in minted : x.id # id} \cup {c}
    BY <1>5 DEF Mint
  <2> HIDE DEF c, id
  <2>5. TypeOK' /\ pool' \in FundedPools
    BY <1>1, <1>5, <2>3, <2>4 DEF Mint, TypeOK
  <2>6. HandlerOK(r)
    BY <2>1 DEF HandlerOK, Minter
  <2>7. QED
    BY <2>4, <2>5, <2>6, StepOK
<1>6. CASE ReadWinner(h)
  <2> DEFINE r == [at |-> "award", pool |-> s.pool, base |-> s.base,
                   winners |-> s.winners, next |-> s.next,
                   read |-> account[s.winners[s.next]]]
  <2>1. Minter(s) /\ s.next \in 1 .. Len(s.winners)
    BY <1>1, <1>6 DEF ReadWinner, At, HandlerOK
  <2>2. s.winners[s.next] \in Accounts
    BY <1>3, <2>1, CoinIdType DEF Minter
  <2>3. HandlerOK(r)
    BY <1>1, <2>1, <2>2 DEF HandlerOK, Minter, TypeOK, AccountRecords
  <2>4. QED
    BY <1>2, <1>6, <2>3, StepOK DEF ReadWinner
<1>7. CASE Award(h)
  <2> DEFINE id == CoinId(s.next, s.base)
             given == [s.read EXCEPT !.coins = @ \cup {id}]
             step == IF s.next < Len(s.winners) THEN "mint" ELSE "count"
             r == [at |-> step, pool |-> s.pool, base |-> s.base,
                   winners |-> s.winners, next |-> s.next + 1]
  <2>1. /\ Minter(s) /\ s.next \in 1 .. Len(s.winners)
        /\ s.read \in AccountRecords
    BY <1>1, <1>7 DEF Award, At, HandlerOK
  <2>2. id \in CoinIds /\ s.winners[s.next] \in Accounts
    BY <1>3, <2>1, CoinIdType DEF Minter
  <2>3. HandlerOK(r)
    <3>1. s.next < Len(s.winners) => s.next + 1 \in 1 .. Len(s.winners)
      BY <1>3, <2>1
    <3>2. QED
      BY <2>1, <3>1 DEF HandlerOK, Minter
  <2>4. /\ Set(h, r) /\ UNCHANGED <<pool, counter, minted, history, replaced>>
        /\ \/ /\ account' = [account EXCEPT ![s.winners[s.next]] = given]
              /\ UNCHANGED failures
           \/ /\ failures < MaxFailures
              /\ failures' = failures + 1
              /\ UNCHANGED account
    BY <1>7 DEF Award
  <2>5. given \in AccountRecords
    BY <2>1, <2>2 DEF AccountRecords
  <2> HIDE DEF given, r
  <2>6. account' \in [Accounts -> AccountRecords]
    BY <1>1, <2>2, <2>4, <2>5 DEF TypeOK, AccountRecords
  <2>7. failures' \in 0 .. MaxFailures
    BY <1>1, <2>4, BoundsAssumption DEF TypeOK
  <2>8. TypeOK' /\ pool' \in FundedPools
    BY <1>1, <2>4, <2>6, <2>7 DEF TypeOK, AccountRecords
  <2>9. QED
    BY <2>3, <2>4, <2>8, StepOK
<1>8. CASE Count(h)
  <2> DEFINE r == [s EXCEPT !.at = "reset"]
  <2>1. Minter(s)
    BY <1>1, <1>8 DEF Count, At, HandlerOK
  <2>2. HandlerOK(r)
    BY <2>1 DEF HandlerOK, Minter
  <2>3. Set(h, r) /\ counter' = s.base + Len(s.winners)
    BY <1>8 DEF Count, Goto, Set
  <2>4. TypeOK' /\ pool' \in FundedPools
    BY <1>1, <1>3, <1>8, <2>1, <2>3 DEF Count, TypeOK
  <2>5. QED
    BY <2>2, <2>3, <2>4, StepOK
<1>9. CASE Reset(h)
  <2> DEFINE r == [s EXCEPT !.at = "record"]
  <2>1. Minter(s)
    BY <1>1, <1>9 DEF Reset, At, HandlerOK
  <2>2. HandlerOK(r)
    BY <2>1 DEF HandlerOK, Minter
  <2>3. PICK now \in Seconds : pool' = NewPool(now)
    BY <1>9 DEF Reset
  <2>4. Set(h, r) /\ pool' \in FundedPools
    BY <1>9, <2>3, NewPoolType DEF Reset, Goto, Set
  <2>5. TypeOK'
    BY <1>1, <1>9, <2>4 DEF Reset, TypeOK, FundedPools
  <2>6. QED
    BY <2>2, <2>4, <2>5, StepOK
<1>10. CASE Record(h)
  <2>1. Minter(s)
    BY <1>1, <1>10 DEF Record, At, HandlerOK
  <2>2. /\ Set(h, Idle)
        /\ history' = [history EXCEPT ![s.pool.id] = s.pool.amount]
        /\ replaced' = replaced + history[s.pool.id]
    BY <1>10 DEF Record
  <2>3. history' \in [Seconds -> Nat] /\ replaced' \in Nat
    BY <1>1, <1>3, <2>1, <2>2 DEF TypeOK
  <2>4. TypeOK' /\ pool' \in FundedPools
    BY <1>1, <1>10, <2>3 DEF Record, TypeOK
  <2>5. QED
    BY <2>2, <2>4, IdleOK, StepOK
<1>11. QED
  BY <1>4, <1>5, <1>6, <1>7, <1>8, <1>9, <1>10

(* A handler that ends leaves the storage as it is.                        *)
LEMMA FailOK ==
    ASSUME HInv, NEW h \in Handlers, Fail(h)
    PROVE  HInv'
<1>1. failures' \in 0 .. MaxFailures
  BY BoundsAssumption DEF HInv, Fail, TypeOK
<1>2. TypeOK' /\ pool' \in FundedPools
  BY <1>1 DEF HInv, Fail, TypeOK
<1>3. QED
  BY <1>2, IdleOK, StepOK DEF Fail

(* Before the first request the storage holds accounts and an empty pool. *)
LEMMA InitOK == Init => HInv
<1> SUFFICES ASSUME Init PROVE HInv
  OBVIOUS
<1>1. pool \in FundedPools
  BY NewPoolType, BoundsAssumption DEF Init, Seconds
<1>2. /\ account \in [Accounts -> [balance : Nat, coins : SUBSET CoinIds]]
      /\ history \in [Seconds -> Nat]
  BY InitialAssumption DEF Init
<1>3. TypeOK
  BY <1>1, <1>2, BoundsAssumption DEF Init, TypeOK, FundedPools
<1>4. DOMAIN handler = Handlers /\ \A h \in Handlers : HandlerOK(handler[h])
  BY IdleOK DEF Init
<1>5. QED
  BY <1>1, <1>3, <1>4 DEF HInv

(* Every step of every handler keeps the invariant.                        *)
LEMMA StepsOK == HInv /\ [Next]_vars => HInv'
<1>1. ASSUME HInv, Next PROVE HInv'
  <2>1. PICK h \in Handlers : Step(h)
    BY <1>1 DEF Next
  <2>2. QED
    BY <1>1, <2>1, DepositOK, AlchemyOK, FailOK DEF Step
<1>2. ASSUME HInv, UNCHANGED vars PROVE HInv'
  BY <1>2 DEF vars, HInv, TypeOK
<1>3. QED
  BY <1>1, <1>2

(* However many handlers run at the same time and wherever they fail, no   *)
(* balance falls below zero, every coin that is stored or held is well     *)
(* formed and no alchemy is drawn from a pool without a depositor          *)
(* (deposit, trigger_alchemy).                                             *)
THEOREM BalancesStayNatural == Spec => []TypeOK
<1>1. HInv => TypeOK
  BY DEF HInv
<1>2. QED
  BY <1>1, InitOK, StepsOK, PTL DEF Spec

(***************************************************************************)
(* Proof that a single handler, as long as it meets no failure, gives out  *)
(* coins that are numbered without gaps and have one owner each, for every *)
(* set of accounts, every target and any number of alchemies.              *)
(*                                                                         *)
(* Between two alchemies the coin counter is the number of coins; while    *)
(* one runs it lags behind by the coins already stored, and the account of *)
(* the last winner by one coin.                                            *)
(***************************************************************************)

(* How many coins are stored when the handler is r and the counter k.      *)
Issued(r, k) ==
    IF r.at = "mint" THEN k + r.next - 1
    ELSE IF r.at \in {"winner", "award"} THEN k + r.next
    ELSE IF r.at = "count" THEN k + Len(r.winners)
    ELSE k

(* How many of them the accounts hold.                                     *)
Handed(r, k) ==
    IF r.at \in {"winner", "award"} THEN k + r.next - 1 ELSE Issued(r, k)

(* The coins m are numbered from 1 to n, each number once.                 *)
Numbered(m, n) ==
    /\ IsFiniteSet(m) /\ Cardinality(m) = n
    /\ \A c \in m : c.id.serial \in 1 .. n
    /\ \A k \in 1 .. n : \E c \in m : c.id.serial = k
    /\ \A c, d \in m : c.id.serial = d.id.serial => c = d

(* Every account holds those of its coins whose number is at most n.       *)
Holds(acc, m, n) ==
    \A a \in Accounts :
        acc[a].coins = {i \in CoinIds : \E c \in m : /\ c.id = i /\ c.owner = a
                                                     /\ i.serial <= n}

(* The coin that is being given out.                                       *)
NextCoin(r) == [id |-> CoinId(r.next, r.base), owner |-> r.winners[r.next]]

(* What a lone handler has read is still so.                               *)
UpToDate(r, acc, k, m) ==
    /\ r.at \in {"mint", "winner", "award", "count"} => r.base = k
    /\ r.at = "count" => r.next = Len(r.winners) + 1
    /\ r.at = "debit" => r.read = acc[r.from]
    /\ r.at = "award" => r.read = acc[r.winners[r.next]]
    /\ r.at \in {"winner", "award"} => NextCoin(r) \in m

CoinInv(r, acc, k, m) ==
    /\ UpToDate(r, acc, k, m)
    /\ Numbered(m, Issued(r, k))
    /\ Holds(acc, m, Handed(r, k))

CInv(h) == failures = 0 => CoinInv(handler[h], account, counter, minted)

-----------------------------------------------------------------------------
(* A new coin with the next number keeps the numbering, and the accounts   *)
(* do not hold it yet.                                                     *)
LEMMA NewCoin ==
    ASSUME NEW m, NEW n \in Nat, NEW acc, NEW c, Numbered(m, n),
           Holds(acc, m, n), c.id.serial = n + 1
    PROVE  Numbered(m \cup {c}, n + 1) /\ Holds(acc, m \cup {c}, n)
<1>1. c \notin m
  BY DEF Numbered
<1>2. IsFiniteSet(m \cup {c}) /\ Cardinality(m \cup {c}) = n + 1
  BY <1>1, FS_AddElement DEF Numbered
<1>3. \A d \in m \cup {c} : d.id.serial \in 1 .. (n + 1)
  BY DEF Numbered
<1>4. \A k \in 1 .. (n + 1) : \E d \in m \cup {c} : d.id.serial = k
  <2>1. ASSUME NEW k \in 1 .. (n + 1) PROVE \E d \in m \cup {c} : d.id.serial = k
    <3>1. k \in 1 .. n \/ k = n + 1
      OBVIOUS
    <3>2. QED
      BY <3>1 DEF Numbered
  <2>2. QED
    BY <2>1
<1>5. \A d, e \in m \cup {c} : d.id.serial = e.id.serial => d = e
  BY DEF Numbered
<1>6. Holds(acc, m \cup {c}, n)
  BY DEF Holds
<1>7. QED
  BY <1>2, <1>3, <1>4, <1>5, <1>6 DEF Numbered

(* When the winner of the newest coin gets it, the accounts hold all.      *)
LEMMA GiveCoin ==
    ASSUME NEW m, NEW n \in Nat, NEW acc \in [Accounts -> AccountRecords],
           NEW c \in m, Numbered(m, n + 1), Holds(acc, m, n),
           c.id.serial = n + 1, c.id \in CoinIds, c.owner \in Accounts
    PROVE  Holds([acc EXCEPT ![c.owner] =
                     [acc[c.owner] EXCEPT !.coins = @ \cup {c.id}]], m, n + 1)
<1> DEFINE given == [acc[c.owner] EXCEPT !.coins = @ \cup {c.id}]
           new == [acc EXCEPT ![c.owner] = given]
           Of(a, l) == {i \in CoinIds : \E d \in m : /\ d.id = i /\ d.owner = a
                                                     /\ i.serial <= l}
<1>1. given.coins = acc[c.owner].coins \cup {c.id}
  BY DEF AccountRecords
<1> HIDE DEF given
<1>2. ASSUME NEW a \in Accounts PROVE new[a].coins = Of(a, n + 1)
  <2>1. acc[a].coins = Of(a, n)
    BY DEF Holds
  <2>2. new[a].coins = IF a = c.owner THEN acc[a].coins \cup {c.id}
                       ELSE acc[a].coins
    BY <1>1
  <2>3. ASSUME NEW d \in m, d.id \in CoinIds, d.owner = a
        PROVE  d.id.serial <= n + 1 <=> d.id.serial <= n \/ d = c
    BY <2>3 DEF Numbered, CoinIds
  <2>4. Of(a, n + 1) = Of(a, n) \cup (IF a = c.owner THEN {c.id} ELSE {})
    BY <2>3
  <2>5. QED
    BY <2>1, <2>2, <2>4
<1>3. QED
  BY <1>2 DEF Holds, given

-----------------------------------------------------------------------------
(* The record a step leaves in the handler.                                *)
LEMMA NewRecord ==
    ASSUME HInv, NEW h \in Handlers, NEW r, Set(h, r)
    PROVE  handler'[h] = r
BY DEF HInv, Set

(* A step after which no handler has failed is none that fails, and the    *)
(* draw has read the counter.                                              *)
LEMMA NoFailure ==
    ASSUME HInv, NEW h \in Handlers, Step(h), failures' = 0
    PROVE  /\ failures = 0 /\ ~Fail(h)
           /\ Draw(h) => \E w \in Winners(handler[h].pool.depositors) :
                            Set(h, [at |-> "mint", pool |-> handler[h].pool,
                                    base |-> counter, winners |-> w, next |-> 1])
<1>1. failures \in Nat
  BY BoundsAssumption DEF HInv, TypeOK
<1>2. ASSUME Draw(h)
      PROVE  /\ failures = 0
             /\ \E w \in Winners(handler[h].pool.depositors) :
                   Set(h, [at |-> "mint", pool |-> handler[h].pool,
                           base |-> counter, winners |-> w, next |-> 1])
  <2>1. PICK w \in Winners(handler[h].pool.depositors), base \in {counter, 0} :
          /\ Set(h, [at |-> "mint", pool |-> handler[h].pool, base |-> base,
                     winners |-> w, next |-> 1])
          /\ \/ base = counter /\ failures' = failures
             \/ failures' = failures + 1
    BY <1>2 DEF Draw
  <2>2. failures' # failures + 1
    BY <1>1
  <2>3. QED
    BY <2>1, <2>2
<1>3. ~Fail(h)
  BY <1>1 DEF Fail
<1>4. Award(h) => failures = 0
  <2>1. Award(h) => failures' = failures \/ failures' = failures + 1
    BY DEF Award
  <2>2. QED
    BY <1>1, <2>1
<1>5. \/ ReadPool(h) \/ ReadAccount(h) \/ Debit(h) \/ Credit(h) \/ Check(h)
      \/ Mint(h) \/ ReadWinner(h) \/ Count(h) \/ Reset(h) \/ Record(h)
      => failures = 0
  BY DEF ReadPool, ReadAccount, Debit, Credit, Check, Mint, ReadWinner,
         Count, Reset, Record
<1>6. QED
  BY <1>2, <1>3, <1>4, <1>5 DEF Step

(* While no alchemy runs the handler has no part in the coins.             *)
LEMMA Quiet ==
    ASSUME NEW r, NEW s, NEW acc, NEW k, NEW m, CoinInv(r, acc, k, m),
           r.at \in {"idle", "account", "debit", "credit", "check", "draw",
                    "reset", "record"},
           s.at \in {"idle", "account", "credit", "check", "draw", "record"}
    PROVE  CoinInv(s, acc, k, m)
BY DEF CoinInv, UpToDate, Issued, Handed

(* The steps of a deposit do not touch the coins.                          *)
LEMMA DepositCoins ==
    ASSUME HInv, NEW h \in Handlers, CInv(h), failures' = 0,
           ReadPool(h) \/ ReadAccount(h) \/ Debit(h) \/ Credit(h) \/ Check(h)
    PROVE  CoinInv(handler'[h], account', counter', minted')
<1> DEFINE s == handler[h]
<1>1. UNCHANGED <<counter, minted>> /\ HandlerOK(s) /\ TypeOK
  BY DEF ReadPool, ReadAccount, Debit, Credit, Check, HInv
<1>2. CoinInv(s, account, counter, minted)
  BY DEF CInv, ReadPool, ReadAccount, Debit, Credit, Check
<1>3. CASE ReadPool(h)
  <2>1. PICK a \in Accounts, x \in Amounts :
          Set(h, [at |-> "account", from |-> a, amount |-> x, pool |-> pool])
    BY <1>3 DEF ReadPool
  <2>2. handler'[h].at = "account"
    BY <2>1, NewRecord
  <2>3. s.at = "idle" /\ UNCHANGED account
    BY <1>3 DEF ReadPool, At
  <2>4. QED
    BY <1>1, <1>2, <2>2, <2>3, Quiet
<1>4. CASE ReadAccount(h)
  <2> DEFINE r == [at |-> "debit", from |-> s.from, amount |-> s.amount,
                   pool |-> s.pool, read |-> account[s.from]]
  <2>1. s.at = "account" /\ UNCHANGED account
    BY <1>4 DEF ReadAccount, At
  <2>2. CASE Set(h, Idle)
    <3>1. handler'[h].at = "idle"
      BY <2>2, NewRecord DEF Idle
    <3>2. QED
      BY <1>1, <1>2, <2>1, <3>1, Quiet
  <2>3. CASE Set(h, r)
    <3>1. handler'[h] = r
      BY <2>3, NewRecord
    <3>2. CoinInv(r, account, counter, minted)
      BY <1>2, <2>1 DEF CoinInv, UpToDate, Issued, Handed
    <3>3. QED
      BY <1>1, <2>1, <3>1, <3>2
  <2>4. QED
    BY <1>4, <2>2, <2>3 DEF ReadAccount
<1>5. CASE Debit(h)
  <2> DEFINE r == [at |-> "credit", from |-> s.from, amount |-> s.amount,
                   pool |-> s.pool]
             k == [s.read EXCEPT !.balance = @ - s.amount]
  <2>1. s.at = "debit" /\ s.from \in Accounts /\ s.read = account[s.from]
    BY <1>1, <1>2, <1>5 DEF Debit, At, HandlerOK, Depositing, CoinInv, UpToDate
  <2>2. k.coins = account[s.from].coins
    BY <1>1, <2>1 DEF HandlerOK, AccountRecords
  <2>3. handler'[h].at = "credit"
    <3>1. Set(h, r)
      BY <1>5 DEF Debit
    <3>2. QED
      BY <3>1, NewRecord
  <2>4. account' = [account EXCEPT ![s.from] = k]
    BY <1>5 DEF Debit
  <2> HIDE DEF k
  <2>5. \A a \in Accounts : account'[a].coins = account[a].coins
    BY <1>1, <2>1, <2>2, <2>4 DEF TypeOK
  <2>6. CoinInv(handler'[h], account, counter, minted)
    BY <1>2, <2>1, <2>3, Quiet
  <2>7. Holds(account', minted, Handed(handler'[h], counter))
    BY <2>5, <2>6 DEF CoinInv, Holds
  <2>8. QED
    BY <1>1, <2>3, <2>6, <2>7 DEF CoinInv, UpToDate
<1>6. CASE Credit(h)
  <2>1. s.at = "credit" /\ UNCHANGED account /\ Set(h, [at |-> "check"])
    BY <1>6 DEF Credit, At
  <2>2. handler'[h].at = "check"
    BY <2>1, NewRecord
  <2>3. QED
    BY <1>1, <1>2, <2>1, <2>2, Quiet
<1>7. CASE Check(h)
  <2>1. s.at = "check" /\ UNCHANGED account
    BY <1>7 DEF Check, At
  <2>2. Set(h, [at |-> "draw", pool |-> pool]) \/ Set(h, Idle)
    BY <1>7 DEF Check
  <2>3. handler'[h].at \in {"draw", "idle"}
    BY <2>2, NewRecord DEF Idle
  <2>4. QED
    BY <1>1, <1>2, <2>1, <2>3, Quiet
<1>8. QED
  BY <1>3, <1>4, <1>5, <1>6, <1>7

(* The steps of an alchemy number the coins and hand them out.             *)
LEMMA AlchemyCoins ==
    ASSUME HInv, NEW h \in Handlers, CInv(h), failures' = 0,
           \/ Draw(h) \/ Mint(h) \/ ReadWinner(h) \/ Award(h)
           \/ Count(h) \/ Reset(h) \/ Record(h)
    PROVE  CoinInv(handler'[h], account', counter', minted')
<1> DEFINE s == handler[h]
<1>1. TypeOK /\ HandlerOK(s) /\ counter \in Nat /\ failures \in Nat
  BY BoundsAssumption DEF HInv, TypeOK
<1>2. failures = 0
  BY NoFailure DEF Step
<1>3. CoinInv(s, account, counter, minted)
  BY <1>2 DEF CInv
<1>4. CASE Draw(h)
  <2>1. PICK w \in Winners(s.pool.depositors) :
          Set(h, [at |-> "mint", pool |-> s.pool, base |-> counter,
                  winners |-> w, next |-> 1])
    BY <1>4, NoFailure DEF Step
  <2> DEFINE r == handler'[h]
  <2>2. r.at = "mint" /\ r.base = counter /\ r.next = 1
    BY <2>1, NewRecord
  <2>3. Issued(r, counter) = counter /\ Handed(r, counter) = counter
    BY <1>1, <2>2 DEF Issued, Handed
  <2>4. s.at = "draw" /\ UNCHANGED <<account, counter, minted>>
    BY <1>4 DEF Draw, At
  <2>5. QED
    BY <1>3, <2>2, <2>3, <2>4 DEF CoinInv, UpToDate, Issued, Handed
<1>5. ASSUME s.at \in {"mint", "winner", "award"}
      PROVE  /\ s.next \in 1 .. Len(s.winners) /\ s.next \in Nat \ {0}
             /\ s.base = counter /\ Len(s.winners) \in Nat
             /\ NextCoin(s).id \in CoinIds /\ NextCoin(s).owner \in Accounts
             /\ NextCoin(s).owner = s.winners[s.next]
             /\ NextCoin(s).id.serial = counter + s.next
             /\ NextCoin(s).id = CoinId(s.next, counter)
  <2>1. Minter(s) /\ s.next \in 1 .. Len(s.winners) /\ s.base = counter
    BY <1>1, <1>3, <1>5 DEF HandlerOK, CoinInv, UpToDate
  <2>2. /\ CoinId(s.next, s.base) \in CoinIds
        /\ s.winners[s.next] \in Accounts
    BY <2>1, CoinIdType DEF Minter
  <2>3. CoinId(s.next, s.base).serial = counter + s.next
    BY <2>1 DEF CoinId
  <2>4. Len(s.winners) \in Nat
    BY <2>1 DEF Minter, Draws
  <2>5. QED
    BY <2>1, <2>2, <2>3, <2>4 DEF NextCoin
<1>6. CASE Mint(h)
  <2> DEFINE r == [s EXCEPT !.at = "winner"]
             c == NextCoin(s)
             n == counter + s.next - 1
  <2>1. s.at = "mint" /\ UNCHANGED <<account, counter>> /\ handler'[h] = r
    BY <1>6, NewRecord DEF Mint, At
  <2>2. minted' = {x \in minted : x.id # c.id} \cup {c}
    BY <1>6 DEF Mint, NextCoin
  <2>3. n \in Nat /\ c.id.serial = n + 1
    BY <1>1, <1>5, <2>1
  <2>4. Numbered(minted, n) /\ Holds(account, minted, n)
    BY <1>3, <2>1 DEF CoinInv, Issued, Handed
  <2>5. minted' = minted \cup {c}
    BY <2>2, <2>3, <2>4 DEF Numbered
  <2>6. Numbered(minted', n + 1) /\ Holds(account, minted', n)
    BY <2>3, <2>4, <2>5, NewCoin
  <2>7. r.at = "winner" /\ r.next = s.next /\ r.base = counter /\ NextCoin(r) = c
    <3>1. HandlerOK(r) /\ r.at = "winner"
      BY <1>1, <1>5, <2>1 DEF HandlerOK, Minter
    <3>2. r.next = s.next /\ r.base = s.base /\ r.winners = s.winners
      OBVIOUS
    <3>3. QED
      BY <1>5, <2>1, <3>1, <3>2 DEF NextCoin
  <2>8. Issued(r, counter) = n + 1 /\ Handed(r, counter) = n
    BY <1>1, <1>5, <2>1, <2>7 DEF Issued, Handed
  <2> HIDE DEF r, c, n
  <2>9. QED
    BY <2>1, <2>5, <2>6, <2>7, <2>8 DEF CoinInv, UpToDate
<1>7. CASE ReadWinner(h)
  <2> DEFINE r == [at |-> "award", pool |-> s.pool, base |-> s.base,
                   winners |-> s.winners, next |-> s.next,
                   read |-> account[s.winners[s.next]]]
  <2>1. s.at = "winner" /\ UNCHANGED <<account, counter, minted>>
    BY <1>7 DEF ReadWinner, At
  <2>2. handler'[h] = r
    BY <1>7, NewRecord DEF ReadWinner
  <2>3. NextCoin(r) = NextCoin(s)
    BY DEF NextCoin
  <2>4. CoinInv(r, account, counter, minted)
    BY <1>3, <2>1, <2>3 DEF CoinInv, UpToDate, Issued, Handed
  <2>5. QED
    BY <2>1, <2>2, <2>4
<1>8. CASE Award(h)
  <2> DEFINE c == NextCoin(s)
             given == [s.read EXCEPT !.coins = @ \cup {c.id}]
             step == IF s.next < Len(s.winners) THEN "mint" ELSE "count"
             r == [at |-> step, pool |-> s.pool, base |-> s.base,
                   winners |-> s.winners, next |-> s.next + 1]
             n == counter + s.next - 1
  <2>1. s.at = "award" /\ UNCHANGED <<counter, minted>> /\ handler'[h] = r
    BY <1>8, NewRecord DEF Award, At
  <2>2. account' = [account EXCEPT ![c.owner] = given]
    <3>1. failures' # failures + 1
      BY <1>2
    <3>2. account' = [account EXCEPT ![s.winners[s.next]] =
                        [s.read EXCEPT !.coins = @ \cup {CoinId(s.next, s.base)}]]
      BY <1>8, <3>1 DEF Award
    <3>3. QED
      BY <3>2 DEF NextCoin
  <2>3. s.read = account[c.owner] /\ c \in minted
    BY <1>3, <1>5, <2>1 DEF CoinInv, UpToDate
  <2>4. n \in Nat /\ c.id.serial = n + 1 /\ c.id \in CoinIds
        /\ c.owner \in Accounts
    <3>1. s.next \in Nat \ {0} /\ c.id.serial = counter + s.next
      BY <1>5, <2>1
    <3>2. c.id \in CoinIds /\ c.owner \in Accounts
      BY <1>5, <2>1
    <3> HIDE DEF c
    <3>3. n \in Nat /\ counter + s.next = n + 1
      BY <1>1, <3>1
    <3>4. QED
      BY <3>1, <3>2, <3>3
  <2>5. Numbered(minted, n + 1) /\ Holds(account, minted, n)
    BY <1>1, <1>3, <1>5, <2>1 DEF CoinInv, Issued, Handed
  <2>6. account \in [Accounts -> AccountRecords]
    BY <1>1 DEF TypeOK, AccountRecords
  <2> HIDE DEF c, n
  <2>7. Holds(account', minted, n + 1)
    BY <2>2, <2>3, <2>4, <2>5, <2>6, GiveCoin
  <2>8. Issued(r, counter) = n + 1 /\ Handed(r, counter) = n + 1
    <3>1. counter \in Nat /\ s.next \in 1 .. Len(s.winners) /\ Len(s.winners) \in Nat
      BY <1>1, <1>5, <2>1
    <3>2. n = counter + s.next - 1
      BY DEF n
    <3>3. r.at = step /\ r.next = s.next + 1 /\ r.winners = s.winners
      OBVIOUS
    <3> HIDE DEF r, step
    <3>4. CASE s.next < Len(s.winners)
      <4>1. r.at = "mint"
        BY <3>3, <3>4 DEF step
      <4>2. Issued(r, counter) = counter + (s.next + 1) - 1
        BY <3>3, <4>1 DEF Issued
      <4>3. Handed(r, counter) = Issued(r, counter)
        BY <4>1 DEF Handed
      <4>4. QED
        BY <3>1, <3>2, <4>2, <4>3
    <3>5. CASE ~(s.next < Len(s.winners))
      <4>1. r.at = "count"
        BY <3>3, <3>5 DEF step
      <4>2. Issued(r, counter) = counter + Len(s.winners)
        BY <3>3, <4>1 DEF Issued
      <4>3. Handed(r, counter) = Issued(r, counter)
        BY <4>1 DEF Handed
      <4>4. QED
        BY <3>1, <3>2, <3>5, <4>2, <4>3
    <3>6. QED
      BY <3>4, <3>5
  <2>9. UpToDate(r, account', counter, minted)
    BY <1>5, <2>1 DEF UpToDate
  <2>10. QED
    BY <2>1, <2>5, <2>7, <2>8, <2>9 DEF CoinInv
<1>9. CASE Count(h)
  <2> DEFINE r == [s EXCEPT !.at = "reset"]
  <2>1. s.at = "count" /\ UNCHANGED <<account, minted>>
    BY <1>9 DEF Count, At
  <2>2. Set(h, r) /\ counter' = s.base + Len(s.winners)
    BY <1>9 DEF Count, Goto, Set
  <2>3. handler'[h].at = "reset"
    <3>1. handler'[h] = r
      BY <2>2, NewRecord
    <3>2. HandlerOK(s)
      BY <1>1
    <3>3. QED
      BY <3>1, <2>1
  <2>4. s.base = counter
    BY <1>3, <2>1 DEF CoinInv, UpToDate
  <2>5. QED
    BY <1>3, <2>1, <2>2, <2>3, <2>4 DEF CoinInv, UpToDate, Issued, Handed
<1>10. CASE Reset(h)
  <2> DEFINE r == [s EXCEPT !.at = "record"]
  <2>1. s.at = "reset" /\ UNCHANGED <<account, counter, minted>> /\ Set(h, r)
    BY <1>10 DEF Reset, Goto, Set, At
  <2>2. handler'[h] = r
    BY <2>1, NewRecord
  <2>3. r.at = "record"
    BY <2>1
  <2>4. QED
    BY <1>3, <2>1, <2>2, <2>3, Quiet
<1>11. CASE Record(h)
  <2>1. s.at = "record" /\ UNCHANGED <<account, counter, minted>> /\ Set(h, Idle)
    BY <1>11 DEF Record, At
  <2>2. handler'[h].at = "idle"
    BY <2>1, NewRecord DEF Idle
  <2>3. QED
    BY <1>3, <2>1, <2>2, Quiet
<1>12. QED
  BY <1>4, <1>6, <1>7, <1>8, <1>9, <1>10, <1>11

-----------------------------------------------------------------------------
(* Alone, a handler keeps the coins in order.                              *)
LEMMA CoinsStay ==
    ASSUME NEW h, Handlers = {h}, HInv, CInv(h), [Next]_vars
    PROVE  CInv(h)'
<1> SUFFICES ASSUME failures' = 0
             PROVE  CoinInv(handler'[h], account', counter', minted')
  BY DEF CInv
<1>1. CASE UNCHANGED vars
  BY <1>1 DEF vars, CInv
<1>2. CASE Next
  <2>1. h \in Handlers /\ Step(h)
    BY <1>2 DEF Next
  <2>2. ~Fail(h)
    BY DEF Fail, HInv, TypeOK
  <2>3. QED
    BY <2>1, <2>2, DepositCoins, AlchemyCoins DEF Step
<1>3. QED
  BY <1>1, <1>2

(* Before the first alchemy there is no coin.                              *)
LEMMA NoCoins ==
    ASSUME NEW h, Handlers = {h}, Init
    PROVE  CInv(h)
<1>1. handler[h].at = "idle" /\ counter = 0 /\ minted = {}
  BY DEF Init, Idle
<1>2. Issued(handler[h], counter) = 0 /\ Handed(handler[h], counter) = 0
  BY <1>1 DEF Issued, Handed
<1>3. Numbered({}, 0)
  BY FS_EmptySet DEF Numbered
<1>4. Holds(account, {}, 0)
  BY DEF Init, Holds
<1>5. QED
  BY <1>1, <1>2, <1>3, <1>4 DEF CInv, CoinInv, UpToDate

(* The coins in order are coins with one owner each.                       *)
LEMMA OrderedCoins ==
    ASSUME NEW h, Handlers = {h}, HInv, CInv(h)
    PROVE  CoinsHaveOneOwner
<1> SUFFICES ASSUME failures = 0, ~Minting(h)
             PROVE  /\ \A a \in Accounts :
                          account[a].coins =
                             {c.id : c \in {d \in minted : d.owner = a}}
                    /\ {c.id.serial : c \in minted} = 1 .. counter
                    /\ Cardinality(minted) = counter
  BY DEF CoinsHaveOneOwner
<1>1. CoinInv(handler[h], account, counter, minted)
  BY DEF CInv
<1>2. handler[h].at \notin {"mint", "winner", "award", "count"}
  BY DEF Minting
<1>3. Numbered(minted, counter) /\ Holds(account, minted, counter)
  BY <1>1, <1>2 DEF CoinInv, Issued, Handed
<1>4. minted \subseteq [id : CoinIds, owner : Accounts]
  BY DEF HInv, TypeOK
<1>5. ASSUME NEW a \in Accounts
      PROVE  account[a].coins = {c.id : c \in {d \in minted : d.owner = a}}
  <2>1. \A c \in minted : c.id \in CoinIds /\ c.id.serial <= counter
    BY <1>3, <1>4 DEF Numbered
  <2>2. account[a].coins = {i \in CoinIds : \E c \in minted :
                               c.id = i /\ c.owner = a /\ i.serial <= counter}
    BY <1>3 DEF Holds
  <2>3. QED
    BY <2>1, <2>2
<1>6. {c.id.serial : c \in minted} = 1 .. counter
  <2>1. \A k \in 1 .. counter : k \in {c.id.serial : c \in minted}
    BY <1>3 DEF Numbered
  <2>2. \A k \in {c.id.serial : c \in minted} : k \in 1 .. counter
    BY <1>3 DEF Numbered
  <2>3. QED
    BY <2>1, <2>2
<1>7. QED
  BY <1>3, <1>5, <1>6 DEF Numbered

(* Handled one request at a time and without failures, no two coins ever   *)
(* share a number, no number is left out, and an account holds exactly the *)
(* coins recorded as its own, after any number of alchemies and with       *)
(* deposits from the winners in between (trigger_alchemy, deposit).        *)
THEOREM LoneHandlerCoins ==
    ASSUME NEW h, Handlers = {h}
    PROVE  Spec => []CoinsHaveOneOwner
<1>1. Init => HInv /\ CInv(h)
  BY InitOK, NoCoins
<1>2. HInv /\ CInv(h) /\ [Next]_vars => (HInv /\ CInv(h))'
  BY StepsOK, CoinsStay
<1>3. HInv /\ CInv(h) => CoinsHaveOneOwner
  BY OrderedCoins
<1>4. QED
  BY <1>1, <1>2, <1>3, PTL DEF Spec
-----------------------------------------------------------------------------
(***************************************************************************)
(* What SumFunctionOnSet and SumFunction compute on finite sets.           *)
(*                                                                         *)
(* The sum is a function that is defined by recursion over the subsets of  *)
(* its index set.  That there is such a function, that it does not depend  *)
(* on the index set it was defined for, and that the order of its elements *)
(* does not matter, is shown by a smallest set on which it fails: among    *)
(* the subsets of a finite set every family has a minimal one.             *)
(***************************************************************************)
(* The element that is taken out first.                                    *)
Pick(s) == CHOOSE x \in s : TRUE

(* g is the sum of f on every subset of S.                                 *)
IsSum(g, f, S) ==
    g = [s \in SUBSET S |->
           IF s = {} THEN 0 ELSE f[Pick(s)] + g[s \ {Pick(s)}]]

(* A family of subsets of a finite set has a minimal member.               *)
LEMMA MinimalSet ==
    ASSUME NEW S, IsFiniteSet(S), NEW F \in SUBSET (SUBSET S), F # {}
    PROVE  \E T \in F : \A U \in F : U \subseteq T => U = T
<1>1. IsWellFoundedOn(StrictSubsetOrdering(S), SUBSET S)
  BY FS_StrictSubsetOrderingWellFounded, FS_FiniteSubsetsOfFinite
<1>2. \E T \in F : \A U \in F : ~ (<<U, T>> \in StrictSubsetOrdering(S))
  BY <1>1, WFMin
<1>3. QED
  BY <1>2 DEF StrictSubsetOrdering

(* The element a fold takes next is one of the set.                        *)
LEMMA PickIn ==
    ASSUME NEW s, s # {}
    PROVE  Pick(s) \in s
BY DEF Pick

(* A sum takes its index set apart element by element.                     *)
LEMMA SumAt ==
    ASSUME NEW S, NEW f, NEW g, IsSum(g, f, S), NEW s \in SUBSET S
    PROVE  g[s] = IF s = {} THEN 0 ELSE f[Pick(s)] + g[s \ {Pick(s)}]
BY DEF IsSum

(* Two sums of one function agree on the smaller of their index sets.      *)
LEMMA SumUnique ==
    ASSUME NEW S, NEW T \in SUBSET S, IsFiniteSet(S), NEW f, NEW g, NEW h,
           IsSum(g, f, S), IsSum(h, f, T)
    PROVE  \A s \in SUBSET T : g[s] = h[s]
<1> DEFINE F == {s \in SUBSET T : g[s] # h[s]}
<1> SUFFICES ASSUME F # {} PROVE FALSE
  OBVIOUS
<1>1. PICK s \in F : \A U \in F : U \subseteq s => U = s
  <2>1. F \in SUBSET (SUBSET S)
    OBVIOUS
  <2> HIDE DEF F
  <2>2. QED
    BY <2>1, MinimalSet
<1>2. /\ g[s] = IF s = {} THEN 0 ELSE f[Pick(s)] + g[s \ {Pick(s)}]
      /\ h[s] = IF s = {} THEN 0 ELSE f[Pick(s)] + h[s \ {Pick(s)}]
  BY DEF IsSum
<1>3. s # {}
  BY <1>2
<1>4. s \ {Pick(s)} \notin F
  BY <1>1, <1>3, PickIn
<1>5. QED
  BY <1>2, <1>3, <1>4

(* Every function has a sum on every finite set.                           *)
LEMMA SumExists ==
    ASSUME NEW S, IsFiniteSet(S), NEW f
    PROVE  \E g : IsSum(g, f, S)
<1> DEFINE F == {s \in SUBSET S : ~ \E g : IsSum(g, f, s)}
<1> SUFFICES ASSUME F # {} PROVE FALSE
  OBVIOUS
<1>1. PICK T \in F : \A U \in F : U \subseteq T => U = T
  <2>1. F \in SUBSET (SUBSET S)
    OBVIOUS
  <2> HIDE DEF F
  <2>2. QED
    BY <2>1, MinimalSet
<1> DEFINE G(s) == CHOOSE g : IsSum(g, f, s)
           k == [s \in SUBSET T |->
                   IF s = {} THEN 0
                   ELSE f[Pick(s)] + G(s \ {Pick(s)})[s \ {Pick(s)}]]
<1>2. ASSUME NEW r \in SUBSET T, r # T PROVE IsSum(G(r), f, r) /\ IsFiniteSet(r)
  BY <1>1, <1>2, FS_Subset
<1>3. ASSUME NEW r \in SUBSET T, r # T PROVE k[r] = G(r)[r]
  <2>1. CASE r = {}
    <3>1. G(r)[r] = 0
      <4>1. IsSum(G(r), f, r)
        BY <1>2, <1>3
      <4> HIDE DEF G
      <4>2. QED
        BY <2>1, <4>1, SumAt
    <3>2. QED
      BY <2>1, <3>1
  <2>2. CASE r # {}
    <3> DEFINE q == r \ {Pick(r)}
    <3>1. q \in SUBSET r /\ q # T /\ q \in SUBSET T
      BY <1>3, <2>2, PickIn
    <3>2. G(r)[r] = f[Pick(r)] + G(r)[q]
      <4>1. IsSum(G(r), f, r)
        BY <1>2, <1>3
      <4> HIDE DEF G
      <4>2. QED
        BY <2>2, <4>1, SumAt
    <3>3. G(r)[q] = G(q)[q]
      <4>1. IsSum(G(r), f, r) /\ IsSum(G(q), f, q) /\ IsFiniteSet(r)
        BY <1>2, <1>3, <3>1
      <4> HIDE DEF G, q
      <4>2. QED
        BY <3>1, <4>1, SumUnique
    <3>4. k[r] = f[Pick(r)] + G(q)[q]
      BY <2>2
    <3>5. QED
      BY <3>2, <3>3, <3>4
  <2>3. QED
    BY <2>1, <2>2
<1>4. ASSUME NEW s \in SUBSET T
      PROVE  k[s] = IF s = {} THEN 0 ELSE f[Pick(s)] + k[s \ {Pick(s)}]
  <2>1. CASE s = {}
    BY <2>1
  <2>2. CASE s # {}
    <3>1. s \ {Pick(s)} \in SUBSET T /\ s \ {Pick(s)} # T
      BY <2>2, PickIn
    <3>2. k[s \ {Pick(s)}] = G(s \ {Pick(s)})[s \ {Pick(s)}]
      BY <1>3, <3>1
    <3>3. k[s] = f[Pick(s)] + G(s \ {Pick(s)})[s \ {Pick(s)}]
      BY <2>2
    <3>4. QED
      BY <2>2, <3>2, <3>3
  <2>3. QED
    BY <2>1, <2>2
<1>5. k = [s \in SUBSET T |-> k[s]]
  OBVIOUS
<1> HIDE DEF k
<1>6. IsSum(k, f, T)
  BY <1>4, <1>5 DEF IsSum
<1>7. QED
  BY <1>1, <1>6

(* The operator of the library is this sum.                                *)
LEMMA SumIs ==
    ASSUME NEW S, IsFiniteSet(S), NEW f
    PROVE  \E g : IsSum(g, f, S) /\ SumFunctionOnSet(f, S) = g[S]
<1> DEFINE g == CHOOSE i : IsSum(i, f, S)
<1>1. IsSum(g, f, S)
  BY SumExists
<1>2. SumFunctionOnSet(f, S) = g[S]
  BY DEF SumFunctionOnSet, FoldFunctionOnSet, MapThenFoldSet, IsSum, Pick
<1>3. QED
  BY <1>1, <1>2

-----------------------------------------------------------------------------
(* What the sum is, element by element.                                    *)
LEMMA SumEmpty ==
    ASSUME NEW f
    PROVE  SumFunctionOnSet(f, {}) = 0
<1>1. IsFiniteSet({})
  BY FS_EmptySet
<1>2. PICK g : IsSum(g, f, {}) /\ SumFunctionOnSet(f, {}) = g[{}]
  BY <1>1, SumIs
<1>3. QED
  BY <1>2, SumAt

(* The sum over a set is that of its next element and the rest.            *)
LEMMA SumPick ==
    ASSUME NEW S, IsFiniteSet(S), NEW f, S # {}
    PROVE  SumFunctionOnSet(f, S) =
             f[Pick(S)] + SumFunctionOnSet(f, S \ {Pick(S)})
<1> DEFINE T == S \ {Pick(S)}
<1>1. PICK g : IsSum(g, f, S) /\ SumFunctionOnSet(f, S) = g[S]
  BY SumIs
<1>2. T \in SUBSET S /\ IsFiniteSet(T)
  BY FS_Subset
<1>3. PICK h : IsSum(h, f, T) /\ SumFunctionOnSet(f, T) = h[T]
  <2> HIDE DEF T
  <2>1. QED
    BY <1>2, SumIs
<1>4. g[T] = h[T]
  <2> HIDE DEF T
  <2>1. QED
    BY <1>1, <1>2, <1>3, SumUnique
<1>5. g[S] = f[Pick(S)] + g[T]
  BY <1>1, SumAt
<1>6. QED
  BY <1>1, <1>3, <1>4, <1>5

(* A sum of natural numbers is a natural number.                           *)
LEMMA SumNat ==
    ASSUME NEW S, IsFiniteSet(S), NEW f, \A x \in S : f[x] \in Nat
    PROVE  SumFunctionOnSet(f, S) \in Nat
<1> DEFINE F == {s \in SUBSET S : SumFunctionOnSet(f, s) \notin Nat}
<1> SUFFICES ASSUME F # {} PROVE FALSE
  OBVIOUS
<1>1. PICK s \in F : \A U \in F : U \subseteq s => U = s
  <2>1. F \in SUBSET (SUBSET S)
    OBVIOUS
  <2> HIDE DEF F
  <2>2. QED
    BY <2>1, MinimalSet
<1>2. s \subseteq S /\ IsFiniteSet(s) /\ s # {}
  <2>1. SumFunctionOnSet(f, {}) \in Nat
    BY SumEmpty
  <2>2. QED
    BY <2>1, FS_Subset
<1>3. Pick(s) \in s /\ s \ {Pick(s)} \notin F
  BY <1>1, <1>2, PickIn
<1>4. SumFunctionOnSet(f, s \ {Pick(s)}) \in Nat
  BY <1>2, <1>3
<1>5. SumFunctionOnSet(f, s) = f[Pick(s)] + SumFunctionOnSet(f, s \ {Pick(s)})
  BY <1>2, SumPick
<1>6. f[Pick(s)] \in Nat
  BY <1>2, <1>3
<1>7. SumFunctionOnSet(f, s) \in Nat
  BY <1>4, <1>5, <1>6
<1>8. QED
  BY <1>7

(* Two functions with the same values have the same sum.                   *)
LEMMA SumSame ==
    ASSUME NEW S, IsFiniteSet(S), NEW f, NEW g, \A x \in S : f[x] = g[x]
    PROVE  SumFunctionOnSet(f, S) = SumFunctionOnSet(g, S)
<1> DEFINE F == {s \in SUBSET S : SumFunctionOnSet(f, s) # SumFunctionOnSet(g, s)}
<1> SUFFICES ASSUME F # {} PROVE FALSE
  OBVIOUS
<1>1. PICK s \in F : \A U \in F : U \subseteq s => U = s
  <2>1. F \in SUBSET (SUBSET S)
    OBVIOUS
  <2> HIDE DEF F
  <2>2. QED
    BY <2>1, MinimalSet
<1>2. s \subseteq S /\ IsFiniteSet(s) /\ s # {}
  BY FS_Subset, SumEmpty
<1>3. Pick(s) \in s /\ s \ {Pick(s)} \notin F
  BY <1>1, <1>2, PickIn
<1>4. SumFunctionOnSet(f, s \ {Pick(s)}) = SumFunctionOnSet(g, s \ {Pick(s)})
  BY <1>2, <1>3
<1>5. /\ SumFunctionOnSet(f, s) = f[Pick(s)] + SumFunctionOnSet(f, s \ {Pick(s)})
      /\ SumFunctionOnSet(g, s) = g[Pick(s)] + SumFunctionOnSet(g, s \ {Pick(s)})
  BY <1>2, SumPick
<1>6. f[Pick(s)] = g[Pick(s)]
  BY <1>2, <1>3
<1>7. SumFunctionOnSet(f, s) = SumFunctionOnSet(g, s)
  BY <1>4, <1>5, <1>6
<1>8. QED
  BY <1>7

(* Any element may be taken out first.                                     *)
LEMMA SumTakeOut ==
    ASSUME NEW S, IsFiniteSet(S), NEW f, \A x \in S : f[x] \in Nat,
           NEW a \in S
    PROVE  SumFunctionOnSet(f, S) = f[a] + SumFunctionOnSet(f, S \ {a})
<1> DEFINE Out(s, b) ==
      SumFunctionOnSet(f, s) = f[b] + SumFunctionOnSet(f, s \ {b})
           F == {s \in SUBSET S : \E b \in s : ~Out(s, b)}
<1> SUFFICES ASSUME F # {} PROVE FALSE
  OBVIOUS
<1>1. PICK s \in F : \A U \in F : U \subseteq s => U = s
  <2>1. F \in SUBSET (SUBSET S)
    OBVIOUS
  <2> HIDE DEF F
  <2>2. QED
    BY <2>1, MinimalSet
<1>2. PICK b \in s : ~Out(s, b)
  OBVIOUS
<1> DEFINE c == Pick(s)
           rest == (s \ {c}) \ {b}
<1>3. s \subseteq S /\ IsFiniteSet(s) /\ c \in s
  BY FS_Subset, PickIn
<1>4. SumFunctionOnSet(f, s) = f[c] + SumFunctionOnSet(f, s \ {c})
  BY <1>3, SumPick
<1>5. b # c
  BY <1>2, <1>4
<1>6. Out(s \ {c}, b) /\ Out(s \ {b}, c)
  <2>1. s \ {c} \in SUBSET S /\ s \ {b} \in SUBSET S
    BY <1>3
  <2>2. s \ {c} \notin F /\ s \ {b} \notin F
    BY <1>1, <1>2, <1>3
  <2>3. b \in s \ {c} /\ c \in s \ {b}
    BY <1>3, <1>5
  <2> HIDE DEF c, Out
  <2>4. QED
    BY <2>1, <2>2, <2>3
<1>7. (s \ {b}) \ {c} = rest
  OBVIOUS
<1>8. SumFunctionOnSet(f, rest) \in Nat /\ f[b] \in Nat /\ f[c] \in Nat
  <2>1. IsFiniteSet(rest) /\ rest \subseteq S
    BY <1>3, FS_Subset
  <2> HIDE DEF rest
  <2>2. QED
    BY <1>3, <2>1, SumNat
<1>9. QED
  BY <1>2, <1>4, <1>6, <1>7, <1>8

-----------------------------------------------------------------------------
(* What a step does to a sum.                                              *)

(* One value changes.                                                      *)
LEMMA SumChange ==
    ASSUME NEW S, IsFiniteSet(S), NEW a \in S, NEW f, NEW g,
           \A x \in S : f[x] \in Nat /\ g[x] \in Nat,
           \A x \in S : x # a => g[x] = f[x]
    PROVE  SumFunctionOnSet(g, S) + f[a] = SumFunctionOnSet(f, S) + g[a]
<1> DEFINE T == S \ {a}
<1>1. IsFiniteSet(T) /\ \A x \in T : f[x] \in Nat /\ f[x] = g[x]
  BY FS_Subset
<1>2. /\ SumFunctionOnSet(f, S) = f[a] + SumFunctionOnSet(f, T)
      /\ SumFunctionOnSet(g, S) = g[a] + SumFunctionOnSet(g, T)
  BY SumTakeOut
<1> HIDE DEF T
<1>3. SumFunctionOnSet(f, T) = SumFunctionOnSet(g, T)
  BY <1>1, SumSame
<1>4. SumFunctionOnSet(f, T) \in Nat
  BY <1>1, SumNat
<1>5. f[a] \in Nat /\ g[a] \in Nat
  OBVIOUS
<1>6. QED
  BY <1>2, <1>3, <1>4, <1>5

(* The sum over one element.                                               *)
LEMMA SumOne ==
    ASSUME NEW a, NEW f, f[a] \in Nat
    PROVE  SumFunctionOnSet(f, {a}) = f[a]
<1>1. IsFiniteSet({a}) /\ {a} \ {a} = {}
  BY FS_Singleton
<1>2. SumFunctionOnSet(f, {a}) = f[a] + SumFunctionOnSet(f, {})
  <2>1. \A x \in {a} : f[x] \in Nat
    OBVIOUS
  <2>2. SumFunctionOnSet(f, {a}) = f[a] + SumFunctionOnSet(f, {a} \ {a})
    BY <1>1, <2>1, SumTakeOut
  <2>3. QED
    BY <1>1, <2>2
<1>3. QED
  BY <1>2, SumEmpty

(* A sum of zeros.                                                         *)
LEMMA SumZero ==
    ASSUME NEW S, IsFiniteSet(S), NEW f, \A x \in S : f[x] = 0
    PROVE  SumFunctionOnSet(f, S) = 0
<1> DEFINE F == {s \in SUBSET S : SumFunctionOnSet(f, s) # 0}
<1> SUFFICES ASSUME F # {} PROVE FALSE
  OBVIOUS
<1>1. PICK s \in F : \A U \in F : U \subseteq s => U = s
  <2>1. F \in SUBSET (SUBSET S)
    OBVIOUS
  <2> HIDE DEF F
  <2>2. QED
    BY <2>1, MinimalSet
<1>2. s \subseteq S /\ IsFiniteSet(s) /\ s # {}
  BY FS_Subset, SumEmpty
<1>3. Pick(s) \in s /\ s \ {Pick(s)} \notin F
  BY <1>1, <1>2, PickIn
<1>4. SumFunctionOnSet(f, s) = f[Pick(s)] + SumFunctionOnSet(f, s \ {Pick(s)})
  BY <1>2, SumPick
<1>5. f[Pick(s)] = 0 /\ SumFunctionOnSet(f, s \ {Pick(s)}) = 0
  BY <1>2, <1>3
<1>6. QED
  BY <1>4, <1>5

(* Two functions of numbers are added value by value.                      *)
LEMMA SumPlus ==
    ASSUME NEW S, IsFiniteSet(S), NEW f, NEW g, NEW h,
           \A x \in S : f[x] \in Nat /\ g[x] \in Nat /\ h[x] = f[x] + g[x]
    PROVE  SumFunctionOnSet(h, S) =
             SumFunctionOnSet(f, S) + SumFunctionOnSet(g, S)
<1> DEFINE Plus(s) == SumFunctionOnSet(h, s) =
                        SumFunctionOnSet(f, s) + SumFunctionOnSet(g, s)
           F == {s \in SUBSET S : ~Plus(s)}
<1> SUFFICES ASSUME F # {} PROVE FALSE
  OBVIOUS
<1>1. PICK s \in F : \A U \in F : U \subseteq s => U = s
  <2>1. F \in SUBSET (SUBSET S)
    OBVIOUS
  <2> HIDE DEF F
  <2>2. QED
    BY <2>1, MinimalSet
<1>2. s \subseteq S /\ IsFiniteSet(s) /\ s # {}
  <2>1. Plus({})
    BY SumEmpty
  <2> HIDE DEF Plus
  <2>2. QED
    BY <2>1, FS_Subset
<1> DEFINE c == Pick(s)
           T == s \ {c}
<1>3. c \in s /\ T \notin F
  BY <1>1, <1>2, PickIn
<1>4. Plus(T)
  BY <1>2, <1>3
<1>5. /\ SumFunctionOnSet(f, s) = f[c] + SumFunctionOnSet(f, T)
      /\ SumFunctionOnSet(g, s) = g[c] + SumFunctionOnSet(g, T)
      /\ SumFunctionOnSet(h, s) = h[c] + SumFunctionOnSet(h, T)
  BY <1>2, SumPick
<1>6. f[c] \in Nat /\ g[c] \in Nat /\ h[c] = f[c] + g[c]
  BY <1>2, <1>3
<1>7. SumFunctionOnSet(f, T) \in Nat /\ SumFunctionOnSet(g, T) \in Nat
  <2>1. IsFiniteSet(T) /\ T \subseteq S
    BY <1>2, FS_Subset
  <2> HIDE DEF T
  <2>2. QED
    BY <2>1, SumNat
<1>8. Plus(s)
  BY <1>4, <1>5, <1>6, <1>7
<1>9. QED
  BY <1>8
-----------------------------------------------------------------------------
(***************************************************************************)
(* Proofs about the $POL of Alchemy, for every set of accounts, every      *)
(* target and any number of alchemies: the pool is what its depositors     *)
(* paid in, a lone handler neither makes nor loses $POL, and what it does  *)
(* are the atomic steps of PoolLedger.                                     *)
(***************************************************************************)
(* The sum of a function on a finite domain.                               *)
LEMMA SumOf ==
    ASSUME NEW S, NEW f, DOMAIN f = S
    PROVE  SumFunction(f) = SumFunctionOnSet(f, S)
BY DEF SumFunction

-----------------------------------------------------------------------------
(* The pool and its depositors.                                            *)
Balanced(p) == p.amount = SumFunction(p.depositors)

(* The pool is the sum of its deposits, and so is every pool that a        *)
(* deposit has read and will write back.                                   *)
BInv ==
    /\ Balanced(pool)
    /\ \A h \in Handlers : handler[h].at \in {"account", "debit", "credit"} =>
          Balanced(handler[h].pool)

(* A new pool is the sum of its deposits: nothing (trigger_alchemy).       *)
LEMMA NewPoolBalanced ==
    ASSUME NEW id
    PROVE  Balanced(NewPool(id))
<1> DEFINE d == [a \in Accounts |-> 0]
<1>1. DOMAIN d = Accounts /\ \A a \in Accounts : d[a] = 0
  OBVIOUS
<1> HIDE DEF d
<1>2. SumFunction(d) = 0
  BY <1>1, AccountsAssumption, SumOf, SumZero
<1>3. QED
  BY <1>2 DEF NewPool, Balanced, d

(* A deposit adds as much to the pool as to its depositor.                 *)
LEMMA CreditBalanced ==
    ASSUME NEW p \in Pools, Balanced(p), NEW a \in Accounts, NEW x \in Nat
    PROVE  Balanced([p EXCEPT !.amount = @ + x,
                              !.depositors = [p.depositors EXCEPT ![a] = @ + x]])
<1> DEFINE D == [p.depositors EXCEPT ![a] = @ + x]
           n == p.amount + x
           q == [p EXCEPT !.amount = n, !.depositors = D]
<1>1. p.amount \in Nat /\ p.depositors \in [Accounts -> Nat]
  BY DEF Pools
<1>2. D \in [Accounts -> Nat] /\ D[a] = p.depositors[a] + x
  BY <1>1
<1>3. \A b \in Accounts : b # a => D[b] = p.depositors[b]
  BY <1>1
<1>4. q.amount = n /\ q.depositors = D
  BY DEF Pools
<1> HIDE DEF D, q
<1>5. SumFunctionOnSet(D, Accounts) + p.depositors[a]
        = SumFunctionOnSet(p.depositors, Accounts) + D[a]
  BY <1>1, <1>2, <1>3, AccountsAssumption, SumChange
<1>6. SumFunction(D) = SumFunctionOnSet(D, Accounts)
  BY <1>2, SumOf
<1>7. SumFunction(p.depositors) = SumFunctionOnSet(p.depositors, Accounts)
  BY <1>1, SumOf
<1>8. SumFunctionOnSet(D, Accounts) \in Nat
  BY <1>2, AccountsAssumption, SumNat
<1>9. SumFunction(D) = n
  BY <1>1, <1>2, <1>5, <1>6, <1>7, <1>8 DEF Balanced
<1>10. Balanced(q)
  BY <1>4, <1>9 DEF Balanced
<1>11. QED
  BY <1>10 DEF q, D

(* What the other handlers hold stays.                                     *)
LEMMA StepBalanced ==
    ASSUME HInv, BInv, NEW h \in Handlers, NEW r, Set(h, r), Balanced(pool'),
           r.at \in {"account", "debit", "credit"} => Balanced(r.pool)
    PROVE  BInv'
<1>1. \A i \in Handlers : handler'[i] = IF i = h THEN r ELSE handler[i]
  BY DEF HInv, Set
<1>2. QED
  BY <1>1 DEF BInv

(* Every step keeps the pools balanced.                                    *)
LEMMA BalancedSteps == HInv /\ BInv /\ [Next]_vars => BInv'
<1> SUFFICES ASSUME HInv, BInv, [Next]_vars PROVE BInv'
  OBVIOUS
<1>1. CASE UNCHANGED vars
  BY <1>1 DEF vars, BInv
<1>2. ASSUME NEW h \in Handlers, Step(h) PROVE BInv'
  <2> DEFINE s == handler[h]
  <2>1. HandlerOK(s) /\ Balanced(pool)
    BY DEF HInv, BInv
  <2>2. s.at \in {"account", "debit", "credit"} => Balanced(s.pool)
    BY DEF BInv
  <2>3. CASE ReadPool(h)
    <3>1. PICK a \in Accounts, x \in Amounts :
            Set(h, [at |-> "account", from |-> a, amount |-> x, pool |-> pool])
      BY <2>3 DEF ReadPool
    <3>2. pool' = pool
      BY <2>3 DEF ReadPool
    <3>3. QED
      BY <2>1, <3>1, <3>2, StepBalanced
  <2>4. CASE ReadAccount(h)
    <3>1. pool' = pool /\ Balanced(s.pool)
      BY <2>2, <2>4 DEF ReadAccount, At
    <3>2. \/ Set(h, Idle)
          \/ Set(h, [at |-> "debit", from |-> s.from, amount |-> s.amount,
                     pool |-> s.pool, read |-> account[s.from]])
      BY <2>4 DEF ReadAccount
    <3>3. Idle.at = "idle"
      BY DEF Idle
    <3>4. QED
      BY <2>1, <3>1, <3>2, <3>3, StepBalanced
  <2>5. CASE Debit(h)
    <3>1. pool' = pool /\ Balanced(s.pool)
      BY <2>2, <2>5 DEF Debit, At
    <3>2. Set(h, [at |-> "credit", from |-> s.from, amount |-> s.amount,
                  pool |-> s.pool])
      BY <2>5 DEF Debit
    <3>3. QED
      BY <2>1, <3>1, <3>2, StepBalanced
  <2>6. CASE Credit(h)
    <3> DEFINE q == [s.pool EXCEPT !.amount = @ + s.amount,
                       !.depositors = [s.pool.depositors EXCEPT ![s.from] = @ + s.amount]]
    <3>1. Depositing(s) /\ Balanced(s.pool)
      BY <2>1, <2>2, <2>6 DEF Credit, At, HandlerOK
    <3>2. s.pool \in Pools /\ s.from \in Accounts /\ s.amount \in Nat
      BY <3>1, AmountsAssumption DEF Depositing, FundedPools
    <3>3. Balanced(q)
      BY <3>1, <3>2, CreditBalanced
    <3>4. pool' = q /\ Set(h, [at |-> "check"])
      BY <2>6 DEF Credit
    <3> HIDE DEF q
    <3>5. QED
      BY <3>3, <3>4, StepBalanced
  <2>7. CASE Check(h)
    <3>1. pool' = pool
      BY <2>7 DEF Check
    <3>2. Set(h, [at |-> "draw", pool |-> pool]) \/ Set(h, Idle)
      BY <2>7 DEF Check
    <3>3. Idle.at = "idle"
      BY DEF Idle
    <3>4. QED
      BY <2>1, <3>1, <3>2, <3>3, StepBalanced
  <2>8. CASE Draw(h)
    <3>1. PICK w \in Winners(s.pool.depositors), base \in {counter, 0} :
            Set(h, [at |-> "mint", pool |-> s.pool, base |-> base,
                    winners |-> w, next |-> 1])
      BY <2>8 DEF Draw
    <3>2. pool' = pool
      BY <2>8 DEF Draw
    <3>3. QED
      BY <2>1, <3>1, <3>2, StepBalanced
  <2>9. CASE Mint(h)
    <3>1. pool' = pool /\ Set(h, [s EXCEPT !.at = "winner"]) /\ s.at = "mint"
      BY <2>9 DEF Mint, At
    <3>2. [s EXCEPT !.at = "winner"].at = "winner"
      BY <2>1, <3>1 DEF HandlerOK, Minter
    <3>3. QED
      BY <2>1, <3>1, <3>2, StepBalanced
  <2>10. CASE ReadWinner(h)
    <3>1. /\ pool' = pool
          /\ Set(h, [at |-> "award", pool |-> s.pool, base |-> s.base,
                     winners |-> s.winners, next |-> s.next,
                     read |-> account[s.winners[s.next]]])
      BY <2>10 DEF ReadWinner
    <3>2. QED
      BY <2>1, <3>1, StepBalanced
  <2>11. CASE Award(h)
    <3> DEFINE step == IF s.next < Len(s.winners) THEN "mint" ELSE "count"
    <3>1. /\ pool' = pool
          /\ Set(h, [at |-> step, pool |-> s.pool, base |-> s.base,
                     winners |-> s.winners, next |-> s.next + 1])
      BY <2>11 DEF Award
    <3>2. QED
      BY <2>1, <3>1, StepBalanced
  <2>12. CASE Count(h)
    <3>1. pool' = pool /\ Set(h, [s EXCEPT !.at = "reset"]) /\ s.at = "count"
      BY <2>12 DEF Count, Goto, Set, At
    <3>2. [s EXCEPT !.at = "reset"].at = "reset"
      BY <2>1, <3>1 DEF HandlerOK, Minter
    <3>3. QED
      BY <2>1, <3>1, <3>2, StepBalanced
  <2>13. CASE Reset(h)
    <3>1. PICK now \in Seconds : pool' = NewPool(now)
      BY <2>13 DEF Reset
    <3>2. s.at = "reset" /\ Set(h, [s EXCEPT !.at = "record"])
      BY <2>13 DEF Reset, Goto, Set, At
    <3>3. [s EXCEPT !.at = "record"].at = "record"
      BY <2>1, <3>2 DEF HandlerOK, Minter
    <3>4. QED
      BY <3>1, <3>2, <3>3, NewPoolBalanced, StepBalanced
  <2>14. CASE Record(h) \/ Fail(h)
    <3>1. pool' = pool /\ Set(h, Idle)
      BY <2>14 DEF Record, Fail
    <3>2. Idle.at = "idle"
      BY DEF Idle
    <3>3. QED
      BY <2>1, <3>1, <3>2, StepBalanced
  <2>15. QED
    BY <1>2, <2>3, <2>4, <2>5, <2>6, <2>7, <2>8, <2>9, <2>10, <2>11, <2>12,
       <2>13, <2>14 DEF Step
<1>3. QED
  BY <1>1, <1>2 DEF Next

(* The pool is what its depositors paid in, however many handlers run at   *)
(* the same time, write back pools that are out of date and fail anywhere: *)
(* a deposit that is overwritten vanishes from both (deposit,              *)
(* trigger_alchemy).                                                       *)
THEOREM PoolsAreTheirDepositors == Spec => []PoolIsItsDepositors
<1>1. Init => HInv /\ BInv
  BY InitOK, NewPoolBalanced DEF Init, BInv, Idle
<1>2. HInv /\ BInv /\ [Next]_vars => (HInv /\ BInv)'
  BY StepsOK, BalancedSteps
<1>3. HInv /\ BInv => PoolIsItsDepositors
  BY DEF BInv, Balanced, PoolIsItsDepositors
<1>4. QED
  BY <1>1, <1>2, <1>3, PTL DEF Spec
-----------------------------------------------------------------------------
(* A lone handler and the $POL.                                            *)
Flight(r) ==
    IF r.at = "credit" THEN r.amount
    ELSE IF r.at = "record" THEN r.pool.amount
    ELSE 0

Balances(acc) == [a \in Accounts |-> acc[a].balance]

(* All $POL there is when the handler is r.                                *)
Total(acc, p, hist, lost, r) ==
    SumFunction(Balances(acc)) + p.amount + SumFunction(hist) + lost + Flight(r)

(* What a lone handler has read is still so.                               *)
Fresh(r, acc, p) ==
    /\ r.at \in {"account", "debit", "credit", "draw", "mint", "winner",
                 "award", "count", "reset"} => r.pool = p
    /\ r.at = "debit" => r.read = acc[r.from]
    /\ r.at = "award" => r.read = acc[r.winners[r.next]]

Paid(total, f) ==
    /\ f = 0 => total = SumFunction(Initial)
    /\ total <= SumFunction(Initial)

LInv(h) ==
    /\ Fresh(handler[h], account, pool)
    /\ Paid(Total(account, pool, history, replaced, handler[h]), failures)

(* The balances add up to a natural number.                                *)
LEMMA BalancesNat ==
    ASSUME NEW acc \in [Accounts -> AccountRecords]
    PROVE  SumFunction(Balances(acc)) \in Nat
<1>1. DOMAIN Balances(acc) = Accounts
  BY DEF Balances
<1>2. \A a \in Accounts : Balances(acc)[a] \in Nat
  BY DEF Balances, AccountRecords
<1>3. QED
  BY <1>1, <1>2, AccountsAssumption, SumOf, SumNat

(* The clock shows finitely many seconds, and zero is one of them.         *)
LEMMA SecondsFinite == IsFiniteSet(Seconds) /\ 0 \in Seconds
BY BoundsAssumption, FS_Interval DEF Seconds

(* All sums are natural numbers.                                           *)
LEMMA SumTypes ==
    ASSUME TypeOK
    PROVE  /\ SumFunction(Balances(account)) \in Nat
           /\ SumFunction(history) \in Nat /\ replaced \in Nat
           /\ SumFunction(Initial) \in Nat
           /\ pool.amount \in Nat
<1>3. SumFunction(Balances(account)) \in Nat
  BY BalancesNat DEF TypeOK, AccountRecords
<1>4. IsFiniteSet(Seconds)
  BY SecondsFinite
<1>5. DOMAIN history = Seconds /\ \A i \in Seconds : history[i] \in Nat
  BY DEF TypeOK
<1>6. SumFunction(history) \in Nat
  BY <1>4, <1>5, SumOf, SumNat
<1>7. DOMAIN Initial = Accounts /\ \A a \in Accounts : Initial[a] \in Nat
  BY InitialAssumption
<1>8. SumFunction(Initial) \in Nat
  BY <1>7, AccountsAssumption, SumOf, SumNat
<1>9. QED
  BY <1>3, <1>6, <1>8 DEF TypeOK, Pools

(* A debit takes the amount out of the sum of the balances.                *)
LEMMA DebitBalances ==
    ASSUME NEW acc \in [Accounts -> AccountRecords], NEW a \in Accounts,
           NEW x \in Nat, x <= acc[a].balance
    PROVE  SumFunction(Balances([acc EXCEPT ![a] = [acc[a] EXCEPT !.balance = @ - x]])) + x
             = SumFunction(Balances(acc))
<1> DEFINE k == [acc[a] EXCEPT !.balance = @ - x]
           f == Balances(acc)
           g == Balances([acc EXCEPT ![a] = k])
<1>1. acc[a].balance \in Nat /\ k.balance = acc[a].balance - x
  BY DEF AccountRecords
<1>2. f[a] = acc[a].balance /\ \A b \in Accounts : f[b] \in Nat
  BY DEF Balances, AccountRecords
<1>3. DOMAIN f = Accounts /\ DOMAIN g = Accounts
  BY DEF Balances
<1> HIDE DEF k
<1>4. g[a] = k.balance /\ \A b \in Accounts : b # a => g[b] = f[b]
  BY DEF Balances
<1> HIDE DEF f, g
<1>5. \A b \in Accounts : f[b] \in Nat /\ g[b] \in Nat
  <2>1. k.balance \in Nat
    BY <1>1
  <2>2. QED
    BY <1>2, <1>4, <2>1
<1>6. SumFunctionOnSet(g, Accounts) + f[a] = SumFunctionOnSet(f, Accounts) + g[a]
  BY <1>4, <1>5, AccountsAssumption, SumChange
<1>7. SumFunctionOnSet(g, Accounts) \in Nat /\ SumFunctionOnSet(f, Accounts) \in Nat
  BY <1>5, AccountsAssumption, SumNat
<1>8. SumFunction(g) = SumFunctionOnSet(g, Accounts)
  BY <1>3, SumOf
<1>9. SumFunction(f) = SumFunctionOnSet(f, Accounts)
  BY <1>3, SumOf
<1>10. SumFunction(g) + x = SumFunction(f)
  BY <1>1, <1>2, <1>4, <1>6, <1>7, <1>8, <1>9
<1>11. QED
  BY <1>10 DEF f, g, k

(* A coin that is given out leaves the balances.                           *)
LEMMA CoinBalances ==
    ASSUME NEW acc \in [Accounts -> AccountRecords], NEW a \in Accounts, NEW c
    PROVE  Balances([acc EXCEPT ![a] = [acc[a] EXCEPT !.coins = c]]) = Balances(acc)
<1> DEFINE k == [acc[a] EXCEPT !.coins = c]
<1>1. k.balance = acc[a].balance
  BY DEF AccountRecords
<1> HIDE DEF k
<1>2. Balances([acc EXCEPT ![a] = k]) = Balances(acc)
  BY <1>1 DEF Balances
<1>3. QED
  BY <1>2 DEF k

(* A record adds what the pool held and takes away what it replaces.       *)
LEMMA RecordHistory ==
    ASSUME NEW D, IsFiniteSet(D), NEW hist \in [D -> Nat], NEW i \in D,
           NEW x \in Nat
    PROVE  SumFunction([hist EXCEPT ![i] = x]) + hist[i] = SumFunction(hist) + x
<1> DEFINE g == [hist EXCEPT ![i] = x]
<1>1. g \in [D -> Nat] /\ g[i] = x
  OBVIOUS
<1>2. \A j \in D : j # i => g[j] = hist[j]
  OBVIOUS
<1> HIDE DEF g
<1>4. SumFunctionOnSet(g, D) + hist[i] = SumFunctionOnSet(hist, D) + g[i]
  <2>1. \A j \in D : hist[j] \in Nat /\ g[j] \in Nat
    BY <1>1
  <2>2. QED
    BY <1>1, <1>2, <2>1, SumChange
<1>5. SumFunction(g) = SumFunctionOnSet(g, D)
  BY <1>1, SumOf
<1>6. SumFunction(hist) = SumFunctionOnSet(hist, D)
  BY <1>1, SumOf
<1>7. SumFunction(g) + hist[i] = SumFunction(hist) + x
  BY <1>1, <1>4, <1>5, <1>6
<1>8. QED
  BY <1>7 DEF g

(* A step that writes nothing and takes nothing in hand.                   *)
LEMMA Reads ==
    ASSUME HInv, NEW h \in Handlers, LInv(h), NEW r, Set(h, r),
           UNCHANGED <<account, pool, history, replaced>>, failures' \in Nat,
           failures' >= failures, Fresh(r, account, pool),
           Flight(r) = Flight(handler[h])
    PROVE  LInv(h)'
<1>1. handler'[h] = r
  BY NewRecord
<1>2. failures \in Nat /\ (failures' = 0 => failures = 0)
  BY BoundsAssumption DEF HInv, TypeOK
<1>3. Total(account, pool, history, replaced, r) = Total(account, pool, history, replaced, handler[h])
  BY DEF Total
<1>4. Paid(Total(account, pool, history, replaced, r), failures')
  BY <1>2, <1>3 DEF LInv, Paid
<1>5. QED
  BY <1>1, <1>4 DEF LInv

(* The steps of a deposit by a lone handler.                               *)
LEMMA DepositPaid ==
    ASSUME NEW h, Handlers = {h}, HInv, LInv(h),
           ReadPool(h) \/ ReadAccount(h) \/ Debit(h) \/ Credit(h) \/ Check(h)
    PROVE  LInv(h)'
<1> DEFINE s == handler[h]
<1>1. /\ TypeOK /\ HandlerOK(s) /\ h \in Handlers
      /\ failures \in Nat /\ failures >= failures
  BY BoundsAssumption DEF HInv, TypeOK
<1>2. Fresh(s, account, pool)
  BY DEF LInv
<1>3. CASE ReadPool(h)
  <2>1. PICK a \in Accounts, x \in Amounts :
          Set(h, [at |-> "account", from |-> a, amount |-> x, pool |-> pool])
    BY <1>3 DEF ReadPool
  <2> DEFINE r == [at |-> "account", from |-> a, amount |-> x, pool |-> pool]
  <2>2. s.at = "idle" /\ UNCHANGED <<account, pool, history, failures, replaced>>
    BY <1>3 DEF ReadPool, At
  <2>3. /\ Fresh(r, account, pool)
        /\ Flight(r) = Flight(s)
    BY <2>2 DEF Fresh, Flight
  <2> HIDE DEF r
  <2>4. QED
    BY <1>1, <2>1, <2>2, <2>3, Reads DEF r
<1>4. CASE ReadAccount(h)
  <2> DEFINE r == [at |-> "debit", from |-> s.from, amount |-> s.amount,
                   pool |-> s.pool, read |-> account[s.from]]
  <2>1. s.at = "account" /\ UNCHANGED <<account, pool, history, failures, replaced>>
    BY <1>4 DEF ReadAccount, At
  <2>2. /\ Fresh(r, account, pool)
        /\ Flight(r) = Flight(s)
    BY <1>2, <2>1 DEF Fresh, Flight
  <2>3. /\ Fresh(Idle, account, pool)
        /\ Flight(Idle) = Flight(s)
    BY <1>2, <2>1 DEF Fresh, Flight, Idle
  <2>4. Set(h, Idle) \/ Set(h, r)
    BY <1>4 DEF ReadAccount
  <2> HIDE DEF r
  <2>5. QED
    BY <1>1, <2>1, <2>2, <2>3, <2>4, Reads
<1>5. CASE Debit(h)
  <2> DEFINE r == [at |-> "credit", from |-> s.from, amount |-> s.amount,
                   pool |-> s.pool]
             x == s.amount
             acc == [account EXCEPT ![s.from] =
                       [account[s.from] EXCEPT !.balance = @ - x]]
  <2>1. /\ s.at = "debit" /\ UNCHANGED <<pool, history, failures, replaced>>
        /\ Set(h, r)
    BY <1>5 DEF Debit, At
  <2>2. /\ s.read = account[s.from] /\ s.from \in Accounts /\ x \in Nat
        /\ x <= account[s.from].balance
    BY <1>1, <1>2, <2>1, AmountsAssumption DEF HandlerOK, Depositing, Fresh
  <2>3. account' = acc
    BY <1>5, <2>2 DEF Debit
  <2>4. handler'[h] = r
    BY <1>1, <2>1, NewRecord
  <2>5. SumFunction(Balances(acc)) + x = SumFunction(Balances(account))
    <3>1. account \in [Accounts -> AccountRecords]
      BY <1>1 DEF TypeOK, AccountRecords
    <3>2. QED
      BY <2>2, <3>1, DebitBalances
  <2>6. Fresh(r, acc, pool)
    BY <1>2, <2>1 DEF Fresh
  <2>7. Flight(r) = x /\ Flight(s) = 0
    BY <2>1 DEF Flight
  <2> HIDE DEF acc, r
  <2>8. Total(acc, pool, history, replaced, r) = Total(account, pool, history, replaced, s)
    <3>1. SumFunction(Balances(acc)) \in Nat
      <4>1. acc \in [Accounts -> AccountRecords]
        <5>1. HInv'
          BY <1>1, <1>5, DepositOK
        <5>2. QED
          BY <2>3, <5>1 DEF HInv, TypeOK, AccountRecords
      <4>2. QED
        BY <4>1, BalancesNat
    <3>2. QED
      BY <1>1, <2>2, <2>5, <2>7, <3>1, SumTypes DEF Total
  <2>9. QED
    BY <2>1, <2>3, <2>4, <2>6, <2>8 DEF LInv
<1>6. CASE Credit(h)
  <2> DEFINE r == [at |-> "check"]
             x == s.amount
             q == [pool EXCEPT !.amount = @ + x,
                     !.depositors = [pool.depositors EXCEPT ![s.from] = @ + x]]
  <2>1. /\ s.at = "credit" /\ UNCHANGED <<account, history, failures, replaced>>
        /\ Set(h, r)
    BY <1>6 DEF Credit, At
  <2>2. s.pool = pool /\ x \in Nat
    BY <1>1, <1>2, <2>1, AmountsAssumption DEF HandlerOK, Depositing, Fresh
  <2>3. pool' = q
    BY <1>6, <2>2 DEF Credit
  <2>4. handler'[h] = r
    BY <1>1, <2>1, NewRecord
  <2>5. q.amount = pool.amount + x /\ q.id = pool.id
    BY <1>1 DEF TypeOK, Pools
  <2>6. Fresh(r, account, q)
    BY DEF Fresh
  <2>7. Flight(r) = 0 /\ Flight(s) = x
    BY <2>1 DEF Flight
  <2> HIDE DEF q, r
  <2>8. Total(account, q, history, replaced, r) = Total(account, pool, history, replaced, s)
    BY <1>1, <2>2, <2>5, <2>7, SumTypes DEF Total
  <2>9. QED
    BY <2>1, <2>3, <2>4, <2>6, <2>8 DEF LInv
<1>7. CASE Check(h)
  <2> DEFINE r == [at |-> "draw", pool |-> pool]
  <2>1. s.at = "check" /\ UNCHANGED <<account, pool, history, failures, replaced>>
    BY <1>7 DEF Check, At
  <2>2. /\ Fresh(r, account, pool)
        /\ Flight(r) = Flight(s)
    BY <2>1 DEF Fresh, Flight
  <2>3. /\ Fresh(Idle, account, pool)
        /\ Flight(Idle) = Flight(s)
    BY <2>1 DEF Fresh, Flight, Idle
  <2>4. Set(h, Idle) \/ Set(h, r)
    BY <1>7 DEF Check
  <2> HIDE DEF r
  <2>5. QED
    BY <1>1, <2>1, <2>2, <2>3, <2>4, Reads
<1>8. QED
  BY <1>3, <1>4, <1>5, <1>6, <1>7

(* The steps of an alchemy by a lone handler.                              *)
LEMMA AlchemyPaid ==
    ASSUME NEW h, Handlers = {h}, HInv, LInv(h),
           \/ Draw(h) \/ Mint(h) \/ ReadWinner(h) \/ Award(h)
           \/ Count(h) \/ Reset(h) \/ Record(h)
    PROVE  LInv(h)'
<1> DEFINE s == handler[h]
<1>1. /\ TypeOK /\ HandlerOK(s) /\ h \in Handlers
      /\ failures \in Nat /\ failures >= failures
  BY BoundsAssumption DEF HInv, TypeOK
<1>2. Fresh(s, account, pool)
  BY DEF LInv
<1>3. CASE Draw(h)
  <2>1. PICK w \in Winners(s.pool.depositors), base \in {counter, 0} :
          /\ Set(h, [at |-> "mint", pool |-> s.pool, base |-> base,
                     winners |-> w, next |-> 1])
          /\ failures' = failures \/ failures' = failures + 1
    BY <1>3 DEF Draw
  <2> DEFINE r == [at |-> "mint", pool |-> s.pool, base |-> base,
                   winners |-> w, next |-> 1]
  <2>2. /\ s.at = "draw" /\ UNCHANGED <<account, pool, history, replaced>>
        /\ failures' \in Nat /\ failures' >= failures
    BY <1>1, <1>3, <2>1 DEF Draw, At
  <2>3. Fresh(r, account, pool) /\ Flight(r) = Flight(s)
    BY <1>2, <2>2 DEF Fresh, Flight
  <2> HIDE DEF r
  <2>4. QED
    BY <1>1, <2>1, <2>2, <2>3, Reads DEF r
<1>4. CASE Mint(h)
  <2> DEFINE r == [s EXCEPT !.at = "winner"]
  <2>1. /\ s.at = "mint" /\ UNCHANGED <<account, pool, history, failures, replaced>>
        /\ Set(h, r)
    BY <1>4 DEF Mint, At
  <2>2. r.at = "winner" /\ r.pool = s.pool
    BY <1>1, <2>1 DEF HandlerOK, Minter
  <2>3. Fresh(r, account, pool) /\ Flight(r) = Flight(s)
    BY <1>2, <2>1, <2>2 DEF Fresh, Flight
  <2> HIDE DEF r
  <2>4. QED
    BY <1>1, <2>1, <2>3, Reads
<1>5. CASE ReadWinner(h)
  <2> DEFINE r == [at |-> "award", pool |-> s.pool, base |-> s.base,
                   winners |-> s.winners, next |-> s.next,
                   read |-> account[s.winners[s.next]]]
  <2>1. /\ s.at = "winner" /\ UNCHANGED <<account, pool, history, failures, replaced>>
        /\ Set(h, r)
    BY <1>5 DEF ReadWinner, At
  <2>2. Fresh(r, account, pool) /\ Flight(r) = Flight(s)
    BY <1>2, <2>1 DEF Fresh, Flight
  <2> HIDE DEF r
  <2>3. QED
    BY <1>1, <2>1, <2>2, Reads
<1>6. CASE Award(h)
  <2> DEFINE step == IF s.next < Len(s.winners) THEN "mint" ELSE "count"
             r == [at |-> step, pool |-> s.pool, base |-> s.base,
                   winners |-> s.winners, next |-> s.next + 1]
             a == s.winners[s.next]
             c == account[a].coins \cup {CoinId(s.next, s.base)}
             acc == [account EXCEPT ![a] = [account[a] EXCEPT !.coins = c]]
  <2>1. s.at = "award" /\ UNCHANGED <<pool, history, replaced>> /\ Set(h, r)
    BY <1>6 DEF Award, At
  <2>2. Fresh(r, account, pool) /\ Flight(r) = Flight(s)
    BY <1>2, <2>1 DEF Fresh, Flight
  <2>3. s.read = account[a]
    BY <1>2, <2>1 DEF Fresh
  <2>4. a \in Accounts
    <3>1. Minter(s) /\ s.next \in 1 .. Len(s.winners)
      BY <1>1, <2>1 DEF HandlerOK
    <3>2. QED
      BY <3>1, CoinIdType DEF Minter
  <2>5. CASE UNCHANGED account /\ failures' = failures + 1
    <3>1. failures' \in Nat /\ failures' >= failures
      BY <1>1, <2>5
    <3> HIDE DEF r
    <3>2. QED
      BY <1>1, <2>1, <2>2, <2>5, <3>1, Reads
  <2>6. CASE account' = acc /\ UNCHANGED failures
    <3>1. handler'[h] = r
      BY <1>1, <2>1, NewRecord
    <3>2. account \in [Accounts -> AccountRecords]
      BY <1>1 DEF TypeOK, AccountRecords
    <3>3. Balances(acc) = Balances(account)
      BY <2>4, <3>2, CoinBalances
    <3>4. Fresh(r, acc, pool)
      BY <2>2 DEF Fresh
    <3> HIDE DEF acc, r
    <3>5. Total(acc, pool, history, replaced, r) = Total(account, pool, history, replaced, s)
      BY <2>2, <3>3 DEF Total
    <3>6. QED
      BY <2>1, <2>6, <3>1, <3>4, <3>5 DEF LInv
  <2>7. \/ account' = acc /\ failures' = failures
        \/ account' = account /\ failures' = failures + 1
    BY <1>6, <2>3 DEF Award
  <2>8. QED
    BY <2>5, <2>6, <2>7
<1>7. CASE Count(h)
  <2> DEFINE r == [s EXCEPT !.at = "reset"]
  <2>1. /\ s.at = "count" /\ UNCHANGED <<account, pool, history, failures, replaced>>
        /\ Set(h, r)
    BY <1>7 DEF Count, Goto, Set, At
  <2>2. r.at = "reset" /\ r.pool = s.pool
    BY <1>1, <2>1 DEF HandlerOK, Minter
  <2>3. Fresh(r, account, pool) /\ Flight(r) = Flight(s)
    BY <1>2, <2>1, <2>2 DEF Fresh, Flight
  <2> HIDE DEF r
  <2>4. QED
    BY <1>1, <2>1, <2>3, Reads
<1>8. CASE Reset(h)
  <2>1. PICK now \in Seconds : pool' = NewPool(now)
    BY <1>8 DEF Reset
  <2> DEFINE r == [s EXCEPT !.at = "record"]
             q == NewPool(now)
  <2>2. /\ s.at = "reset" /\ UNCHANGED <<account, history, failures, replaced>>
        /\ Set(h, r) /\ pool' = q
    BY <1>8, <2>1 DEF Reset, Goto, Set, At
  <2>3. r.at = "record" /\ r.pool = s.pool
    BY <1>1, <2>2 DEF HandlerOK, Minter
  <2>4. s.pool = pool
    BY <1>2, <2>2 DEF Fresh
  <2>5. q.amount = 0
    BY DEF NewPool
  <2>6. handler'[h] = r
    BY <1>1, <2>2, NewRecord
  <2>7. Fresh(r, account, q)
    BY <2>3 DEF Fresh
  <2>8. Flight(r) = pool.amount /\ Flight(s) = 0
    BY <2>2, <2>3, <2>4 DEF Flight
  <2> HIDE DEF r, q
  <2>9. Total(account, q, history, replaced, r) = Total(account, pool, history, replaced, s)
    BY <1>1, <2>5, <2>8, SumTypes DEF Total
  <2>10. QED
    BY <2>2, <2>6, <2>7, <2>9 DEF LInv
<1>9. CASE Record(h)
  <2> DEFINE id == s.pool.id
             hist == [history EXCEPT ![id] = s.pool.amount]
             lost == replaced + history[id]
  <2>1. /\ s.at = "record" /\ UNCHANGED <<account, pool, failures>>
        /\ Set(h, Idle) /\ history' = hist /\ replaced' = lost
    BY <1>9 DEF Record, At
  <2>2. id \in Seconds /\ s.pool.amount \in Nat
    BY <1>1, <2>1 DEF HandlerOK, Minter, FullPools, FundedPools, Pools
  <2>3. handler'[h] = Idle /\ Idle.at = "idle"
    BY <1>1, <2>1, NewRecord DEF Idle
  <2>4. /\ SumFunction(hist) + history[id] = SumFunction(history) + s.pool.amount
        /\ SumFunction(hist) \in Nat /\ history[id] \in Nat
    <3> HIDE DEF id
    <3>1. history \in [Seconds -> Nat] /\ history[id] \in Nat
      BY <1>1, <2>2 DEF TypeOK
    <3>2. SumFunction(hist) + history[id] = SumFunction(history) + s.pool.amount
      <4> DEFINE x == s.pool.amount
      <4>1. x \in Nat /\ id \in Seconds
        BY <2>2
      <4> HIDE DEF x
      <4>2. SumFunction([history EXCEPT ![id] = x]) + history[id] = SumFunction(history) + x
        BY <3>1, <4>1, SecondsFinite, RecordHistory
      <4>3. QED
        BY <4>2 DEF x
    <3>3. DOMAIN hist = Seconds /\ \A i \in Seconds : hist[i] \in Nat
      BY <2>2, <3>1
    <3>4. SumFunction(hist) \in Nat
      BY <3>3, SecondsFinite, SumOf, SumNat
    <3>5. QED
      BY <3>1, <3>2, <3>4
  <2> HIDE DEF hist, id
  <2>5. Fresh(Idle, account, pool)
    BY <2>3 DEF Fresh
  <2>6. Flight(Idle) = 0 /\ Flight(s) = s.pool.amount
    BY <2>1, <2>3 DEF Flight
  <2>7. Total(account, pool, hist, lost, Idle) = Total(account, pool, history, replaced, s)
    BY <1>1, <2>2, <2>4, <2>6, SumTypes DEF Total
  <2> HIDE DEF lost
  <2>8. QED
    BY <2>1, <2>3, <2>5, <2>7 DEF LInv
<1>10. QED
  BY <1>3, <1>4, <1>5, <1>6, <1>7, <1>8, <1>9

(* A handler that ends half-way loses what it has in hand.                 *)
LEMMA FailPaid ==
    ASSUME NEW h, Handlers = {h}, HInv, LInv(h), Fail(h)
    PROVE  LInv(h)'
<1> DEFINE s == handler[h]
<1>1. TypeOK /\ HandlerOK(s) /\ h \in Handlers /\ failures \in Nat
  BY BoundsAssumption DEF HInv, TypeOK
<1>2. /\ UNCHANGED <<account, pool, history, replaced>> /\ failures' = failures + 1
      /\ Set(h, Idle)
  BY DEF Fail
<1>3. handler'[h] = Idle /\ Idle.at = "idle"
  BY <1>1, <1>2, NewRecord DEF Idle
<1>4. Fresh(Idle, account, pool)
  BY <1>3 DEF Fresh, LInv
<1>5. Flight(s) \in Nat /\ Flight(Idle) = 0
  BY <1>1, <1>3, AmountsAssumption
     DEF Flight, HandlerOK, Depositing, Minter, FullPools, FundedPools, Pools
<1>6. Total(account, pool, history, replaced, Idle) <= Total(account, pool, history, replaced, s)
  BY <1>1, <1>5, SumTypes DEF Total
<1>7. /\ Total(account, pool, history, replaced, Idle) \in Nat
      /\ Total(account, pool, history, replaced, s) \in Nat
  BY <1>1, <1>5, SumTypes DEF Total
<1>8. Paid(Total(account, pool, history, replaced, Idle), failures')
  BY <1>1, <1>2, <1>6, <1>7, SumTypes DEF LInv, Paid
<1>9. QED
  BY <1>2, <1>3, <1>4, <1>8 DEF LInv

(* Alone, a handler keeps the $POL together.                               *)
LEMMA PaidStays ==
    ASSUME NEW h, Handlers = {h}, HInv, LInv(h), [Next]_vars
    PROVE  LInv(h)'
<1>1. CASE UNCHANGED vars
  BY <1>1 DEF vars, LInv
<1>2. CASE Next
  <2>1. Step(h)
    BY <1>2 DEF Next
  <2>2. QED
    BY <2>1, DepositPaid, AlchemyPaid, FailPaid DEF Step
<1>3. QED
  BY <1>1, <1>2

(* Before the first deposit all $POL is in the accounts.                   *)
LEMMA PaidAtFirst ==
    ASSUME NEW h, Handlers = {h}, Init
    PROVE  LInv(h)
<1>1. handler[h] = Idle /\ Idle.at = "idle" /\ pool = NewPool(0) /\ failures = 0
  BY DEF Init, Idle
<1>2. history = [second \in Seconds |-> 0] /\ replaced = 0
  BY DEF Init
<1>3. SumFunction(history) = 0
  <2>1. DOMAIN history = Seconds /\ \A i \in Seconds : history[i] = 0
    BY <1>2
  <2>2. QED
    BY <2>1, SecondsFinite, SumOf, SumZero
<1>4. Balances(account) = Initial
  BY InitialAssumption DEF Init, Balances
<1>5. pool.amount = 0 /\ Flight(Idle) = 0
  BY <1>1 DEF NewPool, Flight
<1>6. SumFunction(Initial) \in Nat
  BY InitOK, SumTypes DEF HInv
<1>7. Total(account, pool, history, replaced, Idle) = SumFunction(Initial)
  BY <1>2, <1>3, <1>4, <1>5, <1>6 DEF Total
<1>8. Paid(Total(account, pool, history, replaced, Idle), failures)
  BY <1>6, <1>7 DEF Paid
<1>9. Fresh(Idle, account, pool)
  BY <1>1, <1>2 DEF Fresh
<1>10. QED
  BY <1>1, <1>8, <1>9 DEF LInv

(* What a lone handler has in hand is all that is in hand.                 *)
LEMMA PaidIsConserved ==
    ASSUME NEW h, Handlers = {h}, HInv, LInv(h)
    PROVE  Conserved
<1> DEFINE f == [i \in Handlers |-> InFlight(i)]
<1>1. f[h] = Flight(handler[h])
  BY DEF InFlight, Flight, At
<1>2. Flight(handler[h]) \in Nat
  BY AmountsAssumption DEF HInv, Flight, HandlerOK, Depositing, Minter,
                           FullPools, FundedPools, Pools
<1>3. DOMAIN f = {h}
  OBVIOUS
<1> HIDE DEF f
<1>4. SumFunction(f) = Flight(handler[h])
  BY <1>1, <1>2, <1>3, SumOf, SumOne
<1>5. SumFunction([i \in Handlers |-> InFlight(i)]) = Flight(handler[h])
  BY <1>4 DEF f
<1>6. QED
  BY <1>5 DEF LInv, Paid, Total, Balances, Conserved

(* Handled one request at a time, $POL is neither made nor lost: whatever  *)
(* the accounts, the target and the number of alchemies, the balances, the *)
(* pool, what is recorded as burned and what the handler has in hand add   *)
(* up to the initial supply, less only what was burned by the records that *)
(* another pool of the same second has replaced; a handler that ends       *)
(* half-way may lose some, but makes none (deposit, trigger_alchemy).      *)
THEOREM LoneHandlerConserves ==
    ASSUME NEW h, Handlers = {h}
    PROVE  Spec => []Conserved
<1>1. Init => HInv /\ LInv(h)
  BY InitOK, PaidAtFirst
<1>2. HInv /\ LInv(h) /\ [Next]_vars => (HInv /\ LInv(h))'
  BY StepsOK, PaidStays
<1>3. HInv /\ LInv(h) => Conserved
  BY PaidIsConserved
<1>4. QED
  BY <1>1, <1>2, <1>3, PTL DEF Spec

(***************************************************************************)
(* A lone handler implements the atomic steps of PoolLedger.               *)
(*                                                                         *)
(* Its record alone tells what the ledger holds: a credit in hand is part  *)
(* of the stake, what is about to be recorded is already burned, and the   *)
(* coins of a running alchemy are not given out before the pool is reset.  *)
(* The coins of an alchemy are those of its draw because each is stored    *)
(* with the next number, and no other coin ever gets that number.          *)
(***************************************************************************)

MintingSteps == {"mint", "winner", "award", "count", "reset"}

(* How many of the winners' coins are stored.                              *)
Stored(r) ==
    IF r.at = "mint" THEN r.next - 1
    ELSE IF r.at \in {"winner", "award"} THEN r.next
    ELSE Len(r.winners)

(* The coins a running alchemy has stored are those of its winners.        *)
InProgress(r, m, k) ==
    r.at \in MintingSteps =>
        /\ r.winners \in Winners(r.pool.depositors)
        /\ r.at = "reset" => k = r.base + Len(r.winners)
        /\ \A i \in 1 .. Stored(r) :
              [id |-> CoinId(i, r.base), owner |-> r.winners[i]] \in m

AInv(h) == failures = 0 => InProgress(handler[h], minted, counter)

(* What a lone handler at r makes of the ledger.                           *)
StakeAt(p, r) ==
    [a \in Accounts |->
        p.depositors[a]
        + (IF r.at = "credit" /\ r.from = a THEN r.amount ELSE 0)]

RecordsAt(hist, r) ==
    IF r.at = "record" THEN [hist EXCEPT ![r.pool.id] = r.pool.amount]
    ELSE hist

SettledAt(r, k) == IF r.at \in MintingSteps THEN r.base ELSE k

(* The coins with a number up to n, as the ledger has them.                *)
Given(m, n) ==
    {[prize |-> c.id.prize, serial |-> c.id.serial, owner |-> c.owner] :
        c \in {d \in m : d.id.serial <= n}}

View(h) ==
    failures = 0 =>
        /\ Funds = Balances(account)
        /\ Stake = StakeAt(pool, handler[h])
        /\ Records = RecordsAt(history, handler[h])
        /\ CoinsGiven = Given(minted, SettledAt(handler[h], counter))

-----------------------------------------------------------------------------
(* The operators PoolLedger takes from the library are the ones of Alchemy.*)
LEMMA LedgerSum ==
    ASSUME NEW f
    PROVE  Ledger!SumFunction(f) = SumFunction(f)
BY DEF Ledger!SumFunction, Ledger!SumFunctionOnSet, Ledger!FoldFunctionOnSet,
       Ledger!MapThenFoldSet, SumFunction, SumFunctionOnSet,
       FoldFunctionOnSet, MapThenFoldSet

(* A draw of select_alchemy_winners is a draw of the ledger.               *)
LEMMA LedgerDraws ==
    ASSUME NEW d
    PROVE  Ledger!Draws({a \in Accounts : d[a] > 0}) = Winners(d)
<1> DEFINE D == {a \in Accounts : d[a] > 0}
           k == Min({Len(Prizes), Cardinality(D)})
           n == Ledger!Min({Len(Ledger!Prizes), Ledger!Cardinality(D)})
<1>1. Ledger!Cardinality(D) = Cardinality(D)
  BY DEF Ledger!Cardinality, Cardinality
<1>2. Ledger!Prizes = Prizes
  BY DEF Ledger!Prizes, Prizes
<1>3. n = k
  BY <1>1, <1>2 DEF Ledger!Min, Min
<1>4. Ledger!Draws(D) = Ledger!Injection(1 .. n, D)
  BY DEF Ledger!Draws
<1>5. Winners(d) = Injection(1 .. k, D)
  BY DEF Winners
<1>6. Ledger!Injection(1 .. k, D) = Injection(1 .. k, D)
  BY DEF Ledger!Injection, Injection, Ledger!IsInjective, IsInjective
<1> HIDE DEF k, n
<1>7. QED
  BY <1>3, <1>4, <1>5, <1>6

-----------------------------------------------------------------------------
(* The refinement mapping for a lone handler.                              *)

(* The sum over all handlers is the share of the only one.                 *)
LEMMA LoneSum ==
    ASSUME NEW h, Handlers = {h}, NEW f, DOMAIN f = Handlers, f[h] \in Nat
    PROVE  SumFunction(f) = f[h]
BY SumOf, SumOne

(* The stake of an account is its deposits and what the lone handler is    *)
(* about to credit to it.                                                  *)
LEMMA StakeView ==
    ASSUME NEW h, Handlers = {h}, HInv
    PROVE  Stake = StakeAt(pool, handler[h])
<1> DEFINE f(a) == [i \in Handlers |-> IF At(i, "credit") /\ handler[i].from = a
                                       THEN handler[i].amount ELSE 0]
           x(a) == IF handler[h].at = "credit" /\ handler[h].from = a
                   THEN handler[h].amount ELSE 0
<1>1. ASSUME NEW a \in Accounts PROVE SumFunction(f(a)) = x(a)
  <2>1. f(a)[h] = x(a)
    BY DEF At
  <2>2. x(a) \in Nat
    BY AmountsAssumption DEF HInv, HandlerOK, Depositing
  <2>3. DOMAIN f(a) = Handlers
    OBVIOUS
  <2> HIDE DEF f, x
  <2>4. QED
    BY <2>1, <2>2, <2>3, LoneSum
<1>2. Stake = [a \in Accounts |-> pool.depositors[a] + SumFunction(f(a))]
  BY DEF Stake
<1>3. StakeAt(pool, handler[h]) = [a \in Accounts |-> pool.depositors[a] + x(a)]
  BY DEF StakeAt
<1> HIDE DEF f, x
<1>4. QED
  BY <1>1, <1>2, <1>3

(* The records are those stored, with the one the lone handler is about to *)
(* write.                                                                  *)
LEMMA RecordsView ==
    ASSUME NEW h, Handlers = {h}
    PROVE  Records = RecordsAt(history, handler[h])
<1>1. CASE Recording(h)
  <2>1. (CHOOSE i \in Handlers : Recording(i)) = h
    BY <1>1
  <2>2. QED
    BY <1>1, <2>1 DEF Records, RecordsAt, Recording, At
<1>2. CASE ~Recording(h)
  BY <1>2 DEF Records, RecordsAt, Recording, At
<1>3. QED
  BY <1>1, <1>2

(* The coins of finished alchemies are numbered up to the base of the      *)
(* running one, or up to the counter.                                      *)
LEMMA SettledView ==
    ASSUME NEW h, Handlers = {h}
    PROVE  Settled = SettledAt(handler[h], counter)
<1>1. CASE Minting(h)
  <2>1. (CHOOSE i \in Handlers : Minting(i)) = h
    BY <1>1
  <2>2. QED
    BY <1>1, <2>1 DEF Settled, SettledAt, Minting, MintingSteps
<1>2. CASE ~Minting(h)
  BY <1>2 DEF Settled, SettledAt, Minting, MintingSteps
<1>3. QED
  BY <1>1, <1>2

(* Of the coins an account holds those of finished alchemies are the ones  *)
(* the ledger has given to it.                                             *)
LEMMA CoinsView ==
    ASSUME NEW h, Handlers = {h}, HInv, CInv(h), AInv(h), failures = 0
    PROVE  CoinsGiven = Given(minted, SettledAt(handler[h], counter))
<1> DEFINE r == handler[h]
           n == SettledAt(r, counter)
           k == Handed(r, counter)
<1>1. /\ HandlerOK(r) /\ counter \in Nat /\ CoinInv(r, account, counter, minted)
      /\ minted \subseteq [id : CoinIds, owner : Accounts]
  BY DEF HInv, TypeOK, CInv
<1>2. n \in Nat /\ k \in Nat
  <2>1. r.at \in MintingSteps => r.base \in Nat /\ Len(r.winners) \in Nat
    BY <1>1 DEF MintingSteps, HandlerOK, Minter, Draws
  <2>2. n \in Nat
    BY <1>1, <2>1 DEF SettledAt
  <2>3. r.at \in {"mint", "winner", "award"} => r.next \in Nat \ {0}
    BY <1>1, <2>1 DEF HandlerOK, MintingSteps
  <2>4. k \in Nat
    BY <1>1, <2>1, <2>3 DEF Handed, Issued, MintingSteps
  <2>5. QED
    BY <2>2, <2>4
<1>3. n <= k
  <2>1. r.at = "reset" => counter = r.base + Len(r.winners)
    BY DEF AInv, InProgress, MintingSteps
  <2>2. r.at \in MintingSteps => r.base \in Nat /\ Len(r.winners) \in Nat
    BY <1>1 DEF MintingSteps, HandlerOK, Minter, Draws
  <2>3. r.at \in {"mint", "winner", "award"} => r.next \in Nat \ {0}
    BY <1>1, <2>2 DEF HandlerOK, MintingSteps
  <2>4. r.at \in {"mint", "winner", "award", "count"} => r.base = counter
    BY <1>1 DEF CoinInv, UpToDate
  <2>5. QED
    BY <1>1, <2>1, <2>2, <2>3, <2>4 DEF SettledAt, Handed, Issued, MintingSteps
<1>4. \A a \in Accounts : account[a].coins =
        {i \in CoinIds : \E c \in minted : c.id = i /\ c.owner = a /\ i.serial <= k}
  BY <1>1 DEF CoinInv, Holds
<1>5. CoinsGiven =
        UNION {{[prize |-> i.prize, serial |-> i.serial, owner |-> a] :
                   i \in {j \in account[a].coins : j.serial <= n}} : a \in Accounts}
  BY SettledView DEF CoinsGiven
<1> HIDE DEF n, k, r
<1>6. \A c \in minted : /\ c.id \in CoinIds /\ c.owner \in Accounts
                          /\ c.id.serial <= n => c.id.serial <= k
  BY <1>1, <1>2, <1>3 DEF CoinIds
<1>7. ASSUME NEW x \in CoinsGiven PROVE x \in Given(minted, n)
  <2>1. PICK a \in Accounts : \E i \in account[a].coins :
          i.serial <= n /\ x = [prize |-> i.prize, serial |-> i.serial, owner |-> a]
    BY <1>5, <1>7
  <2> PICK i \in account[a].coins :
          i.serial <= n /\ x = [prize |-> i.prize, serial |-> i.serial, owner |-> a]
    BY <2>1
  <2>2. PICK c \in minted : c.id = i /\ c.owner = a
    BY <1>4
  <2>3. c \in {d \in minted : d.id.serial <= n}
    BY <2>2
  <2>4. QED
    BY <2>2, <2>3 DEF Given
<1>8. ASSUME NEW x \in Given(minted, n) PROVE x \in CoinsGiven
  <2>1. PICK c \in minted : /\ c.id.serial <= n
                            /\ x = [prize |-> c.id.prize,
                                    serial |-> c.id.serial, owner |-> c.owner]
    BY <1>8 DEF Given
  <2>2. c.owner \in Accounts /\ c.id \in account[c.owner].coins
    <3> c.id.serial <= n
      BY <2>1
    <3>1. c.owner \in Accounts /\ c.id \in CoinIds /\ c.id.serial <= k
      BY <1>1, <1>2, <1>3 DEF CoinIds
    <3>2. account[c.owner].coins =
            {i \in CoinIds : \E d \in minted :
                d.id = i /\ d.owner = c.owner /\ i.serial <= k}
      BY <1>4, <3>1
    <3>3. QED
      BY <3>1, <3>2
  <2>3. QED
    BY <1>5, <2>1, <2>2
<1>9. QED
  BY <1>7, <1>8 DEF n, r

-----------------------------------------------------------------------------
(* The coins of the running alchemy.                                       *)

(* A handler that runs no alchemy has stored no coin of one.               *)
LEMMA NoAlchemy ==
    ASSUME HInv, NEW h \in Handlers, NEW r, Set(h, r), r.at \notin MintingSteps
    PROVE  AInv(h)'
<1>1. handler'[h] = r
  BY NewRecord
<1>2. QED
  BY <1>1 DEF AInv, InProgress

(* The steps of a handler keep the coins of the alchemy it runs.           *)
LEMMA AlchemyStep ==
    ASSUME HInv, NEW h \in Handlers, CInv(h), AInv(h), failures' = 0, Step(h)
    PROVE  AInv(h)'
<1> DEFINE s == handler[h]
<1>1. TypeOK /\ HandlerOK(s) /\ counter \in Nat /\ failures \in Nat
  BY BoundsAssumption DEF HInv, TypeOK
<1>2. ~Fail(h) /\ failures = 0
  BY NoFailure
<1>3. InProgress(s, minted, counter) /\ CoinInv(s, account, counter, minted)
  BY <1>2 DEF AInv, CInv
<1>4. ASSUME s.at \in MintingSteps
      PROVE  /\ s.base \in Nat /\ Len(s.winners) \in Nat
             /\ s.at \in {"mint", "winner", "award"} =>
                  s.next \in 1 .. Len(s.winners) /\ s.next \in Nat \ {0}
  BY <1>1, <1>4 DEF MintingSteps, HandlerOK, Minter, Draws
<1>5. CASE ReadPool(h)
  <2>1. PICK a \in Accounts, x \in Amounts :
          Set(h, [at |-> "account", from |-> a, amount |-> x, pool |-> pool])
    BY <1>5 DEF ReadPool
  <2>2. QED
    BY <2>1, NoAlchemy DEF MintingSteps
<1>6. CASE ReadAccount(h)
  BY <1>6, NoAlchemy DEF ReadAccount, MintingSteps, Idle
<1>7. CASE Debit(h)
  BY <1>7, NoAlchemy DEF Debit, MintingSteps
<1>8. CASE Credit(h)
  BY <1>8, NoAlchemy DEF Credit, MintingSteps
<1>9. CASE Check(h)
  BY <1>9, NoAlchemy DEF Check, MintingSteps, Idle
<1>10. CASE Draw(h)
  <2>1. PICK w \in Winners(s.pool.depositors) :
          Set(h, [at |-> "mint", pool |-> s.pool, base |-> counter,
                  winners |-> w, next |-> 1])
    BY <1>10, NoFailure
  <2> DEFINE r == [at |-> "mint", pool |-> s.pool, base |-> counter,
                   winners |-> w, next |-> 1]
  <2>2. handler'[h] = r
    BY <2>1, NewRecord
  <2>3. Stored(r) = 0
    BY DEF Stored
  <2>4. InProgress(r, minted', counter')
    BY <2>3 DEF InProgress
  <2>5. QED
    BY <2>2, <2>4 DEF AInv
<1>11. CASE Mint(h)
  <2> DEFINE r == [s EXCEPT !.at = "winner"]
             c == NextCoin(s)
  <2>1. s.at = "mint" /\ counter' = counter /\ handler'[h] = r
    BY <1>11, NewRecord DEF Mint, At
  <2>2. minted' = {x \in minted : x.id # c.id} \cup {c}
    BY <1>11 DEF Mint, NextCoin
  <2>3. /\ r.at = "winner" /\ r.next = s.next /\ r.base = s.base
        /\ r.winners = s.winners /\ r.pool = s.pool
    <3>1. HandlerOK(r) => r.at = "winner"
      BY <2>1, <1>1 DEF HandlerOK
    <3>2. QED
      BY <2>1
  <2>4. s.next \in Nat \ {0} /\ s.base \in Nat
    BY <1>4, <2>1 DEF MintingSteps
  <2>5. ASSUME NEW i \in 1 .. s.next
        PROVE  [id |-> CoinId(i, s.base), owner |-> s.winners[i]] \in minted'
    <3>1. CASE i = s.next
      BY <2>2, <3>1 DEF NextCoin
    <3>2. CASE i # s.next
      <4>1. i \in 1 .. (s.next - 1)
        BY <2>4, <3>2
      <4>2. [id |-> CoinId(i, s.base), owner |-> s.winners[i]] \in minted
        BY <1>3, <2>1, <4>1 DEF InProgress, Stored, MintingSteps
      <4>3. CoinId(i, s.base).serial # CoinId(s.next, s.base).serial
        BY <2>4, <3>2 DEF CoinId
      <4>4. CoinId(i, s.base) # c.id
        BY <4>3 DEF NextCoin
      <4> HIDE DEF c
      <4>5. QED
        BY <2>2, <4>2, <4>4
    <3>3. QED
      BY <3>1, <3>2
  <2> HIDE DEF r
  <2>6. Stored(r) = s.next
    BY <2>3 DEF Stored
  <2>7. InProgress(r, minted', counter')
    BY <1>3, <2>1, <2>3, <2>5, <2>6 DEF InProgress, MintingSteps
  <2>8. QED
    BY <2>1, <2>7 DEF AInv
<1>12. CASE ReadWinner(h)
  <2> DEFINE r == [at |-> "award", pool |-> s.pool, base |-> s.base,
                   winners |-> s.winners, next |-> s.next,
                   read |-> account[s.winners[s.next]]]
  <2>1. s.at = "winner" /\ UNCHANGED <<counter, minted>> /\ handler'[h] = r
    BY <1>12, NewRecord DEF ReadWinner, At
  <2>2. Stored(r) = Stored(s)
    BY <2>1 DEF Stored
  <2>3. InProgress(r, minted, counter)
    BY <1>3, <2>1, <2>2 DEF InProgress, MintingSteps
  <2>4. QED
    BY <2>1, <2>3 DEF AInv
<1>13. CASE Award(h)
  <2> DEFINE step == IF s.next < Len(s.winners) THEN "mint" ELSE "count"
             r == [at |-> step, pool |-> s.pool, base |-> s.base,
                   winners |-> s.winners, next |-> s.next + 1]
  <2>1. s.at = "award" /\ UNCHANGED <<counter, minted>> /\ handler'[h] = r
    BY <1>13, NewRecord DEF Award, At
  <2>2. s.next \in 1 .. Len(s.winners) /\ Len(s.winners) \in Nat
    BY <1>4, <2>1 DEF MintingSteps
  <2>3. /\ r.at = step /\ r.next = s.next + 1 /\ r.base = s.base
        /\ r.winners = s.winners /\ r.pool = s.pool
    OBVIOUS
  <2>4. r.at \in {"mint", "count"}
    OBVIOUS
  <2>5. r.at = "count" => s.next = Len(s.winners)
    BY <2>2
  <2> HIDE DEF r
  <2>6. Stored(r) = s.next /\ Stored(s) = s.next
    BY <2>1, <2>2, <2>3, <2>4, <2>5 DEF Stored
  <2>7. InProgress(r, minted, counter)
    BY <1>3, <2>1, <2>3, <2>4, <2>6 DEF InProgress, MintingSteps
  <2>8. QED
    BY <2>1, <2>7 DEF AInv
<1>14. CASE Count(h)
  <2> DEFINE r == [s EXCEPT !.at = "reset"]
  <2>1. s.at = "count" /\ minted' = minted /\ counter' = s.base + Len(s.winners)
    BY <1>14 DEF Count, At
  <2>2. handler'[h] = r
    BY <1>14, NewRecord DEF Count, Goto, Set
  <2>3. /\ r.at = "reset" /\ r.base = s.base
        /\ r.winners = s.winners /\ r.pool = s.pool
    BY <2>1
  <2> HIDE DEF r
  <2>4. Stored(r) = Stored(s)
    BY <2>1, <2>3 DEF Stored
  <2>5. InProgress(r, minted', counter')
    BY <1>3, <2>1, <2>3, <2>4 DEF InProgress, MintingSteps
  <2>6. QED
    BY <2>2, <2>5 DEF AInv
<1>15. CASE Reset(h)
  <2> DEFINE r == [s EXCEPT !.at = "record"]
  <2>1. s.at = "reset" /\ Set(h, r)
    BY <1>15 DEF Reset, Goto, Set, At
  <2>2. r.at = "record"
    BY <2>1
  <2>3. QED
    BY <2>1, <2>2, NoAlchemy DEF MintingSteps
<1>16. CASE Record(h)
  BY <1>16, NoAlchemy DEF Record, MintingSteps, Idle
<1>17. QED
  BY <1>2, <1>5, <1>6, <1>7, <1>8, <1>9, <1>10, <1>11, <1>12, <1>13, <1>14,
     <1>15, <1>16 DEF Step

(* Alone, a handler stores the coins of its winners one by one.            *)
LEMMA AlchemyStays ==
    ASSUME NEW h, Handlers = {h}, HInv, CInv(h), AInv(h), [Next]_vars
    PROVE  AInv(h)'
<1>1. CASE UNCHANGED vars
  BY <1>1 DEF vars, AInv
<1>2. CASE Next /\ failures' = 0
  BY <1>2, AlchemyStep DEF Next
<1>3. CASE failures' # 0
  BY <1>3 DEF AInv
<1>4. QED
  BY <1>1, <1>2, <1>3

-----------------------------------------------------------------------------
(* The steps of the ledger.                                                *)

(* The coins of the winners of an alchemy come on top of those given       *)
(* before, which are as many as its base number.                           *)
LEMMA GivenByAlchemy ==
    ASSUME NEW m, NEW b \in Nat, NEW w \in Seq(Accounts),
           Numbered(m, b + Len(w)), m \subseteq [id : CoinIds, owner : Accounts],
           \A i \in 1 .. Len(w) : [id |-> CoinId(i, b), owner |-> w[i]] \in m
    PROVE  /\ Given(m, b + Len(w)) = Given(m, b) \cup Ledger!CoinsOf(w, b)
           /\ Cardinality(Given(m, b)) = b
<1> DEFINE n == b + Len(w)
           coin(i) == [id |-> CoinId(i, b), owner |-> w[i]]
           of(c) == [prize |-> c.id.prize, serial |-> c.id.serial, owner |-> c.owner]
           new(i) == [prize |-> Prizes[i], serial |-> b + i, owner |-> w[i]]
<1>1. Len(w) \in Nat /\ n \in Nat /\ b <= n /\ DOMAIN w = 1 .. Len(w)
  OBVIOUS
<1>2. Ledger!CoinsOf(w, b) = {new(i) : i \in 1 .. Len(w)}
  <2>1. Ledger!Prizes = Prizes
    BY DEF Ledger!Prizes, Prizes
  <2>2. QED
    BY <1>1, <2>1 DEF Ledger!CoinsOf
<1>3. \A k : Given(m, k) = {of(c) : c \in {d \in m : d.id.serial <= k}}
  BY DEF Given
<1>4. \A i \in 1 .. Len(w) : of(coin(i)) = new(i) /\ coin(i).id.serial = b + i
  BY DEF CoinId
<1>5. \A c \in m : c.id.serial \in 1 .. n
  BY DEF Numbered
<1>6. \A c, d \in m : c.id.serial = d.id.serial => c = d
  BY DEF Numbered
<1>7. \A i \in 1 .. Len(w) : coin(i) \in m
  OBVIOUS
<1> DEFINE below == {d \in m : d.id.serial <= b}
           all == {d \in m : d.id.serial <= n}
<1>8. all = below \cup {coin(i) : i \in 1 .. Len(w)}
  <2> HIDE DEF coin
  <2>1. ASSUME NEW c \in all PROVE c \in below \cup {coin(i) : i \in 1 .. Len(w)}
    <3>1. CASE c.id.serial <= b
      BY <3>1
    <3>2. CASE ~(c.id.serial <= b)
      <4> DEFINE i == c.id.serial - b
      <4>1. c \in m /\ i \in 1 .. Len(w) /\ b + i = c.id.serial
        BY <1>1, <1>5, <3>2
      <4>2. coin(i) = c
        BY <1>4, <1>6, <1>7, <4>1
      <4> HIDE DEF i
      <4>3. QED
        BY <4>1, <4>2
    <3>3. QED
      BY <3>1, <3>2
  <2>2. below \subseteq all
    BY <1>1, <1>5
  <2>3. ASSUME NEW i \in 1 .. Len(w) PROVE coin(i) \in all
    <3>1. coin(i) \in m /\ coin(i).id.serial = b + i
      BY <1>4, <1>7
    <3>2. b + i <= n
      BY <1>1
    <3> HIDE DEF n
    <3>3. QED
      BY <3>1, <3>2
  <2> HIDE DEF below, all
  <2>4. QED
    BY <2>1, <2>2, <2>3
<1>9. Given(m, n) = Given(m, b) \cup Ledger!CoinsOf(w, b)
  <2>1. Given(m, n) = {of(c) : c \in all} /\ Given(m, b) = {of(c) : c \in below}
    BY <1>3
  <2> HIDE DEF of, coin, new, below, all, n
  <2>2. {of(c) : c \in all} = {of(c) : c \in below}
                                \cup {of(coin(i)) : i \in 1 .. Len(w)}
    BY <1>8
  <2>3. {of(coin(i)) : i \in 1 .. Len(w)} = {new(i) : i \in 1 .. Len(w)}
    BY <1>4
  <2>4. QED
    BY <1>2, <2>1, <2>2, <2>3
<1>10. Cardinality(Given(m, b)) = b
  <2> DEFINE at(k) == CHOOSE c \in m : c.id.serial = k
             f == [k \in 1 .. b |-> of(at(k))]
             G == Given(m, b)
  <2>1. ASSUME NEW k \in 1 .. b
        PROVE  at(k) \in m /\ at(k).id.serial = k /\ of(at(k)).serial = k
    <3>1. k \in 1 .. n
      BY <1>1
    <3>2. \E c \in m : c.id.serial = k
      BY <3>1 DEF Numbered
    <3>3. at(k) \in m /\ at(k).id.serial = k
      BY <3>2
    <3> HIDE DEF at
    <3>4. QED
      BY <3>3
  <2>2. G = {of(c) : c \in below}
    BY <1>3
  <2>3. \A k \in 1 .. b : at(k) \in below
    BY <2>1
  <2>4. \A c \in below : c.id.serial \in 1 .. b /\ at(c.id.serial) = c
    <3>1. \A c \in below : c \in m /\ c.id.serial \in 1 .. b
      BY <1>1, <1>5
    <3> HIDE DEF at, below
    <3>2. QED
      BY <1>6, <2>1, <3>1
  <2>5. \A k \in 1 .. b : f[k] = of(at(k)) /\ f[k].serial = k
    BY <2>1
  <2>6. DOMAIN f = 1 .. b
    OBVIOUS
  <2>7. f = [k \in 1 .. b |-> f[k]]
    OBVIOUS
  <2> HIDE DEF at, below, of, f, G
  <2>8. \A k \in 1 .. b : f[k] \in G
    BY <2>2, <2>3, <2>5
  <2>9. \A x \in G : \E k \in 1 .. b : f[k] = x
    BY <2>2, <2>4, <2>5
  <2>10. \A k, l \in 1 .. b : f[k] = f[l] => k = l
    BY <2>5
  <2>11. f \in [1 .. b -> G]
    BY <2>7, <2>8
  <2>12. f \in Bijection(1 .. b, G)
    BY <2>9, <2>10, <2>11
       DEF Bijection, Injection, Surjection, IsInjective
  <2>13. ExistsBijection(1 .. b, G)
    BY <2>12 DEF ExistsBijection
  <2>14. QED
    BY <2>13, FS_CountingElements DEF G
<1>11. QED
  BY <1>9, <1>10

-----------------------------------------------------------------------------
(* All that is known of a lone handler that has met no failure.            *)
Sound(h) == HInv /\ BInv /\ LInv(h) /\ CInv(h) /\ AInv(h)

(* A step that changes nothing in the mapping changes nothing in the       *)
(* ledger.                                                                 *)
LEMMA SameLedger ==
    ASSUME NEW h, View(h), View(h)', failures = 0, failures' = 0,
           Balances(account') = Balances(account),
           StakeAt(pool', handler'[h]) = StakeAt(pool, handler[h]),
           RecordsAt(history', handler'[h]) = RecordsAt(history, handler[h]),
           pool'.id = pool.id,
           Given(minted', SettledAt(handler'[h], counter'))
             = Given(minted, SettledAt(handler[h], counter))
    PROVE  UNCHANGED Ledger!ledger
<1>1. Balances(account)' = Balances(account')
  BY DEF Balances
<1>2. Funds' = Funds /\ Stake' = Stake /\ Records' = Records
      /\ CoinsGiven' = CoinsGiven
  BY <1>1 DEF View
<1>3. QED
  BY <1>2 DEF Ledger!ledger

(* So is a step that only reads.                                           *)
LEMMA ReadsLedger ==
    ASSUME NEW h \in Handlers, HInv, View(h), View(h)', failures = 0,
           failures' = 0, NEW r, Set(h, r),
           UNCHANGED <<account, pool, history, minted>>,
           handler[h].at \notin {"credit", "record"},
           r.at \notin {"credit", "record"},
           SettledAt(r, counter') = SettledAt(handler[h], counter)
    PROVE  UNCHANGED Ledger!ledger
<1>1. handler'[h] = r
  BY NewRecord
<1>2. Balances(account') = Balances(account)
  OBVIOUS
<1>3. StakeAt(pool', r) = StakeAt(pool, handler[h])
  BY DEF StakeAt
<1>4. RecordsAt(history', r) = RecordsAt(history, handler[h])
  BY DEF RecordsAt
<1>5. QED
  BY <1>1, <1>2, <1>3, <1>4, SameLedger

(* A debit is the deposit of the ledger.                                   *)
LEMMA DebitPaysIn ==
    ASSUME NEW h \in Handlers, Sound(h), View(h), View(h)', failures = 0,
           failures' = 0, Debit(h)
    PROVE  Ledger!PayIn(handler[h].from)
<1> DEFINE s == handler[h]
           a == s.from
           x == s.amount
           r == [at |-> "credit", from |-> a, amount |-> x, pool |-> s.pool]
           k == [account[a] EXCEPT !.balance = @ - x]
<1>1. /\ s.at = "debit" /\ handler'[h] = r
      /\ UNCHANGED <<pool, counter, minted, history>>
  BY NewRecord DEF Debit, At, Sound
<1>2. a \in Accounts /\ x \in Nat \ {0} /\ s.read = account[a]
      /\ x <= account[a].balance /\ account[a].balance \in Nat
  BY <1>1, AmountsAssumption
     DEF Sound, HInv, HandlerOK, Depositing, LInv, Fresh, AccountRecords
<1>3. account' = [account EXCEPT ![a] = k]
  BY <1>2 DEF Debit
<1>4. account \in [Accounts -> AccountRecords]
  BY DEF Sound, HInv, TypeOK, AccountRecords
<1>5. k.balance = account[a].balance - x
  BY <1>2, <1>4 DEF AccountRecords
<1> HIDE DEF k
<1>6. Balances(account') = [Balances(account) EXCEPT ![a] = @ - x]
  BY <1>2, <1>3, <1>4, <1>5 DEF Balances
<1>7. pool.depositors \in [Accounts -> Nat]
  BY DEF Sound, HInv, TypeOK, Pools
<1>8. StakeAt(pool, r) = [StakeAt(pool, s) EXCEPT ![a] = @ + x]
  BY <1>1, <1>2, <1>7 DEF StakeAt
<1>9. RecordsAt(history, r) = RecordsAt(history, s)
      /\ SettledAt(r, counter) = SettledAt(s, counter)
  BY <1>1 DEF RecordsAt, SettledAt, MintingSteps
<1> HIDE DEF r
<1>10. Funds' = [Funds EXCEPT ![a] = @ - x]
  BY <1>6 DEF View, Balances
<1>11. Stake' = [Stake EXCEPT ![a] = @ + x]
  BY <1>1, <1>8 DEF View
<1>12. Records' = Records /\ CoinsGiven' = CoinsGiven
  BY <1>1, <1>9 DEF View
<1>13. x \in 1 .. Funds[a]
  BY <1>2 DEF Funds
<1>14. QED
  BY <1>1, <1>10, <1>11, <1>12, <1>13 DEF Ledger!PayIn

(* The pool's reset is the alchemy of the ledger.                          *)
LEMMA ResetBurns ==
    ASSUME NEW h \in Handlers, Sound(h), View(h), View(h)', failures = 0,
           failures' = 0, Reset(h)
    PROVE  Ledger!BurnAndMint
<1> DEFINE s == handler[h]
           r == [s EXCEPT !.at = "record"]
<1>1. /\ s.at = "reset" /\ Set(h, r)
      /\ UNCHANGED <<account, counter, minted, history>>
      /\ \E now \in Seconds : now >= s.pool.id /\ pool' = NewPool(now)
  BY DEF Reset, Goto, Set, At
<1>2. handler'[h] = r
  BY <1>1, NewRecord DEF Sound
<1>3. r.at = "record" /\ r.pool = s.pool
  BY <1>1
<1> HIDE DEF r
<1>4. s.pool = pool /\ Minter(s)
  BY <1>1 DEF Sound, LInv, Fresh, HInv, HandlerOK
<1>5. /\ pool.amount \in Nat /\ pool.amount >= Target /\ s.base \in Nat
      /\ pool.depositors \in [Accounts -> Nat] /\ s.winners \in Seq(Accounts)
  BY <1>4 DEF Minter, FullPools, FundedPools, Pools, Draws
<1>6. /\ s.winners \in Winners(pool.depositors)
      /\ counter = s.base + Len(s.winners)
      /\ \A i \in 1 .. Len(s.winners) :
            [id |-> CoinId(i, s.base), owner |-> s.winners[i]] \in minted
  BY <1>1, <1>4 DEF Sound, AInv, InProgress, Stored, MintingSteps
<1>7. Numbered(minted, counter)
  BY <1>1 DEF Sound, CInv, CoinInv, Issued
<1>8. minted \subseteq [id : CoinIds, owner : Accounts]
  BY DEF Sound, HInv, TypeOK
<1>9. /\ CoinsGiven = Given(minted, s.base)
      /\ CoinsGiven' = Given(minted, counter)
  BY <1>1, <1>2, <1>3 DEF View, SettledAt, MintingSteps
<1>10. /\ CoinsGiven' = CoinsGiven
                         \cup Ledger!CoinsOf(s.winners, Cardinality(CoinsGiven))
  <2> DEFINE b == s.base
             w == s.winners
  <2>1. b \in Nat /\ w \in Seq(Accounts) /\ counter = b + Len(w)
    BY <1>5, <1>6
  <2>2. \A i \in 1 .. Len(w) : [id |-> CoinId(i, b), owner |-> w[i]] \in minted
    BY <1>6
  <2>3. Given(minted, b) = CoinsGiven /\ Given(minted, counter) = CoinsGiven'
    BY <1>9
  <2> HIDE DEF b, w
  <2>4. Numbered(minted, b + Len(w))
    BY <1>7, <2>1
  <2>5. /\ Given(minted, b + Len(w)) = Given(minted, b) \cup Ledger!CoinsOf(w, b)
        /\ Cardinality(Given(minted, b)) = b
    BY <1>8, <2>1, <2>2, <2>4, GivenByAlchemy
  <2>6. QED
    BY <2>1, <2>3, <2>5 DEF w
<1>11. Stake = pool.depositors
  <2>1. Stake = [a \in Accounts |-> pool.depositors[a] + 0]
    BY <1>1 DEF View, StakeAt
  <2>2. QED
    BY <1>5, <2>1
<1>12. Stake' = [a \in Accounts |-> 0]
  <2>1. pool'.depositors = [a \in Accounts |-> 0]
    BY <1>1 DEF NewPool
  <2>2. QED
    BY <1>2, <1>3, <2>1 DEF View, StakeAt
<1>13. SumFunction(Stake) = pool.amount
  BY <1>11 DEF Sound, BInv, Balanced
<1>14. Records' = [Records EXCEPT ![pool.id] = pool.amount]
  <2>1. Records = history
    BY <1>1 DEF View, RecordsAt
  <2>2. QED
    BY <1>1, <1>2, <1>3, <1>4, <2>1 DEF View, RecordsAt
<1>15. Funds' = Funds
  BY <1>1 DEF Funds
<1>16. s.winners \in Ledger!Draws({a \in Accounts : Stake[a] > 0})
  BY <1>6, <1>11, LedgerDraws
<1>17. Ledger!SumFunction(Stake) = pool.amount
  BY <1>13, LedgerSum
<1>18. Ledger!Cardinality(CoinsGiven) = Cardinality(CoinsGiven)
  BY DEF Ledger!Cardinality, Cardinality
<1>19. pool'.id \in {second \in Seconds : second >= pool.id}
  BY <1>1, <1>4 DEF NewPool
<1> HIDE DEF s
<1>20. QED
  BY <1>5, <1>10, <1>12, <1>14, <1>15, <1>16, <1>17, <1>18, <1>19
     DEF Ledger!BurnAndMint

(* Every other step of a lone handler that meets no failure leaves the     *)
(* ledger as it is.                                                        *)
LEMMA OtherSteps ==
    ASSUME NEW h, Handlers = {h}, Sound(h), View(h), View(h)', failures = 0,
           failures' = 0, Step(h), ~Debit(h), ~Reset(h), ~Fail(h)
    PROVE  UNCHANGED Ledger!ledger
<1> DEFINE s == handler[h]
<1>1. /\ h \in Handlers /\ HInv /\ HandlerOK(s) /\ TypeOK
      /\ Fresh(s, account, pool) /\ CoinInv(s, account, counter, minted)
  BY DEF Sound, HInv, LInv, CInv
<1>2. s.at \in {"mint", "winner", "award", "count"} => s.base = counter
  BY <1>1 DEF CoinInv, UpToDate
<1>3. CASE ReadPool(h)
  <2>1. PICK a \in Accounts, x \in Amounts :
          Set(h, [at |-> "account", from |-> a, amount |-> x, pool |-> pool])
    BY <1>3 DEF ReadPool
  <2>2. /\ s.at = "idle"
        /\ UNCHANGED <<account, pool, counter, minted, history>>
    BY <1>3 DEF ReadPool, At
  <2>3. QED
    BY <1>1, <2>1, <2>2, ReadsLedger DEF SettledAt, MintingSteps
<1>4. CASE ReadAccount(h)
  <2> DEFINE r == [at |-> "debit", from |-> s.from, amount |-> s.amount,
                   pool |-> s.pool, read |-> account[s.from]]
  <2>1. /\ s.at = "account"
        /\ UNCHANGED <<account, pool, counter, minted, history>>
        /\ Set(h, Idle) \/ Set(h, r)
    BY <1>4 DEF ReadAccount, At
  <2>2. r.at = "debit" /\ Idle.at = "idle"
    BY DEF Idle
  <2> HIDE DEF r
  <2>3. QED
    BY <1>1, <2>1, <2>2, ReadsLedger DEF SettledAt, MintingSteps
<1>5. CASE Credit(h)
  <2> DEFINE a == s.from
             d == [pool.depositors EXCEPT ![a] = @ + s.amount]
             r == [at |-> "check"]
  <2>1. /\ s.at = "credit" /\ UNCHANGED <<account, counter, minted, history>>
        /\ handler'[h] = r
    BY <1>1, <1>5, NewRecord DEF Credit, At
  <2>2. s.pool = pool /\ a \in Accounts /\ s.amount \in Nat
        /\ pool.depositors \in [Accounts -> Nat] /\ pool \in Pools
    BY <1>1, <2>1, AmountsAssumption
       DEF Fresh, HandlerOK, Depositing, TypeOK, Pools
  <2>3. pool' = [pool EXCEPT !.amount = @ + s.amount, !.depositors = d]
    BY <1>5, <2>2 DEF Credit
  <2>4. pool'.depositors = d /\ pool'.id = pool.id
    BY <2>2, <2>3 DEF Pools
  <2>5. r.at = "check"
    OBVIOUS
  <2> HIDE DEF r
  <2>6. StakeAt(pool', r) = StakeAt(pool, s)
    BY <2>1, <2>2, <2>4, <2>5 DEF StakeAt
  <2>7. RecordsAt(history, r) = RecordsAt(history, s)
        /\ SettledAt(r, counter) = SettledAt(s, counter)
    BY <2>1, <2>5 DEF RecordsAt, SettledAt, MintingSteps
  <2>8. QED
    BY <2>1, <2>4, <2>6, <2>7, SameLedger
<1>6. CASE Check(h)
  <2> DEFINE r == [at |-> "draw", pool |-> pool]
  <2>1. /\ s.at = "check"
        /\ UNCHANGED <<account, pool, counter, minted, history>>
        /\ Set(h, Idle) \/ Set(h, r)
    BY <1>6 DEF Check, At
  <2>2. r.at = "draw" /\ Idle.at = "idle"
    BY DEF Idle
  <2> HIDE DEF r
  <2>3. QED
    BY <1>1, <2>1, <2>2, ReadsLedger DEF SettledAt, MintingSteps
<1>7. CASE Draw(h)
  <2>1. PICK w \in Winners(s.pool.depositors) :
          Set(h, [at |-> "mint", pool |-> s.pool, base |-> counter,
                  winners |-> w, next |-> 1])
    BY <1>1, <1>7, NoFailure
  <2> DEFINE r == [at |-> "mint", pool |-> s.pool, base |-> counter,
                   winners |-> w, next |-> 1]
  <2>2. /\ s.at = "draw"
        /\ UNCHANGED <<account, pool, counter, minted, history>>
    BY <1>7 DEF Draw, At
  <2>3. r.at = "mint" /\ r.base = counter
    OBVIOUS
  <2>4. Set(h, r)
    BY <2>1
  <2> HIDE DEF r
  <2>5. QED
    BY <1>1, <2>2, <2>3, <2>4, ReadsLedger DEF SettledAt, MintingSteps
<1>8. CASE Mint(h)
  <2> DEFINE r == [s EXCEPT !.at = "winner"]
             c == NextCoin(s)
  <2>1. /\ s.at = "mint" /\ UNCHANGED <<account, pool, counter, history>>
        /\ handler'[h] = r
    BY <1>1, <1>8, NewRecord DEF Mint, At
  <2>2. minted' = {x \in minted : x.id # c.id} \cup {c}
    BY <1>8 DEF Mint, NextCoin
  <2>3. r.at = "winner" /\ r.base = s.base
    BY <2>1
  <2> HIDE DEF r
  <2>4. s.base = counter /\ counter \in Nat /\ s.next \in Nat \ {0}
    BY <1>1, <1>2, <2>1 DEF TypeOK, HandlerOK, Minter, Draws
  <2>5. c.id.serial = counter + s.next
    BY <2>4 DEF NextCoin, CoinId
  <2>6. \A x \in minted : x.id.serial <= counter => x.id.serial < c.id.serial
    <3>1. \A x \in minted : x.id.serial \in Nat
      BY <1>1 DEF TypeOK, CoinIds
    <3> HIDE DEF c
    <3>2. QED
      BY <2>4, <2>5, <3>1
  <2> HIDE DEF c
  <2>7. {x \in minted' : x.id.serial <= counter}
          = {x \in minted : x.id.serial <= counter}
    <3>1. ~ (c.id.serial <= counter)
      BY <2>4, <2>5
    <3>2. \A x \in minted : x.id.serial <= counter => x.id # c.id
      <4>1. \A x \in minted : x.id.serial \in Nat
        BY <1>1 DEF TypeOK, CoinIds
      <4>2. QED
        BY <3>1
    <3>3. QED
      BY <2>2, <3>1, <3>2
  <2>8. Given(minted', counter) = Given(minted, counter)
    BY <2>7 DEF Given
  <2>9. SettledAt(r, counter) = counter /\ SettledAt(s, counter) = counter
    BY <2>1, <2>3, <2>4 DEF SettledAt, MintingSteps
  <2>10. StakeAt(pool, r) = StakeAt(pool, s)
        /\ RecordsAt(history, r) = RecordsAt(history, s)
    BY <2>1, <2>3 DEF StakeAt, RecordsAt
  <2>11. QED
    BY <2>1, <2>8, <2>9, <2>10, SameLedger
<1>9. CASE ReadWinner(h)
  <2> DEFINE r == [at |-> "award", pool |-> s.pool, base |-> s.base,
                   winners |-> s.winners, next |-> s.next,
                   read |-> account[s.winners[s.next]]]
  <2>1. /\ s.at = "winner" /\ Set(h, r)
        /\ UNCHANGED <<account, pool, counter, minted, history>>
    BY <1>9 DEF ReadWinner, At
  <2>2. r.at = "award" /\ r.base = s.base
    OBVIOUS
  <2> HIDE DEF r
  <2>3. QED
    BY <1>1, <2>1, <2>2, ReadsLedger DEF SettledAt, MintingSteps
<1>10. CASE Award(h)
  <2> DEFINE step == IF s.next < Len(s.winners) THEN "mint" ELSE "count"
             r == [at |-> step, pool |-> s.pool, base |-> s.base,
                   winners |-> s.winners, next |-> s.next + 1]
             a == s.winners[s.next]
             coins == account[a].coins \cup {CoinId(s.next, s.base)}
  <2>1. /\ s.at = "award" /\ UNCHANGED <<pool, counter, minted, history>>
        /\ handler'[h] = r
    BY <1>1, <1>10, NewRecord DEF Award, At
  <2>2. a \in Accounts /\ s.read = account[a]
    BY <1>1, <2>1 DEF HandlerOK, Minter, Draws, Fresh
  <2>3. r.at \in {"mint", "count"} /\ r.base = s.base
    OBVIOUS
  <2> HIDE DEF r
  <2>4. account' = [account EXCEPT ![a] = [account[a] EXCEPT !.coins = coins]]
    BY <1>10, <2>2 DEF Award
  <2>5. account \in [Accounts -> AccountRecords]
    BY <1>1 DEF TypeOK, AccountRecords
  <2>6. Balances(account') = Balances(account)
    BY <2>2, <2>4, <2>5, CoinBalances
  <2>7. SettledAt(r, counter) = SettledAt(s, counter)
    BY <2>1, <2>3 DEF SettledAt, MintingSteps
  <2>8. StakeAt(pool, r) = StakeAt(pool, s)
        /\ RecordsAt(history, r) = RecordsAt(history, s)
    BY <2>1, <2>3 DEF StakeAt, RecordsAt
  <2>9. QED
    BY <2>1, <2>6, <2>7, <2>8, SameLedger
<1>11. CASE Count(h)
  <2> DEFINE r == [s EXCEPT !.at = "reset"]
  <2>1. /\ s.at = "count" /\ Set(h, r)
        /\ UNCHANGED <<account, pool, minted, history>>
    BY <1>11 DEF Count, Goto, Set, At
  <2>2. r.at = "reset" /\ r.base = s.base
    BY <2>1
  <2> HIDE DEF r
  <2>3. QED
    BY <1>1, <2>1, <2>2, ReadsLedger DEF SettledAt, MintingSteps
<1>12. CASE Record(h)
  <2>1. /\ s.at = "record" /\ UNCHANGED <<account, pool, counter, minted>>
        /\ handler'[h] = Idle /\ Idle.at = "idle"
        /\ history' = [history EXCEPT ![s.pool.id] = s.pool.amount]
    BY <1>1, <1>12, NewRecord DEF Record, At, Idle
  <2>2. RecordsAt(history', Idle) = RecordsAt(history, s)
    BY <2>1 DEF RecordsAt
  <2>3. StakeAt(pool, Idle) = StakeAt(pool, s)
        /\ SettledAt(Idle, counter) = SettledAt(s, counter)
    BY <2>1 DEF StakeAt, SettledAt, MintingSteps
  <2>4. QED
    BY <2>1, <2>2, <2>3, SameLedger
<1>13. QED
  BY <1>3, <1>4, <1>5, <1>6, <1>7, <1>8, <1>9, <1>10, <1>11, <1>12 DEF Step

-----------------------------------------------------------------------------
(* A lone handler that has met no failure sees the ledger through its own  *)
(* record alone.                                                           *)
LEMMA LoneView ==
    ASSUME NEW h, Handlers = {h}, Sound(h)
    PROVE  View(h)
<1>1. Funds = Balances(account)
  BY DEF Funds, Balances
<1>2. QED
  BY <1>1, StakeView, RecordsView, CoinsView DEF View, Sound

(* The initial state is one of the ledger.                                 *)
LEMMA LedgerAtFirst ==
    ASSUME NEW h, Handlers = {h}, Init, View(h)
    PROVE  Ledger!LedgerInit
<1>1. /\ account = [a \in Accounts |-> [balance |-> Initial[a], coins |-> {}]]
      /\ pool = NewPool(0) /\ counter = 0 /\ minted = {} /\ failures = 0
      /\ history = [second \in Seconds |-> 0]
      /\ handler[h].at = "idle"
  BY DEF Init, Idle
<1>2. Funds = Initial
  BY <1>1, InitialAssumption DEF Funds
<1>3. Stake = [a \in Accounts |-> 0]
  BY <1>1 DEF View, StakeAt, NewPool
<1>4. Records = [second \in Seconds |-> 0] /\ pool.id = 0
  BY <1>1 DEF View, RecordsAt, NewPool
<1>5. CoinsGiven = {}
  BY <1>1 DEF View, Given
<1>6. QED
  BY <1>2, <1>3, <1>4, <1>5 DEF Ledger!LedgerInit

(* A step that meets no failure is a step of the ledger or none.           *)
LEMMA LedgerStep ==
    ASSUME NEW h, Handlers = {h}, Sound(h), View(h), View(h)', Next,
           failures' = 0
    PROVE  [Ledger!LedgerNext]_(Ledger!ledger)
<1>1. h \in Handlers /\ Step(h)
  BY DEF Next
<1>2. failures = 0 /\ ~Fail(h)
  BY <1>1, NoFailure DEF Sound
<1>3. CASE Debit(h)
  <2>1. Ledger!PayIn(handler[h].from) /\ handler[h].from \in Accounts
    BY <1>1, <1>2, <1>3, DebitPaysIn
       DEF Sound, HInv, HandlerOK, Depositing, Debit, At
  <2>2. QED
    BY <2>1 DEF Ledger!LedgerNext
<1>4. CASE Reset(h)
  BY <1>1, <1>2, <1>4, ResetBurns DEF Ledger!LedgerNext
<1>5. CASE ~Debit(h) /\ ~Reset(h)
  BY <1>1, <1>2, <1>5, OtherSteps
<1>6. QED
  BY <1>3, <1>4, <1>5

(* Handled one request at a time, deposits and alchemies are atomic: until *)
(* a handler ends half-way, what the storage holds changes only as         *)
(* PoolLedger lets it, whatever the accounts, the target and the number of *)
(* alchemies. A deposit takes effect with the debit, an alchemy with the   *)
(* reset of the pool (deposit, trigger_alchemy).                           *)
THEOREM LoneHandlerImplementsLedger ==
    ASSUME NEW h, Handlers = {h}
    PROVE  Spec => ImplementsLedger
<1>1. Init => Sound(h)
  <2>1. Init => BInv
    BY NewPoolBalanced DEF Init, BInv, Idle
  <2>2. Init => AInv(h)
    BY DEF Init, AInv, InProgress, Idle, MintingSteps
  <2>3. QED
    BY <2>1, <2>2, InitOK, PaidAtFirst, NoCoins DEF Sound
<1>2. Sound(h) /\ [Next]_vars => Sound(h)'
  BY StepsOK, BalancedSteps, PaidStays, CoinsStay, AlchemyStays DEF Sound
<1>3. Sound(h) => View(h)
  BY LoneView
<1>4. Init /\ View(h) => Ledger!LedgerInit
  BY LedgerAtFirst
<1>5. Sound(h) /\ View(h) /\ View(h)' /\ [Next]_vars
        => [failures' = 0 => [Ledger!LedgerNext]_(Ledger!ledger)]_vars
  BY LedgerStep
<1>6. QED
  BY <1>1, <1>2, <1>3, <1>4, <1>5, PTL DEF Spec, ImplementsLedger
=============================================================================
