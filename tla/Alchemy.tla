------------------------------ MODULE Alchemy ------------------------------
(***************************************************************************)
(* The prize pool of polis-chain (pool/alchemy.rs) as the HTTP handler     *)
(* pool_deposit (network/api.rs) runs it: deposit, and trigger_alchemy     *)
(* when the pool has reached its target.                                   *)
(*                                                                         *)
(* The handlers of different requests run on different threads and share   *)
(* the storage without a lock, so every read and every write of the        *)
(* storage is a step of its own, and what was read is kept in the handler. *)
(* The signature check comes before the first access and is left out.      *)
(*                                                                         *)
(* The hash that draws the winners is abstracted to any possible draw.     *)
(* A pool is named by the second it was opened in, and so is the record of *)
(* its alchemy: the clock does not go back, but two pools may be opened in *)
(* one second.  The first pool was opened by the first request that asked  *)
(* for one (get_or_create_pool), in second 0.                              *)
(***************************************************************************)
EXTENDS Naturals, Sequences, FiniteSetsExt, Functions

CONSTANTS
    Accounts,
    Target,         \* DEFAULT_POOL_TARGET
    Initial,        \* Initial[a]: the balance account a starts with
    Handlers,       \* the requests that are handled at the same time
    Amounts,        \* what a request may deposit
    MaxFailures,    \* bound: how many handlers end before their time
    MaxSecond       \* bound: the last second the clock shows

ASSUME AccountsAssumption == IsFiniteSet(Accounts)
ASSUME TargetAssumption == Target \in Nat \ {0}
ASSUME InitialAssumption == Initial \in [Accounts -> Nat]
ASSUME AmountsAssumption == Amounts \subseteq Nat \ {0}
ASSUME BoundsAssumption == MaxFailures \in Nat /\ MaxSecond \in Nat

Seconds == 0 .. MaxSecond

VARIABLES
    account,        \* CF_STATE: balance and premium_coins of every account
    pool,           \* current_pool
    counter,        \* premium_coin_counter
    minted,         \* the premium_coin_<id> records
    history,        \* CF_POOL_HISTORY: what the record of a second says was
                    \* burned
    handler,        \* what every running handler has read, and its next step
    failures,       \* how many handlers ended before their time
    replaced        \* history variable: what was burned by the records that
                    \* the record of another pool has replaced

vars == <<account, pool, counter, minted, history, handler, failures, replaced>>

-----------------------------------------------------------------------------
Prizes == <<"Gold", "Silver", "Silver", "Bronze", "Bronze", "Bronze">>

NewPool(id) ==
    [id |-> id, amount |-> 0, depositors |-> [a \in Accounts |-> 0]]

(* select_alchemy_winners: no depositor wins twice.                        *)
Winners(depositors) ==
    LET D == {a \in Accounts : depositors[a] > 0}
    IN  Injection(1 .. Min({Len(Prizes), Cardinality(D)}), D)

(* The identifier of the i-th coin of an alchemy, as GOLD-0003.            *)
CoinId(i, base) == [prize |-> Prizes[i], serial |-> base + i]

Idle == [at |-> "idle"]

Init ==
    /\ account = [a \in Accounts |-> [balance |-> Initial[a], coins |-> {}]]
    /\ pool = NewPool(0)
    /\ counter = 0
    /\ minted = {}
    /\ history = [second \in Seconds |-> 0]
    /\ handler = [h \in Handlers |-> Idle]
    /\ failures = 0
    /\ replaced = 0

At(h, step) == handler[h].at = step

Set(h, s) == handler' = [handler EXCEPT ![h] = s]

Goto(h, step) == handler' = [handler EXCEPT ![h].at = step]

-----------------------------------------------------------------------------
(* deposit.                                                                *)

(* A request comes in and its handler reads the pool.                      *)
ReadPool(h) ==
    /\ At(h, "idle")
    /\ \E a \in Accounts, x \in Amounts :
          Set(h, [at |-> "account", from |-> a, amount |-> x, pool |-> pool])
    /\ UNCHANGED <<account, pool, counter, minted, history, failures, replaced>>

(* Defect: the balance is not compared with the amount.                    *)
Bug_NoBalanceCheck(h) ==
    /\ At(h, "account")
    /\ LET r == handler[h]
       IN  Set(h, [at |-> "debit", from |-> r.from, amount |-> r.amount,
                   pool |-> r.pool, read |-> account[r.from]])
    /\ UNCHANGED <<account, pool, counter, minted, history, failures, replaced>>

ReadAccount(h) ==
    /\ At(h, "account")
    /\ LET r == handler[h]
       IN  IF account[r.from].balance < r.amount THEN Set(h, Idle)
           ELSE Set(h, [at |-> "debit", from |-> r.from, amount |-> r.amount,
                        pool |-> r.pool, read |-> account[r.from]])
    /\ UNCHANGED <<account, pool, counter, minted, history, failures, replaced>>

Debit(h) ==
    /\ At(h, "debit")
    /\ LET r == handler[h]
       IN  /\ account' = [account EXCEPT ![r.from] =
                             [r.read EXCEPT !.balance = @ - r.amount]]
           /\ Set(h, [at |-> "credit", from |-> r.from, amount |-> r.amount,
                      pool |-> r.pool])
    /\ UNCHANGED <<pool, counter, minted, history, failures, replaced>>

(* Defect: the entry of a known depositor is replaced, not added to.       *)
Bug_LastDepositOnly(h) ==
    /\ At(h, "credit")
    /\ LET r == handler[h]
       IN  pool' = [r.pool EXCEPT !.amount = @ + r.amount,
                                  !.depositors[r.from] = r.amount]
    /\ Set(h, [at |-> "check"])
    /\ UNCHANGED <<account, counter, minted, history, failures, replaced>>

Credit(h) ==
    /\ At(h, "credit")
    /\ LET r == handler[h]
           d == r.pool.depositors
       IN  pool' = [r.pool EXCEPT
                      !.amount = @ + r.amount,
                      !.depositors = [d EXCEPT ![r.from] = @ + r.amount]]
    /\ Set(h, [at |-> "check"])
    /\ UNCHANGED <<account, counter, minted, history, failures, replaced>>

(* pool_deposit reads the pool again: should_trigger_alchemy.              *)
Check(h) ==
    /\ At(h, "check")
    /\ IF pool.amount >= Target THEN Set(h, [at |-> "draw", pool |-> pool])
       ELSE Set(h, Idle)
    /\ UNCHANGED <<account, pool, counter, minted, history, failures, replaced>>

-----------------------------------------------------------------------------
(* trigger_alchemy.                                                        *)

(* Defect: everybody with an account takes part in the draw.               *)
Bug_DrawsAnybody(h) ==
    /\ At(h, "draw")
    /\ \E w \in Winners([a \in Accounts |-> 1]) :
          Set(h, [at |-> "mint", pool |-> handler[h].pool, base |-> counter,
                  winners |-> w, next |-> 1])
    /\ UNCHANGED <<account, pool, counter, minted, history, failures, replaced>>

(* The coin counter is read, as 0 when the read fails, and the winners are *)
(* drawn.                                                                  *)
Draw(h) ==
    /\ At(h, "draw")
    /\ \E w \in Winners(handler[h].pool.depositors), base \in {counter, 0} :
          /\ Set(h, [at |-> "mint", pool |-> handler[h].pool, base |-> base,
                     winners |-> w, next |-> 1])
          /\ \/ base = counter /\ UNCHANGED failures
             \/ base = 0 /\ failures < MaxFailures /\ failures' = failures + 1
    /\ UNCHANGED <<account, pool, counter, minted, history, replaced>>

(* The next winner's coin is stored, over a coin of the same identifier.   *)
Mint(h) ==
    /\ At(h, "mint")
    /\ LET r == handler[h]
           id == CoinId(r.next, r.base)
       IN  /\ minted' = {c \in minted : c.id # id} \cup
                           {[id |-> id, owner |-> r.winners[r.next]]}
           /\ Set(h, [r EXCEPT !.at = "winner"])
    /\ UNCHANGED <<account, pool, counter, history, failures, replaced>>

ReadWinner(h) ==
    /\ At(h, "winner")
    /\ LET r == handler[h]
       IN  Set(h, [at |-> "award", pool |-> r.pool, base |-> r.base,
                   winners |-> r.winners, next |-> r.next,
                   read |-> account[r.winners[r.next]]])
    /\ UNCHANGED <<account, pool, counter, minted, history, failures, replaced>>

(* The coin is pushed to the account; a failed write is logged and the     *)
(* alchemy goes on.                                                        *)
Award(h) ==
    /\ At(h, "award")
    /\ LET r == handler[h]
           id == CoinId(r.next, r.base)
           given == [r.read EXCEPT !.coins = @ \cup {id}]
           step == IF r.next < Len(r.winners) THEN "mint" ELSE "count"
       IN  /\ \/ /\ account' = [account EXCEPT ![r.winners[r.next]] = given]
                 /\ UNCHANGED failures
              \/ /\ failures < MaxFailures
                 /\ failures' = failures + 1
                 /\ UNCHANGED account
           /\ Set(h, [at |-> step, pool |-> r.pool, base |-> r.base,
                      winners |-> r.winners, next |-> r.next + 1])
    /\ UNCHANGED <<pool, counter, minted, history, replaced>>

(* Defect: the new value of the counter is not stored.                     *)
Bug_CounterNotSaved(h) ==
    /\ At(h, "count")
    /\ Goto(h, "reset")
    /\ UNCHANGED <<account, pool, counter, minted, history, failures, replaced>>

Count(h) ==
    /\ At(h, "count")
    /\ counter' = handler[h].base + Len(handler[h].winners)
    /\ Goto(h, "reset")
    /\ UNCHANGED <<account, pool, minted, history, failures, replaced>>

(* Defect: what the pool holds above its target stays in the new pool,     *)
(* although it is recorded as burned.                                      *)
Bug_KeepsSurplus(h) ==
    /\ At(h, "reset")
    /\ LET p == handler[h].pool
       IN  pool' = [NewPool(p.id) EXCEPT !.amount = p.amount - Target]
    /\ Goto(h, "record")
    /\ UNCHANGED <<account, counter, minted, history, failures, replaced>>

(* The new pool is named by the second trigger_alchemy began in, which may *)
(* be the second the old one was opened in.                                *)
Reset(h) ==
    /\ At(h, "reset")
    /\ \E now \in Seconds :
          /\ now >= handler[h].pool.id
          /\ pool' = NewPool(now)
    /\ Goto(h, "record")
    /\ UNCHANGED <<account, counter, minted, history, failures, replaced>>

(* The record goes under the name of the pool, over one of the same name.  *)
Record(h) ==
    /\ At(h, "record")
    /\ LET p == handler[h].pool
       IN  /\ history' = [history EXCEPT ![p.id] = p.amount]
           /\ replaced' = replaced + history[p.id]
    /\ Set(h, Idle)
    /\ UNCHANGED <<account, pool, counter, minted, failures>>

(* A write of the storage fails, or the process stops: the handler ends    *)
(* and what it has written so far stays.                                   *)
Fail(h) ==
    /\ ~At(h, "idle")
    /\ failures < MaxFailures
    /\ failures' = failures + 1
    /\ Set(h, Idle)
    /\ UNCHANGED <<account, pool, counter, minted, history, replaced>>

Step(h) ==
    \/ ReadPool(h)
    \/ ReadAccount(h)
    \/ Debit(h)
    \/ Credit(h)
    \/ Check(h)
    \/ Draw(h)
    \/ Mint(h)
    \/ ReadWinner(h)
    \/ Award(h)
    \/ Count(h)
    \/ Reset(h)
    \/ Record(h)
    \/ Fail(h)

Next == \E h \in Handlers : Step(h)

Spec == Init /\ [][Next]_vars

-----------------------------------------------------------------------------
Minting(h) ==
    handler[h].at \in {"mint", "winner", "award", "count", "reset"}

(* $POL that a handler has taken from one place and not yet put into the   *)
(* next one.                                                               *)
InFlight(h) ==
    IF At(h, "credit") THEN handler[h].amount
    ELSE IF At(h, "record") THEN handler[h].pool.amount
    ELSE 0

(* The records, with the one a handler is about to write.                  *)
Recording(h) == At(h, "record")

Records ==
    IF \E h \in Handlers : Recording(h)
    THEN LET p == handler[CHOOSE h \in Handlers : Recording(h)].pool
         IN  [history EXCEPT ![p.id] = p.amount]
    ELSE history

Pools == [id : Seconds, amount : Nat, depositors : [Accounts -> Nat]]

CoinIds == [prize : {"Gold", "Silver", "Bronze"}, serial : Nat \ {0}]

(* The types of what is stored: no balance is below zero (deposit).        *)
TypeOK ==
    /\ account \in [Accounts -> [balance : Nat, coins : SUBSET CoinIds]]
    /\ pool \in Pools
    /\ counter \in Nat
    /\ minted \subseteq [id : CoinIds, owner : Accounts]
    /\ history \in [Seconds -> Nat]
    /\ failures \in 0 .. MaxFailures
    /\ replaced \in Nat

(* $POL is neither made nor lost: balances, pool, what is recorded as      *)
(* burned and what a handler has in hand add up to the initial supply, but *)
(* for the records that the alchemy of another pool of the same second has *)
(* replaced; a failure in the middle of a handler may lose some but makes  *)
(* none (deposit, trigger_alchemy).                                        *)
Conserved ==
    LET total == SumFunction([a \in Accounts |-> account[a].balance])
                 + pool.amount
                 + SumFunction(history) + replaced
                 + SumFunction([h \in Handlers |-> InFlight(h)])
    IN  /\ failures = 0 => total = SumFunction(Initial)
        /\ total <= SumFunction(Initial)

(* The pool is what its depositors paid in, also after handlers failed     *)
(* half-way (deposit, trigger_alchemy).                                    *)
PoolIsItsDepositors == pool.amount = SumFunction(pool.depositors)

(* Between two alchemies, and as long as no handler failed, an account     *)
(* holds exactly the coins that are recorded as its own, serial numbers    *)
(* run from 1 to the counter, and no two coins share one                   *)
(* (trigger_alchemy).                                                      *)
CoinsHaveOneOwner ==
    failures = 0 /\ (\A h \in Handlers : ~Minting(h)) =>
        /\ \A a \in Accounts :
              account[a].coins = {c.id : c \in {d \in minted : d.owner = a}}
        /\ {c.id.serial : c \in minted} = 1 .. counter
        /\ Cardinality(minted) = counter

(* Refinement: a deposit takes effect when the account is debited, an      *)
(* alchemy when the pool is reset.                                         *)
Settled ==
    IF \E h \in Handlers : Minting(h)
    THEN handler[CHOOSE h \in Handlers : Minting(h)].base
    ELSE counter

Funds == [a \in Accounts |-> account[a].balance]

Stake ==
    [a \in Accounts |->
        pool.depositors[a] +
        SumFunction([h \in Handlers |->
            IF At(h, "credit") /\ handler[h].from = a
            THEN handler[h].amount ELSE 0])]

CoinsGiven ==
    UNION {{[prize |-> id.prize, serial |-> id.serial, owner |-> a] :
               id \in {i \in account[a].coins : i.serial <= Settled}} :
           a \in Accounts}

Ledger == INSTANCE PoolLedger WITH
    funds <- Funds, stake <- Stake, coins <- CoinsGiven,
    opened <- pool.id, records <- Records

(* Handled one at a time, deposits and alchemies are the atomic steps of   *)
(* PoolLedger until a handler fails; the step that fails is not one.       *)
ImplementsLedger ==
    /\ Ledger!LedgerInit
    /\ [][failures' = 0 => [Ledger!LedgerNext]_(Ledger!ledger)]_vars
=============================================================================
