----------------------------- MODULE PoolLedger -----------------------------
(***************************************************************************)
(* What the prize pool of polis-chain (pool/alchemy.rs) promises, as       *)
(* atomic steps: a deposit moves $POL from an account into the pool; when  *)
(* the pool has reached its target, all it holds is burned and up to six   *)
(* coins, numbered on from the last one, go to different depositors.  What *)
(* was burned is on record under the second the pool was opened in, and    *)
(* only the alchemy of another pool of that second takes the record away.  *)
(***************************************************************************)
EXTENDS Naturals, Sequences, FiniteSetsExt, Functions

CONSTANTS
    Accounts,
    Target,         \* DEFAULT_POOL_TARGET
    Initial,        \* Initial[a]: the balance account a starts with
    Seconds         \* the seconds a clock shows

(* One gold, two silver and three bronze coins, drawn in this order.       *)
Prizes == <<"Gold", "Silver", "Silver", "Bronze", "Bronze", "Bronze">>

(* The possible results of a draw: each depositor wins at most once, and   *)
(* there are as many winners as there are prizes and depositors.           *)
Draws(depositors) ==
    LET k == Min({Len(Prizes), Cardinality(depositors)})
    IN  Injection(1 .. k, depositors)

(* The coins a draw gives out, numbered on from base.                      *)
CoinsOf(draw, base) ==
    {[prize |-> Prizes[i], serial |-> base + i, owner |-> draw[i]] :
        i \in DOMAIN draw}

VARIABLES
    funds,          \* the balance of every account
    stake,          \* what every account has in the pool
    coins,          \* the coins given out so far
    opened,         \* the second the pool was opened in
    records         \* records[s]: what the last pool opened in s burned

ledger == <<funds, stake, coins, opened, records>>

LedgerInit ==
    /\ funds = Initial
    /\ stake = [a \in Accounts |-> 0]
    /\ coins = {}
    /\ opened = 0
    /\ records = [second \in Seconds |-> 0]

PayIn(a) ==
    \E x \in 1 .. funds[a] :
        /\ funds' = [funds EXCEPT ![a] = @ - x]
        /\ stake' = [stake EXCEPT ![a] = @ + x]
        /\ UNCHANGED <<coins, opened, records>>

BurnAndMint ==
    /\ SumFunction(stake) >= Target
    /\ \E draw \in Draws({a \in Accounts : stake[a] > 0}) :
          coins' = coins \cup CoinsOf(draw, Cardinality(coins))
    /\ records' = [records EXCEPT ![opened] = SumFunction(stake)]
    /\ opened' \in {second \in Seconds : second >= opened}
    /\ stake' = [a \in Accounts |-> 0]
    /\ UNCHANGED funds

LedgerNext == BurnAndMint \/ \E a \in Accounts : PayIn(a)

LedgerSpec == LedgerInit /\ [][LedgerNext]_ledger
=============================================================================
