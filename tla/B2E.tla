-------------------------------- MODULE B2E --------------------------------
(***************************************************************************)
(* Broker2Earn: which broker serves which cross-shard transaction          *)
(* (supervisor/Broker2Earn).  Each of IterNum iterations first spreads the *)
(* transactions that are left over the brokers' balances (URFA_Linear),    *)
(* where one may be split between two brokers, and then draws them one by  *)
(* one (B2E_Rounding), where each goes to one broker or to none.           *)
(*                                                                         *)
(* The weights of the draw are floating-point numbers; here any listed     *)
(* transaction may be drawn.  (Go iterates over its maps in any order, and *)
(* sort.Slice is not stable.)                                              *)
(***************************************************************************)
EXTENDS Integers, Sequences, FiniteSets, SequencesExt

CONSTANTS Tx,        \* the batch; a transaction is known by its pointer
          Broker,    \* the brokers
          Value,     \* values of a transaction
          Fee,       \* fees of a transaction
          Balance,   \* total balances of a broker
          IterNum    \* IterNum_B2E

VARIABLES
    value, fee,      \* of each transaction
    funds,           \* brokerBalance: total balance at the start
    now,             \* nowbrokerBalance: what the iterations left of it
    left,            \* New_brokerRawMegs[sign]
    iter,
    result,          \* allocated transactions, as [tx, broker]
    phase,           \* "linear" or "round"
    order,           \* brokerAddresses, in this iteration and phase
    index,           \* brokerIndex
    filled,          \* nowBrokerBalance of URFA_Linear
    todo,            \* transactions the loop of URFA_Linear has ahead of it
    ratios,          \* its result: sequence of [tx, brokers]
    broker2Tx,       \* lists of the draw, per broker
    tx2broker,       \* positions in those lists, per transaction and broker
    used,            \* nowBrokerBalance of B2E_Rounding
    picked           \* its result, as [tx, broker]

input == <<value, fee, funds>>
linear == <<index, filled, todo, ratios>>
rounding == <<broker2Tx, tx2broker, used, picked>>
vars == <<input, now, left, iter, result, phase, order, linear, rounding>>

Zero == [b \in Broker |-> 0]
Allocation == [tx : Tx, broker : Broker]
Orders == SetToSeqs(Broker)
EmptyLists == [b \in Broker |-> << >>]
NoPosition == [t \in Tx |-> << >>]

Spent(allocated, b) ==
    MapThenSumSet(LAMBDA a : value[a.tx],
                  {a \in allocated : a.broker = b})

Init ==
    /\ value \in [Tx -> Value] /\ fee \in [Tx -> Fee]
    /\ funds \in [Broker -> Balance]
    /\ now = funds /\ left = Tx /\ iter = 0 /\ result = {}
    /\ phase = "linear" /\ order \in Orders
    /\ index = 1 /\ filled = Zero /\ todo = Tx /\ ratios = << >>
    /\ broker2Tx = EmptyLists /\ tx2broker = NoPosition
    /\ used = Zero /\ picked = {}

-----------------------------------------------------------------------------
(* URFA_Linear.                                                            *)

\* Fee / (Value + 0.000001) of t is larger than that of u.
Better(t, u) ==
    fee[t] * (1000000 * value[u] + 1) > fee[u] * (1000000 * value[t] + 1)
Best == {t \in todo : \A u \in todo : ~Better(u, t)}

\* t together with what b was given reaches b's balance.
Splits(b, t) == filled[b] < now[b] /\ filled[b] + value[t] >= now[b]

\* The brokers of a split transaction: its rest goes to the next broker if
\* that one can take it.
SplitBrokers(b, t, next) ==
    {b} \cup (IF filled[b] + value[t] - now[b] <= now[next] - filled[next]
              THEN {next} ELSE {})

\* One turn of the loop over the transactions sorted by rate.
Linear(t) ==
    /\ phase = "linear" /\ iter < IterNum
    /\ index <= Len(order)
    /\ t \in Best
    /\ LET b == order[index]
       IN \/ /\ now[b] < value[t]
             /\ todo' = todo \ {t}
             /\ UNCHANGED <<index, filled, ratios>>
          \/ /\ now[b] >= value[t] /\ Splits(b, t)
             /\ filled' = [filled EXCEPT ![b] = now[b]]
             /\ index' = index + 1
             /\ todo' = todo \ {t}
             /\ ratios' = IF index = Len(order) THEN ratios   \* break
                          ELSE Append(ratios, [tx |-> t,
                                 brokers |-> SplitBrokers(b, t, order[index + 1])])
          \/ /\ now[b] >= value[t] /\ ~Splits(b, t)
             /\ filled' = [filled EXCEPT ![b] = @ + value[t]]
             /\ todo' = todo \ {t}
             /\ ratios' = Append(ratios, [tx |-> t, brokers |-> {b}])
             /\ UNCHANGED index
    /\ UNCHANGED <<input, now, left, iter, result, phase, order, rounding>>

-----------------------------------------------------------------------------
(* B2E_Rounding.                                                           *)

ListOf(b) ==
    LET mine == SelectSeq(ratios, LAMBDA r : b \in r.brokers)
    IN [i \in DOMAIN mine |-> mine[i].tx]

\* The lists of the draw, and where each transaction stands in them.
BuildLists ==
    /\ phase = "linear" /\ iter < IterNum
    /\ todo = {} \/ index > Len(order)
    /\ phase' = "round"
    /\ order' \in Orders
    /\ broker2Tx' = [b \in Broker |-> ListOf(b)]
    /\ tx2broker' = [t \in Tx |->
         [b \in {c \in Broker : \E i \in DOMAIN ListOf(c) : ListOf(c)[i] = t} |->
            CHOOSE i \in DOMAIN ListOf(b) : ListOf(b)[i] = t]]
    /\ used' = Zero /\ picked' = {}
    /\ UNCHANGED <<input, now, left, iter, result, linear>>

\* Mutant: the balance is not looked at again.
FitsAlways(b, t) == TRUE

Fits(b, t) == used[b] + value[t] <= now[b]

\* Mutant: a drawn transaction leaves only the list it was drawn from.
ListsWithTx(b, t) == {b}

\* Mutant: a transaction that does not fit stays in its lists.
ListsWithPicked(b, t) == IF Fits(b, t) THEN DOMAIN tx2broker[t] ELSE {}

\* The lists that hold t when b draws it.
ListsWith(b, t) == DOMAIN tx2broker[t]

\* Mutant: the transactions behind the deleted one keep their positions.
PositionUnmoved(u, b, deleted) == tx2broker[u][b]

\* The position of u in b's list once the one at "deleted" is gone.
PositionAfter(u, b, deleted) ==
    IF tx2broker[u][b] > deleted THEN tx2broker[u][b] - 1 ELSE tx2broker[u][b]

\* One draw of the first broker whose list is not empty.
Draw(k, i) ==
    /\ phase = "round"
    /\ \A j \in 1 .. k - 1 : broker2Tx[order[j]] = << >>
    /\ LET b == order[k]
           t == broker2Tx[b][i]
           from == ListsWith(b, t)
       IN /\ IF Fits(b, t)
             THEN /\ picked' = picked \cup {[tx |-> t, broker |-> b]}
                  /\ used' = [used EXCEPT ![b] = @ + value[t]]
             ELSE UNCHANGED <<picked, used>>
          /\ broker2Tx' = [c \in Broker |->
               IF c \in from THEN RemoveAt(broker2Tx[c], tx2broker[t][c])
               ELSE broker2Tx[c]]
          /\ tx2broker' = [u \in Tx |-> [c \in DOMAIN tx2broker[u] |->
               IF c \in from /\ u # t
               THEN PositionAfter(u, c, tx2broker[t][c])
               ELSE tx2broker[u][c]]]
    /\ UNCHANGED <<input, now, left, iter, result, phase, order, linear>>

\* The end of an iteration of B2E: what was picked is paid for.
EndIteration ==
    /\ phase = "round"
    /\ broker2Tx = EmptyLists
    /\ now' = [b \in Broker |-> now[b] - Spent(picked, b)]
    /\ result' = result \cup picked
    /\ left' = left \ {a.tx : a \in picked}
    /\ iter' = iter + 1
    /\ phase' = "linear" /\ order' \in Orders
    /\ index' = 1 /\ filled' = Zero /\ todo' = left' /\ ratios' = << >>
    /\ tx2broker' = NoPosition /\ used' = Zero /\ picked' = {}
    /\ UNCHANGED <<input, broker2Tx>>

Next ==
    \/ \E t \in todo : Linear(t)
    \/ BuildLists
    \/ \E k \in DOMAIN order : \E i \in DOMAIN broker2Tx[order[k]] : Draw(k, i)
    \/ EndIteration

Spec == Init /\ [][Next]_vars /\ WF_vars(Next)

-----------------------------------------------------------------------------
(* Properties.                                                             *)

\* Type invariant.
TypeOK ==
    /\ value \in [Tx -> Value] /\ fee \in [Tx -> Fee]
    /\ funds \in [Broker -> Nat] /\ now \in [Broker -> Nat]
    /\ left \subseteq Tx /\ todo \subseteq left /\ iter \in 0 .. IterNum
    /\ result \subseteq Allocation /\ picked \subseteq Allocation
    /\ phase \in {"linear", "round"} /\ order \in Orders
    /\ index \in 1 .. Len(order) + 1 /\ filled \in [Broker -> Nat]
    /\ ratios \in Seq([tx : Tx, brokers : SUBSET Broker])
    /\ broker2Tx \in [Broker -> Seq(Tx)]
    /\ \A t \in Tx : DOMAIN tx2broker[t] \subseteq Broker
    /\ used \in [Broker -> Nat]

\* No broker is given more than its balance, over all iterations, although
\* URFA_Linear gives split transactions to two brokers (B2E_Rounding).
WithinBudget ==
    \A b \in Broker : Spent(result \cup picked, b) <= funds[b]

\* A transaction gets at most one broker, over all draws and iterations, also
\* when it was listed for two (B2E_Rounding, difference).
AllocatedOnce ==
    \A a, c \in result \cup picked : a.tx = c.tx => a = c

\* tx2broker follows every deletion from the lists: the index with which a
\* drawn transaction is cut out of the other broker's list is its own.
PositionsRight ==
    phase = "round" =>
      \A b \in Broker : \A i \in DOMAIN broker2Tx[b] :
        LET t == broker2Tx[b][i]
        IN b \in DOMAIN tx2broker[t] /\ tx2broker[t][b] = i

\* B2E returns: the draws empty every list (the loop of B2E_Rounding runs
\* while a list is not empty, and dealTxByBroker holds BrokerBalanceLock).
Returns == <>(iter = IterNum)

\* "if tx value + allocated broker > broker balance, split tx": transactions
\* that together do not exceed the balance of the only broker are not split,
\* so all of them are allocated.
ExactFitAllocated ==
    \A b \in Broker :
      (/\ Broker = {b} /\ iter = IterNum
       /\ MapThenSumSet(LAMBDA t : value[t], Tx) <= funds[b])
        => left = {}
=============================================================================
