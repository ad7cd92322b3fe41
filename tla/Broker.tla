------------------------------- MODULE Broker -------------------------------
(***************************************************************************)
(* The brokers' ledger in the supervisor and the life of a cross-shard     *)
(* transfer: supervisor/committee/committee_broker_b2e.go, broker/, and    *)
(* /applybroker and /withdrawbroker of supervisor/server.go.               *)
(*                                                                         *)
(* A raw transfer is given to a broker (dealTxByBroker).  Its first half,  *)
(* tx1, takes the value from the sender; when the block with tx1 is        *)
(* reported (HandleBlockInfo), the broker's tokens move from the           *)
(* recipient's shard to the sender's, and the second half, tx2, is sent,   *)
(* which pays the recipient.                                               *)
(*                                                                         *)
(* The committee's loop, the handlers of block infos and the HTTP handlers *)
(* run concurrently; the ledger is under BrokerBalanceLock, which          *)
(* dealTxByBroker holds from its start to the end of lockToken.  A         *)
(* transaction that stays in flight for ever is one that was lost.  Blocks *)
(* are reported here one transaction at a time: the loop over a block runs *)
(* under the same locks and takes the transactions one by one.             *)
(* Transfers within a shard do not touch the ledger and are left out.      *)
(***************************************************************************)
EXTENDS Integers, Sequences, FiniteSets, SequencesExt

CONSTANTS Shard,           \* the shards
          Types,           \* Transaction_Types, a sequence
          Address,         \* accounts that are or may become brokers
          FirstBrokers,    \* the brokers of the broker file, a sequence
          Init_broker_Balance,
          Raw,             \* the cross-shard transfers users make
          Stake,           \* amounts users stake
          MaxBatch,        \* 1000 in dealTxByBroker
          MaxApplies, MaxWithdrawals   \* bounds on the HTTP requests

ASSUME RawAssumption ==
    \A r \in Raw :
      /\ {"id", "sender", "recipient", "from", "to", "value", "fee", "type"}
           = DOMAIN r
      /\ r.from \in Shard /\ r.to \in Shard \ {r.from}
      /\ r.value \in Nat \ {0} /\ r.fee \in Nat /\ r.type \in Range(Types)

VARIABLES
    BrokerAddress,   \* sequence of the brokers
    BrokerBalance,   \* per <<type, broker>> with an account, per shard
    LockBalance,     \* tokens locked for transfers on their way
    ProfitBalance,   \* fees earned, in tenths of a token (Brokerage is 0.1)
    unseen,          \* transfers not made yet
    restPool,        \* restBrokerRawMegPool, per type
    deal,            \* where dealTxByBroker is: [stage, type, allocated]
    confirm1Pool,    \* brokerConfirm1Pool: tx1 hash -> allocated transfer
    confirm2Pool,    \* brokerConfirm2Pool: tx2 hash -> allocated transfer
    RawTx2BrokerTx,  \* halves confirmed, per transfer, in order
    flight,          \* halves sent to a shard and not executed yet
    reported,        \* halves in block infos that are not handled yet
    confirming,      \* halves whose createConfirm is still to run
    debited,         \* transfers whose value was taken from the sender
    credited,        \* how often the recipient was paid, per transfer
    applying,        \* /applybroker requests at BrokerBalanceLock.Lock()
    applies, withdrawals,   \* HTTP requests so far
    staked,          \* tokens taken by /applybroker, per <<type, address>>
    opened,          \* tokens the account was opened with
    returned,        \* tokens paid out, per <<type, address>>
    panicked         \* the supervisor has died of a run-time panic

ledger == <<BrokerAddress, BrokerBalance, LockBalance, ProfitBalance, opened>>
pools == <<confirm1Pool, confirm2Pool, RawTx2BrokerTx>>
accounts == <<debited, credited, staked, returned>>
requests == <<applying, applies, withdrawals>>
vars == <<ledger, unseen, restPool, deal, pools, flight, reported, confirming,
          accounts, requests, panicked>>

Type == Range(Types)
Account == Type \X Address
Even(amount) == [s \in Shard |-> amount]
IsBroker(a) == \E i \in DOMAIN BrokerAddress : BrokerAddress[i] = a
Total(balance) == SumFunction(balance)
SumOfValues(allocated) == MapThenSumSet(LAMBDA x : x.raw.value, allocated)

\* BrokerBalanceLock is free.
LedgerFree == deal.stage # "cover"
Idle == [stage |-> "idle", type |-> Types[1], allocated |-> {}]

\* A half of an allocated transfer x: [raw, broker].  "cause" tells apart two
\* second halves of one transfer.
Half(kind, x, cause) ==
    [kind |-> kind, raw |-> x.raw, broker |-> x.broker, cause |-> cause]


\* NewTransaction hashes sender, recipient, value, type, nonce and fee; the
\* nonce is the same for all.  The fields set later are not part of it.
TxHash(h) ==
    LET ends == IF h.kind = 1 THEN <<h.raw.sender, h.broker>>
                ELSE <<h.broker, h.raw.recipient>>
    IN <<ends, h.raw.value, h.raw.type, h.raw.fee>>

\* Mutant: the new entry replaces the whole map.
PutOnly(f, k, v) == [x \in {k} |-> v]

Put(f, k, v) == [x \in DOMAIN f \cup {k} |-> IF x = k THEN v ELSE f[x]]

Init ==
    LET first == Type \X Range(FirstBrokers)
    IN /\ BrokerAddress = FirstBrokers
       /\ BrokerBalance = [a \in first |-> Even(Init_broker_Balance)]
       /\ LockBalance = [a \in first |-> Even(0)]
       /\ ProfitBalance = [a \in first |-> Even(0)]
       /\ opened = [a \in first |-> Cardinality(Shard) * Init_broker_Balance]
    /\ unseen = Raw /\ restPool = [t \in Type |-> << >>] /\ deal = Idle
    /\ confirm1Pool = << >> /\ confirm2Pool = << >>
    /\ RawTx2BrokerTx = [r \in Raw |-> << >>]
    /\ flight = {} /\ reported = {} /\ confirming = {}
    /\ debited = {} /\ credited = [r \in Raw |-> 0]
    /\ applying = {} /\ applies = 0 /\ withdrawals = 0
    /\ staked = [a \in Account |-> 0] /\ returned = staked
    /\ panicked = FALSE

-----------------------------------------------------------------------------
(* The loop of MsgSendingControl.                                          *)

\* Broker2Earn.B2E gives every transfer of the batch to at most one broker and
\* no broker more than its total balance (see B2E).
Allocations(batch, t) ==
    LET brokers == {a \in Address : <<t, a>> \in DOMAIN BrokerBalance}
    IN {chosen \in SUBSET [raw : Range(batch), broker : brokers] :
          /\ \A x, y \in chosen : x.raw = y.raw => x = y
          /\ \A a \in brokers : SumOfValues({x \in chosen : x.broker = a})
                                  <= Total(BrokerBalance[<<t, a>>])}

\* Transfers that wait come first; what exceeds MaxBatch is dropped.  With no
\* broker left, BrokerAddress[0] panics.
dealTxByBroker(t, txs) ==
    /\ ~panicked /\ deal.stage = "idle"
    /\ unseen' = unseen \ Range(txs)
    /\ IF txs # << >> /\ BrokerAddress = << >>
       THEN panicked' = TRUE /\ UNCHANGED <<restPool, deal>>
       ELSE LET all == restPool[t] \o txs
                batch == SubSeq(all, 1, IF Len(all) > MaxBatch THEN MaxBatch
                                        ELSE Len(all))
            IN \E chosen \in Allocations(batch, t) :
                 /\ restPool' = [restPool EXCEPT ![t] =
                      SelectSeq(batch, LAMBDA r : \A x \in chosen : x.raw # r)]
                 /\ deal' = IF chosen = {} THEN Idle
                            ELSE [stage |-> "cover", type |-> t,
                                  allocated |-> chosen]
                 /\ UNCHANGED panicked
    /\ UNCHANGED <<ledger, pools, flight, reported, confirming, accounts,
                   requests>>

\* What a broker has in a shard beyond the transfers it has to pay there.
Need(a, s) == SumOfValues({x \in deal.allocated : x.broker = a /\ x.raw.to = s})
Peek(a, s) == BrokerBalance[<<deal.type, a>>][s] - Need(a, s)
\* Mutant: no shard helps another.
CanCoverNever(a, to, from) == FALSE

CanCover(a, to, from) == Peek(a, to) < 0 /\ Peek(a, from) > 0

\* GenerateAllocatedTx and handleAllocatedTx: one shard in deficit is helped by
\* one with a surplus.
Cover(a, to, from) ==
    /\ ~panicked /\ deal.stage = "cover"
    /\ CanCover(a, to, from)
    /\ LET moved == IF Peek(a, from) < -Peek(a, to) THEN Peek(a, from)
                    ELSE -Peek(a, to)
       IN BrokerBalance' = [BrokerBalance EXCEPT
            ![<<deal.type, a>>] = [@ EXCEPT ![to] = @ + moved,
                                            ![from] = @ - moved]]
    /\ UNCHANGED <<BrokerAddress, LockBalance, ProfitBalance, opened, unseen,
                   restPool, deal, pools, flight, reported, confirming, accounts,
                   requests, panicked>>

\* Once all deficits are covered: the values are locked and the ledger is
\* unlocked.
lockToken ==
    /\ ~panicked /\ deal.stage = "cover"
    /\ \A x \in deal.allocated : \A to, from \in Shard :
         ~CanCover(x.broker, to, from)
    /\ LET locked(a, s) == IF IsBroker(a[2]) /\ a[1] = deal.type
                           THEN Need(a[2], s) ELSE 0
       IN /\ LockBalance' = [a \in DOMAIN LockBalance |->
               [s \in Shard |-> LockBalance[a][s] + locked(a, s)]]
          /\ BrokerBalance' = [a \in DOMAIN BrokerBalance |->
               [s \in Shard |-> BrokerBalance[a][s] - locked(a, s)]]
    /\ deal' = [deal EXCEPT !.stage = "send"]
    /\ UNCHANGED <<BrokerAddress, ProfitBalance, opened, unseen, restPool,
                   pools, flight, reported, confirming, accounts, requests, panicked>>

\* The pool entries of all first halves, then the first halves are sent.
handleBrokerRawMag ==
    /\ ~panicked /\ deal.stage = "send"
    /\ LET halves == {Half(1, x, x.raw) : x \in deal.allocated}
           hashes == {TxHash(h) : h \in halves}
       IN /\ flight' = flight \cup halves
          /\ \E last \in [hashes -> halves] :
               /\ \A k \in hashes : TxHash(last[k]) = k
               /\ confirm1Pool' = [k \in DOMAIN confirm1Pool \cup hashes |->
                    IF k \in hashes
                    THEN [raw |-> last[k].raw, broker |-> last[k].broker]
                    ELSE confirm1Pool[k]]
    /\ deal' = Idle
    /\ UNCHANGED <<ledger, unseen, restPool, confirm2Pool, RawTx2BrokerTx,
                   reported, confirming, accounts, requests, panicked>>

-----------------------------------------------------------------------------
(* The shards, and the block infos they send.                              *)

\* A shard executes a half and its leader reports it: tx1 takes the value from
\* the sender and pays nobody, tx2 pays the recipient and takes from nobody.
ExeTx(h) ==
    /\ flight' = flight \ {h}
    /\ reported' = reported \cup {h}
    /\ debited' = IF h.kind = 1 THEN debited \cup {h.raw} ELSE debited
    /\ credited' = IF h.kind = 2 THEN [credited EXCEPT ![h.raw] = @ + 1]
                   ELSE credited
    /\ UNCHANGED <<ledger, unseen, restPool, deal, pools, confirming, staked,
                   returned, requests, panicked>>


\* Mutant: the fee is paid out as well as booked.
SettledWithFee(x, account) ==
    /\ LockBalance' = [LockBalance EXCEPT ![account][x.to] = @ - x.value]
    /\ BrokerBalance' = [BrokerBalance EXCEPT
                            ![account][x.from] = @ + x.value + x.fee]
    /\ ProfitBalance' = [ProfitBalance EXCEPT ![account][x.from] = @ + x.fee]
    /\ UNCHANGED <<BrokerAddress, opened>>

\* The ledger after tx1 of x: the locked tokens are the broker's in the shard
\* of the sender.
Settled(x, account) ==
    /\ LockBalance' = [LockBalance EXCEPT ![account][x.to] = @ - x.value]
    /\ BrokerBalance' = [BrokerBalance EXCEPT ![account][x.from] = @ + x.value]
    /\ ProfitBalance' = [ProfitBalance EXCEPT ![account][x.from] = @ + x.fee]
    /\ UNCHANGED <<BrokerAddress, opened>>

\* Under BrokerModuleLock and BrokerBalanceLock.  A broker without an account
\* of the type is a nil pointer.
HandleBlockInfo(h) ==
    /\ ~panicked /\ LedgerFree
    /\ LET account == <<h.raw.type, h.broker>>
           dies == h.kind = 1 /\ IsBroker(h.broker)
                     /\ account \notin DOMAIN LockBalance
       IN /\ panicked' = dies
          /\ IF /\ h.kind = 1 /\ IsBroker(h.broker) /\ ~dies
                /\ LockBalance[account][h.raw.to] >= h.raw.value
             THEN Settled(h.raw, account)
             ELSE UNCHANGED ledger
    /\ reported' = reported \ {h}
    /\ confirming' = confirming \cup {h}
    /\ UNCHANGED <<unseen, restPool, deal, pools, flight, accounts, requests>>

\* The halves of transfers confirmed when one with hash k is reported.  The
\* raw transfer of an entry of brokerConfirm1Pool is always in BrokerRawMegs.
handleTx1ConfirmMag(k) ==
    IF k \in DOMAIN confirm1Pool
    THEN [RawTx2BrokerTx EXCEPT ![confirm1Pool[k].raw] = Append(@, 1)]
    ELSE RawTx2BrokerTx
handleTx2ConfirmMag(k, halves) ==
    IF k \in DOMAIN confirm2Pool
    THEN [halves EXCEPT ![confirm2Pool[k].raw] = Append(@, 2)]
    ELSE halves

\* The second half of x is registered and sent.
handleBrokerType2Mes(x, cause) ==
    LET half == Half(2, x, cause)
    IN /\ confirm2Pool' = Put(confirm2Pool, TxHash(half), x)
       /\ flight' = flight \cup {half}

\* createConfirm finds the transfer by the hash of the half.
createConfirm(h) ==
    /\ ~panicked
    /\ LET k == TxHash(h)
       IN /\ RawTx2BrokerTx' = handleTx2ConfirmMag(k, handleTx1ConfirmMag(k))
          /\ IF k \in DOMAIN confirm1Pool
             THEN handleBrokerType2Mes(confirm1Pool[k], h.cause)
             ELSE UNCHANGED <<confirm2Pool, flight>>
    /\ confirming' = confirming \ {h}
    /\ UNCHANGED <<ledger, unseen, restPool, deal, confirm1Pool, reported,
                   accounts, requests, panicked>>

-----------------------------------------------------------------------------
(* The HTTP handlers.                                                      *)

\* The checks of /applybroker; the stake has been taken from the account then.
\* IsBroker is read without the lock.
applybroker(a, t, token) ==
    /\ ~panicked /\ applies < MaxApplies
    /\ applies' = applies + 1
    /\ staked' = [staked EXCEPT ![<<t, a>>] = @ + token]
    /\ LET balancepershard == token \div Cardinality(Shard)
       IN applying' = IF balancepershard = 0 \/ IsBroker(a) THEN applying
                      ELSE applying \cup {[addr |-> a, type |-> t,
                             amount |-> balancepershard, request |-> applies]}
    /\ UNCHANGED <<ledger, unseen, restPool, deal, pools, flight, reported,
                   confirming, debited, credited, returned, withdrawals,
                   panicked>>

\* The rest of /applybroker, under the lock.
becomeBroker(q) ==
    /\ ~panicked /\ LedgerFree
    /\ LET account == <<q.type, q.addr>>
       IN /\ BrokerAddress' = <<q.addr>> \o BrokerAddress
          /\ BrokerBalance' = Put(BrokerBalance, account, Even(q.amount))
          /\ LockBalance' = Put(LockBalance, account, Even(0))
          /\ ProfitBalance' = Put(ProfitBalance, account, Even(0))
          /\ opened' = Put(opened, account, q.amount * Cardinality(Shard))
    /\ applying' = applying \ {q}
    /\ UNCHANGED <<unseen, restPool, deal, pools, flight, reported, confirming,
                   accounts, applies, withdrawals, panicked>>

\* What an account holds, the fees cut to whole tokens.
Holdings(account) ==
    (10 * (Total(BrokerBalance[account]) + Total(LockBalance[account]))
       + Total(ProfitBalance[account])) \div 10

\* profitUint64 is added up over the types: the payment in the i-th type holds
\* the holdings in the types before it.
Payment(a, i) ==
    MapThenSumSet(LAMBDA j : Holdings(<<Types[j], a>>),
                  {j \in 1 .. i : <<Types[j], a>> \in DOMAIN BrokerBalance})

Without(f, a) == [x \in {y \in DOMAIN f : y[2] # a} |-> f[x]]

\* Mutant: the locks of a broker that leaves stay.
DeleteKeepsLocks(a) ==
    /\ BrokerBalance' = Without(BrokerBalance, a)
    /\ ProfitBalance' = Without(ProfitBalance, a)
    /\ UNCHANGED LockBalance

\* The accounts of a are deleted from the three maps.
Delete(a) ==
    /\ BrokerBalance' = Without(BrokerBalance, a)
    /\ LockBalance' = Without(LockBalance, a)
    /\ ProfitBalance' = Without(ProfitBalance, a)

withdrawbroker(a) ==
    /\ ~panicked /\ LedgerFree /\ withdrawals < MaxWithdrawals
    /\ IsBroker(a)
    /\ withdrawals' = withdrawals + 1
    /\ returned' = [x \in Account |->
         IF x[2] = a /\ x \in DOMAIN BrokerBalance
         THEN returned[x] + Payment(a, CHOOSE i \in DOMAIN Types : Types[i] = x[1])
         ELSE returned[x]]
    /\ Delete(a)
    /\ opened' = Without(opened, a)
    /\ BrokerAddress' = RemoveFirst(BrokerAddress, a)
    /\ UNCHANGED <<unseen, restPool, deal, pools, flight, reported, confirming,
                   debited, credited, staked, applying, applies, panicked>>

-----------------------------------------------------------------------------
\* A round of the loop with any transfers that were made since the last one.
Deal == \E t \in Type : \E new \in SUBSET {r \in unseen : r.type = t} :
          \E txs \in SetToSeqs(new) : dealTxByBroker(t, txs)

Next ==
    \/ Deal
    \/ \E a \in Address, to, from \in Shard :
         /\ \E x \in deal.allocated : x.broker = a
         /\ Cover(a, to, from)
    \/ lockToken
    \/ handleBrokerRawMag
    \/ \E h \in flight : ExeTx(h)
    \/ \E h \in reported : HandleBlockInfo(h)
    \/ \E h \in confirming : createConfirm(h)
    \/ \E a \in Address, t \in Type, token \in Stake : applybroker(a, t, token)
    \/ \E q \in applying : becomeBroker(q)
    \/ \E a \in Address : withdrawbroker(a)

\* The loop runs once a second, the shards execute what reaches them and the
\* Go scheduler runs every handler.
Fairness ==
    /\ WF_vars(lockToken) /\ WF_vars(handleBrokerRawMag)
    /\ WF_vars(\E a \in Address, to, from \in Shard :
         (\E x \in deal.allocated : x.broker = a) /\ Cover(a, to, from))
    /\ WF_vars(\E h \in flight : ExeTx(h))
    /\ WF_vars(\E h \in reported : HandleBlockInfo(h))
    /\ WF_vars(\E h \in confirming : createConfirm(h))

Spec == Init /\ [][Next]_vars
FairSpec == Spec /\ Fairness

-----------------------------------------------------------------------------
(* Properties.                                                             *)

Allocated == [raw : Raw, broker : Address]
HalfTx == [kind : {1, 2}, raw : Raw, broker : Address, cause : Raw]

\* Type invariant; the three maps of the ledger have the same keys.
TypeOK ==
    /\ BrokerAddress \in Seq(Address)
    /\ DOMAIN BrokerBalance \subseteq Account
    /\ {DOMAIN LockBalance, DOMAIN ProfitBalance, DOMAIN opened}
         = {DOMAIN BrokerBalance}
    /\ \A a \in DOMAIN BrokerBalance :
         {BrokerBalance[a], LockBalance[a], ProfitBalance[a]}
           \subseteq [Shard -> Int]
    /\ unseen \subseteq Raw /\ restPool \in [Type -> Seq(Raw)]
    /\ deal \in [stage : {"idle", "cover", "send"}, type : Type,
                 allocated : SUBSET Allocated]
    /\ Range(confirm1Pool) \cup Range(confirm2Pool) \subseteq Allocated
    /\ RawTx2BrokerTx \in [Raw -> Seq({1, 2})]
    /\ flight \cup reported \cup confirming \subseteq HalfTx
    /\ debited \subseteq Raw /\ credited \in [Raw -> Nat]
    /\ staked \in [Account -> Nat] /\ returned \in [Account -> Nat]
    /\ panicked \in BOOLEAN

\* What an account was opened with is in its balances and locks, however
\* allocations, rebalancings, settlements of late transfers, withdrawals and
\* new applications interleave (GenerateAllocatedTx, lockToken,
\* HandleBlockInfo); an applicant's account was opened with its own tokens.
StakeConserved ==
    \A a \in DOMAIN BrokerBalance :
      /\ Total(BrokerBalance[a]) + Total(LockBalance[a]) = opened[a]
      /\ a[2] \in Range(FirstBrokers) \/ opened[a] <= staked[a]

\* No balance and no lock is ever negative outside the ledger's lock: the
\* allocation of B2E, which looks at a broker's total, is always covered in
\* every shard by GenerateAllocatedTx.
NothingNegative ==
    \A a \in DOMAIN BrokerBalance : \A s \in Shard :
      BrokerBalance[a][s] >= 0 /\ LockBalance[a][s] >= 0

\* First halves on their way for a broker to a shard.
OnTheWay(a, s) ==
    SumOfValues({h \in flight \cup reported :
                   h.kind = 1 /\ h.broker = a[2] /\ h.raw.type = a[1]
                     /\ h.raw.to = s}
                \cup {x \in deal.allocated : deal.stage = "send"
                        /\ x.broker = a[2] /\ x.raw.type = a[1]
                        /\ x.raw.to = s})



\* The supervisor dies only after a broker has left: dealTxByBroker needs a
\* broker, and HandleBlockInfo the account of each broker whose transfers are
\* on their way.
DiesOnlyAfterWithdrawal == panicked => withdrawals > 0


\* The comment "calculate the money to return" of /withdrawbroker: a withdrawal pays out, in each type, what
\* the account of that type holds.
WithdrawalPaysHoldings ==
    [][\A a \in DOMAIN BrokerBalance \ DOMAIN BrokerBalance' :
         returned'[a] - returned[a] = Holdings(a)]_vars
=============================================================================
