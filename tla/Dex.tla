-------------------------------- MODULE Dex --------------------------------
(***************************************************************************)
(* The exchange: the two reserves of the automated market maker that the   *)
(* supervisor keeps (server.go, /exchange and /queryrate), transfers        *)
(* (/transaction), and the account balances in the leaders' BalanceMap     *)
(* (chain/blockchain.go) that both change through injected transactions.   *)
(*                                                                         *)
(* The HTTP handlers run in goroutines of their own and touch the reserves *)
(* without a lock, so /exchange is one step per access to a reserve.  An   *)
(* injected message travels in a goroutine of its own: messages arrive in  *)
(* any order, and a failed dial loses one.  The leader of a shard packs    *)
(* transactions from the head of its pool and applies them one by one.     *)
(***************************************************************************)
EXTENDS Integers, Sequences, FiniteSetsExt

CONSTANTS Addr,          \* account addresses
          Shard,         \* shards; only their leaders appear
          Addr2Shard,    \* [Addr -> Shard]
          Init_Balance,  \* what an account holds before its first change
          InitReserve,   \* both reserves at the start
          Token,         \* amounts that requests ask for
          Swap,          \* pairs <<type_from, type_to>> that requests ask for
          Transfer,      \* pairs <<from_addr, to_addr>> that requests ask for
          Handler,       \* concurrent /exchange handlers
          BlockSize,     \* transactions packed in a block
          MaxRequests    \* bound on the requests of a run

Transaction_Types == {"BKC", "Badge"}

ASSUME DexAssumption ==
    /\ Addr2Shard \in [Addr -> Shard]
    /\ InitReserve \in Nat \ {0}
    /\ Init_Balance \in Nat
    /\ Token \subseteq Nat \ {0}
    /\ Swap \subseteq Transaction_Types \X Transaction_Types
    /\ Transfer \subseteq Addr \X Addr
    /\ BlockSize \in Nat \ {0}
    /\ MaxRequests \in Nat

VARIABLES amm_model,     \* [bkc, badge] keyed by the token type
          exchange,      \* what each /exchange handler is doing
          wire,          \* injected messages on their way
          TxQueue,       \* the pool of each leader
          packed,        \* transactions of the block each leader executes
          BalanceMap,    \* per leader and type: the accounts it has touched
          requests,      \* requests accepted so far
          asked, lost    \* history: the transactions of accepted requests,
                         \* the messages that did not arrive

vars == <<amm_model, exchange, wire, TxQueue, packed, BalanceMap, requests, asked, lost>>

constant_val == InitReserve * InitReserve

Other(t) == IF t = "BKC" THEN "Badge" ELSE "BKC"

----------------------------------------------------------------------------
(* Transactions and what a leader does with one. *)

\* IncreaseOrDecrease is 1 (take), 2 (give) or 0; copy tells the two dials of
\* one request apart.
Tx(from, to, value, type, inc, id) ==
    [sender |-> from, recipient |-> to, value |-> value, type |-> type,
     inc |-> inc, id |-> id]

Message(shard, txs, copy) == [to |-> shard, txs |-> txs, copy |-> copy]

BalanceIn(map, t, a) == IF a \in DOMAIN map[t] THEN map[t][a] ELSE Init_Balance

changeAccBalance(map, a, val, t) ==
    [map EXCEPT ![t] = [x \in DOMAIN map[t] \cup {a} |->
        IF x = a THEN BalanceIn(map, t, a) + val ELSE map[t][x]]]


dealAccountBalance(map, tx) ==
    IF tx.sender = tx.recipient
    THEN CASE tx.inc = 2 -> changeAccBalance(map, tx.sender, tx.value, tx.type)
           [] tx.inc = 1 -> changeAccBalance(map, tx.sender, -tx.value, tx.type)
           [] OTHER      -> map
    ELSE changeAccBalance(changeAccBalance(map, tx.sender, -tx.value, tx.type),
                          tx.recipient, tx.value, tx.type)

----------------------------------------------------------------------------
(* The HTTP handlers. *)

NoExchange == [pc |-> "idle"]

Init ==
    /\ amm_model = [t \in Transaction_Types |-> InitReserve]
    /\ exchange = [h \in Handler |-> NoExchange]
    /\ wire = {}
    /\ TxQueue = [s \in Shard |-> << >>]
    /\ packed = [s \in Shard |-> << >>]
    /\ BalanceMap = [s \in Shard |-> [t \in Transaction_Types |-> << >>]]
    /\ requests = 0
    /\ asked = {}
    /\ lost = {}

\* /transaction: the same message is dialled to the leader of the sender's
\* shard and to the leader of the recipient's.
Transaction(from, to, token, type) ==
    /\ requests < MaxRequests
    /\ requests' = requests + 1
    /\ LET tx == Tx(from, to, token, type, 0, requests')
       IN  /\ wire' = wire \cup {Message(Addr2Shard[from], <<tx>>, 1),
                                 Message(Addr2Shard[to], <<tx>>, 2)}
           /\ asked' = asked \cup {tx}
    /\ UNCHANGED <<amm_model, exchange, TxQueue, packed, BalanceMap, lost>>

\* Mutants: the quotient rounds up; the request is priced at the old reserve;
\* one token too few is left.
QuoUp(token, from) == (constant_val + amm_model[from] - 1) \div amm_model[from]
QuoOld(token, from) == constant_val \div (amm_model[from] - token)
QuoLess(token, from) == (constant_val \div amm_model[from]) - 1

\* What must remain of the other token (token is already in the reserve).
Quo(token, from) == constant_val \div amm_model[from]

\* What /queryrate promises for token of type from.
queryrate(token, from) ==
    amm_model[Other(from)] - constant_val \div (amm_model[from] + token)

\* /exchange, first access: the amount is added to the reserve it comes from.
\* (quoted is what /queryrate answers just before; the code does not keep it.)
ExchangeAdd(h, addr, from, to, token) ==
    /\ requests < MaxRequests
    /\ exchange[h].pc = "idle"
    /\ requests' = requests + 1
    /\ amm_model' = [amm_model EXCEPT ![from] = @ + token]
    /\ exchange' = [exchange EXCEPT ![h] =
         [pc |-> "quo", addr |-> addr, from |-> from, to |-> to, token |-> token,
          id |-> requests', rest |-> 0, given |-> 0, quoted |-> queryrate(token, from)]]
    /\ UNCHANGED <<wire, TxQueue, packed, BalanceMap, asked, lost>>

ExchangeQuo(h) ==
    /\ exchange[h].pc = "quo"
    /\ exchange' = [exchange EXCEPT ![h].pc = "sub",
                                    ![h].rest = Quo(exchange[h].token, exchange[h].from)]
    /\ UNCHANGED <<amm_model, wire, TxQueue, packed, BalanceMap, requests, asked, lost>>

\* given_money: the BKC branch subtracts from the badge reserve, and so does
\* the Badge branch.
ExchangeSub(h) ==
    /\ exchange[h].pc = "sub"
    /\ exchange' = [exchange EXCEPT ![h].pc = "set",
                                    ![h].given = amm_model["Badge"] - exchange[h].rest]
    /\ UNCHANGED <<amm_model, wire, TxQueue, packed, BalanceMap, requests, asked, lost>>

\* Mutant: the amount asked for is taken from the reserve, not the payout.
ExchangeTakesToken(h) ==
    /\ exchange[h].pc = "set"
    /\ LET e == exchange[h]
           take == Tx(e.addr, e.addr, e.token, e.from, 1, e.id)
           give == Tx(e.addr, e.addr, e.given, e.to, 2, e.id)
       IN  /\ amm_model' = [amm_model EXCEPT ![Other(e.from)] = @ - e.token]
           /\ wire' = wire \cup {Message(Addr2Shard[e.addr], <<take, give>>, 1)}
           /\ asked' = asked \cup {take, give}
    /\ exchange' = [exchange EXCEPT ![h] = NoExchange]
    /\ UNCHANGED <<TxQueue, packed, BalanceMap, requests, lost>>

\* The other reserve is set, and one message takes token and gives given_money.
ExchangeSet(h) ==
    /\ exchange[h].pc = "set"
    /\ LET e == exchange[h]
           take == Tx(e.addr, e.addr, e.token, e.from, 1, e.id)
           give == Tx(e.addr, e.addr, e.given, e.to, 2, e.id)
       IN  /\ amm_model' = [amm_model EXCEPT ![Other(e.from)] = e.rest]
           /\ wire' = wire \cup {Message(Addr2Shard[e.addr], <<take, give>>, 1)}
           /\ asked' = asked \cup {take, give}
    /\ exchange' = [exchange EXCEPT ![h] = NoExchange]
    /\ UNCHANGED <<TxQueue, packed, BalanceMap, requests, lost>>

----------------------------------------------------------------------------
(* The network and the leaders. *)

\* The leader puts injected transactions at the head of its pool.
handleInjectTxHead(m) ==
    /\ wire' = wire \ {m}
    /\ TxQueue' = [TxQueue EXCEPT ![m.to] = m.txs \o @]
    /\ UNCHANGED <<amm_model, exchange, packed, BalanceMap, requests, asked, lost>>

\* TcpDial fails to connect or to write: the message is gone.
DialFails(m) ==
    /\ wire' = wire \ {m}
    /\ lost' = lost \cup {m}
    /\ UNCHANGED <<amm_model, exchange, TxQueue, packed, BalanceMap, requests, asked>>

Min2(a, b) == IF a < b THEN a ELSE b


PackTxs(s) ==
    LET n == Min2(BlockSize, Len(TxQueue[s]))
    IN  /\ packed' = [packed EXCEPT ![s] = SubSeq(TxQueue[s], 1, n)]
        /\ TxQueue' = [TxQueue EXCEPT ![s] = SubSeq(@, n + 1, Len(@))]

\* The leader starts a block (an empty block changes nothing).
GenerateBlock(s) ==
    /\ packed[s] = << >>
    /\ TxQueue[s] # << >>
    /\ PackTxs(s)
    /\ UNCHANGED <<amm_model, exchange, wire, BalanceMap, requests, asked, lost>>

\* One turn of the loop in GetUpdateStatusTrie.
ExecuteTx(s) ==
    /\ packed[s] # << >>
    /\ BalanceMap' = [BalanceMap EXCEPT ![s] = dealAccountBalance(@, Head(packed[s]))]
    /\ packed' = [packed EXCEPT ![s] = Tail(@)]
    /\ UNCHANGED <<amm_model, exchange, wire, TxQueue, requests, asked, lost>>

Next ==
    \/ \E p \in Transfer, token \in Token, t \in Transaction_Types :
          Transaction(p[1], p[2], token, t)
    \/ \E h \in Handler :
          \/ \E a \in Addr, w \in Swap, token \in Token :
                ExchangeAdd(h, a, w[1], w[2], token)
          \/ ExchangeQuo(h)
          \/ ExchangeSub(h)
          \/ ExchangeSet(h)
    \/ \E m \in wire : handleInjectTxHead(m) \/ DialFails(m)
    \/ \E s \in Shard : GenerateBlock(s) \/ ExecuteTx(s)

Spec == Init /\ [][Next]_vars

----------------------------------------------------------------------------
(* Properties. *)

TxSet == [sender : Addr, recipient : Addr, value : Int, type : Transaction_Types,
          inc : 0 .. 2, id : 1 .. MaxRequests]

\* The reserves are natural numbers whatever the interleaving; balances may be
\* negative (no handler checks them).
TypeOK ==
    /\ amm_model \in [Transaction_Types -> Nat]
    /\ \A h \in Handler :
         \/ exchange[h] = NoExchange
         \/ /\ exchange[h].pc \in {"quo", "sub", "set"}
            /\ exchange[h].addr \in Addr
            /\ exchange[h].from \in Transaction_Types
            /\ exchange[h].to \in Transaction_Types
            /\ exchange[h].token \in Token
            /\ exchange[h].rest \in Nat
            /\ exchange[h].given \in Int
            /\ exchange[h].id \in 1 .. requests
    /\ \A m \in wire : m.to \in Shard /\ m.copy \in 1 .. 2 /\ m.txs \in Seq(TxSet)
    /\ TxQueue \in [Shard -> Seq(TxSet)]
    /\ packed \in [Shard -> Seq(TxSet)]
    /\ \A s \in Shard, t \in Transaction_Types :
          /\ DOMAIN BalanceMap[s][t] \subseteq Addr
          /\ \A a \in DOMAIN BalanceMap[s][t] : BalanceMap[s][t][a] \in Int
    /\ requests \in 0 .. MaxRequests

\* The balance a query for the account answers: its own shard's.
Balance(a, t) == BalanceIn(BalanceMap[Addr2Shard[a]], t, a)

\* What a transaction will do to the balance of a.
Delta(tx, a, t) ==
    CASE tx.type # t -> 0
      [] tx.sender = tx.recipient ->
            CASE a # tx.sender -> 0
              [] tx.inc = 2 -> tx.value
              [] tx.inc = 1 -> -tx.value
              [] OTHER -> 0
      [] OTHER -> (IF a = tx.recipient THEN tx.value ELSE 0)
                  - (IF a = tx.sender THEN tx.value ELSE 0)

\* What transactions on their way to shard s will do to the accounts of s.
OfShard(s) == {a \in Addr : Addr2Shard[a] = s}
PendingIn(txs, s, t) ==
    MapThenSumSet(LAMBDA i : MapThenSumSet(LAMBDA a : Delta(txs[i], a, t), OfShard(s)),
                  DOMAIN txs)

Total(t) ==
    amm_model[t]
    + MapThenSumSet(LAMBDA a : Balance(a, t), Addr)
    + MapThenSumSet(LAMBDA s : PendingIn(TxQueue[s], s, t) + PendingIn(packed[s], s, t),
                    Shard)
    + MapThenSumSet(LAMBDA m : PendingIn(m.txs, m.to, t), wire \cup lost)

AmmAtRest == \A h \in Handler : exchange[h].pc = "idle"

\* No exchange has taken Badge so far.
NoBadgeTaken == \A tx \in asked : tx.inc = 1 => tx.type = "BKC"


\* Between exchanges the reserves lie on the curve bkc * badge = constant_val
\* up to the rounding of one division: the pool neither gains nor loses by
\* rounding over a long sequence of exchanges in both directions.
OnCurve ==
    AmmAtRest =>
        /\ amm_model["BKC"] * amm_model["Badge"] <= constant_val
        /\ constant_val < (amm_model["BKC"] + 1) * (amm_model["Badge"] + 1)

\* The quotient never exceeds the reserve that pays, so the amount /queryrate
\* quotes is never negative.
QuoteNotNegative ==
    AmmAtRest => \A token \in Token, t \in Transaction_Types : queryrate(token, t) >= 0

Paid(h) == exchange[h].given = exchange[h].quoted

\* /exchange pays for BKC what /queryrate quoted for the same request just
\* before it, also after exchanges in the other direction.
BKCQuoteIsPaid ==
    \A h \in Handler : (exchange[h].pc = "set" /\ exchange[h].from = "BKC") => Paid(h)

\* /exchange pays what /queryrate quoted, in both directions.
QuoteIsPaid == \A h \in Handler : exchange[h].pc = "set" => Paid(h)

\* Everything injected has been executed.
Settled ==
    /\ wire = {}
    /\ \A s \in Shard : TxQueue[s] = << >> /\ packed[s] = << >>

=============================================================================
