----------------------------- MODULE DexProofs -----------------------------
(***************************************************************************)
(* Theorems about the reserves of the exchange, for every set of accounts, *)
(* shards, amounts and requests, when at most one /exchange handler runs   *)
(* at a time (the handlers take no lock; with two these properties fail).  *)
(***************************************************************************)
EXTENDS Dex, TLAPS

\* At most one exchange is handled at a time.
OneAtATime == \A g, h \in Handler : g = h

\* Division of naturals, the only arithmetic the handlers use.
LEMMA DivBounds ==
    ASSUME NEW a \in Nat, NEW b \in Nat, b > 0
    PROVE  /\ a \div b \in Nat
           /\ b * (a \div b) <= a
           /\ a < b * ((a \div b) + 1)
  BY SMT

LEMMA DivBelow ==
    ASSUME NEW a \in Nat, NEW b \in Nat, b > 0, NEW c \in Nat, a < b * (c + 1)
    PROVE  a \div b <= c
  BY DivBounds, SMT

\* What /exchange keeps between its steps.
ExchangeRecord ==
    [pc : {"quo", "sub", "set"}, addr : Addr, from : Transaction_Types,
     to : Transaction_Types, token : Nat \ {0}, id : Nat, rest : Nat,
     given : Int, quoted : Int]

ReservesType ==
    /\ amm_model \in [Transaction_Types -> Nat]
    /\ exchange \in [Handler -> {NoExchange} \cup ExchangeRecord]
    /\ requests \in Nat

\* While an exchange is under way its own reserve is not empty, and once the
\* quotient is known it is the quotient of the reserve as it still is.
Priced ==
    \A h \in Handler :
        /\ exchange[h].pc # "idle" => amm_model[exchange[h].from] > 0
        /\ exchange[h].pc \in {"sub", "set"} =>
              exchange[h].rest = constant_val \div amm_model[exchange[h].from]

\* The inductive invariant of the reserves.
ReserveInv == ReservesType /\ Priced /\ OnCurve

LEMMA ConstantVal == constant_val \in Nat
  BY DexAssumption, SMT DEF constant_val

\* A step that is none of /exchange's leaves the reserves alone.
OtherStep == UNCHANGED <<amm_model, exchange>> /\ requests' \in Nat

LEMMA NextCases ==
    ASSUME ReservesType, [Next]_vars
    PROVE  \/ OtherStep
           \/ \E h \in Handler :
                \/ \E a \in Addr, from, to \in Transaction_Types, token \in Nat \ {0} :
                      <<from, to>> \in Swap /\ ExchangeAdd(h, a, from, to, token)
                \/ ExchangeQuo(h)
                \/ ExchangeSub(h)
                \/ ExchangeSet(h)
<1>1. CASE \E p \in Transfer, token \in Token, t \in Transaction_Types :
             Transaction(p[1], p[2], token, t)
  <2>1. OtherStep
    BY <1>1, SMT DEF OtherStep, Transaction, ReservesType
  <2> QED BY <2>1
<1>2. CASE \E h \in Handler, a \in Addr, w \in Swap, token \in Token :
             ExchangeAdd(h, a, w[1], w[2], token)
  <2>1. PICK h \in Handler, a \in Addr, w \in Swap, token \in Token :
               ExchangeAdd(h, a, w[1], w[2], token)
    BY <1>2
  <2>2. /\ w[1] \in Transaction_Types /\ w[2] \in Transaction_Types
        /\ <<w[1], w[2]>> \in Swap /\ token \in Nat \ {0}
    BY DexAssumption, SMT
  <2> QED BY <2>1, <2>2
<1>3. CASE \E h \in Handler : ExchangeQuo(h) \/ ExchangeSub(h) \/ ExchangeSet(h)
  BY <1>3
<1>4. CASE \E m \in wire : handleInjectTxHead(m) \/ DialFails(m)
  <2>1. OtherStep
    BY <1>4 DEF OtherStep, handleInjectTxHead, DialFails, ReservesType
  <2> QED BY <2>1
<1>5. CASE \E s \in Shard : GenerateBlock(s) \/ ExecuteTx(s)
  <2>1. OtherStep
    BY <1>5 DEF OtherStep, GenerateBlock, ExecuteTx, ReservesType
  <2> QED BY <2>1
<1>6. CASE UNCHANGED vars
  <2>1. OtherStep
    BY <1>6 DEF OtherStep, vars, ReservesType
  <2> QED BY <2>1
<1> QED BY <1>1, <1>2, <1>3, <1>4, <1>5, <1>6 DEF Next

LEMMA ReserveInit == Init => ReserveInv
<1> SUFFICES ASSUME Init PROVE ReserveInv
  OBVIOUS
<1>1. /\ amm_model = [t \in Transaction_Types |-> InitReserve]
      /\ exchange = [h \in Handler |-> NoExchange]
      /\ requests = 0
  BY DEF Init
<1>2. ReservesType
  BY <1>1, DexAssumption DEF ReservesType
<1>3. Priced
  BY <1>1 DEF Priced, NoExchange
<1>4. OnCurve
  <2>1. amm_model["BKC"] = InitReserve /\ amm_model["Badge"] = InitReserve
    BY <1>1 DEF Transaction_Types
  <2>2. InitReserve * InitReserve < (InitReserve + 1) * (InitReserve + 1)
    BY DexAssumption, SMT
  <2> QED BY <2>1, <2>2, DexAssumption, SMT DEF OnCurve, constant_val
<1> QED BY <1>2, <1>3, <1>4 DEF ReserveInv

\* The curve from one reserve and the quotient for the other.
LEMMA CurveFromQuotient ==
    ASSUME NEW k \in Nat, NEW x \in Nat, x > 0, NEW y \in Nat, y = k \div x
    PROVE  x * y <= k /\ y * x <= k /\ k < (x + 1) * (y + 1) /\ k < (y + 1) * (x + 1)
<1>1. x * y <= k /\ k < x * (y + 1)
  BY DivBounds
<1>2. x * (y + 1) <= (x + 1) * (y + 1) /\ (x + 1) * (y + 1) = (y + 1) * (x + 1)
      /\ x * y = y * x
  BY SMT
<1>3. x * (y + 1) \in Nat /\ (x + 1) * (y + 1) \in Nat
  BY SMT
<1> QED BY <1>1, <1>2, <1>3, SMT

LEMMA ReserveStep ==
    ASSUME OneAtATime, ReserveInv, [Next]_vars
    PROVE  ReserveInv'
<1> USE DEF ReserveInv
<1>1. CASE OtherStep
  <2>1. ReservesType'
    BY <1>1 DEF OtherStep, ReservesType
  <2>2. Priced' /\ OnCurve'
    BY <1>1 DEF OtherStep, Priced, OnCurve, AmmAtRest
  <2> QED BY <2>1, <2>2
<1>2. ASSUME NEW h \in Handler, NEW a \in Addr, NEW from \in Transaction_Types,
             NEW to \in Transaction_Types, NEW token \in Nat \ {0},
             ExchangeAdd(h, a, from, to, token)
      PROVE  ReserveInv'
  <2>1. /\ amm_model' = [amm_model EXCEPT ![from] = @ + token]
        /\ requests' = requests + 1
        /\ exchange' = [exchange EXCEPT ![h] =
             [pc |-> "quo", addr |-> a, from |-> from, to |-> to, token |-> token,
              id |-> requests', rest |-> 0, given |-> 0,
              quoted |-> queryrate(token, from)]]
    BY <1>2 DEF ExchangeAdd
  <2>2. queryrate(token, from) \in Int
    <3>1. amm_model[from] + token \in Nat /\ amm_model[from] + token > 0
      BY SMT DEF ReservesType
    <3>2. amm_model[Other(from)] \in Nat
      BY DEF ReservesType, Other, Transaction_Types
    <3> QED BY <3>1, <3>2, ConstantVal, DivBounds DEF queryrate
  <2>3. ReservesType'
    <3>1. amm_model' \in [Transaction_Types -> Nat]
      BY <2>1, SMT DEF ReservesType
    <3>2. requests' \in Nat
      BY <2>1, SMT DEF ReservesType
    <3>3. exchange' \in [Handler -> {NoExchange} \cup ExchangeRecord]
      BY <2>1, <2>2, <3>2, SMT DEF ReservesType, ExchangeRecord
    <3> QED BY <3>1, <3>2, <3>3 DEF ReservesType
  <2>4. exchange'[h].pc = "quo" /\ exchange'[h].from = from /\ amm_model'[from] > 0
    BY <2>1, SMT DEF ReservesType
  <2>5. Priced' /\ OnCurve'
    BY <2>4, OneAtATime DEF Priced, OnCurve, AmmAtRest, OneAtATime
  <2> QED BY <2>3, <2>5
<1>3. ASSUME NEW h \in Handler, ExchangeQuo(h)
      PROVE  ReserveInv'
  <2>1. /\ exchange[h].pc = "quo"
        /\ exchange' = [exchange EXCEPT ![h].pc = "sub",
                          ![h].rest = constant_val \div amm_model[exchange[h].from]]
        /\ UNCHANGED <<amm_model, requests>>
    BY <1>3 DEF ExchangeQuo, Quo
  <2>2. exchange[h] \in ExchangeRecord
    BY <2>1 DEF ReservesType, NoExchange
  <2>3. constant_val \div amm_model[exchange[h].from] \in Nat
    <3>1. amm_model[exchange[h].from] \in Nat /\ amm_model[exchange[h].from] > 0
      BY <2>1, <2>2 DEF ReservesType, ExchangeRecord, Priced
    <3> QED BY <3>1, ConstantVal, DivBounds
  <2>4. ReservesType'
    BY <2>1, <2>2, <2>3 DEF ReservesType, ExchangeRecord
  <2>5. /\ exchange'[h].pc = "sub" /\ exchange'[h].from = exchange[h].from
        /\ exchange'[h].rest = constant_val \div amm_model'[exchange[h].from]
    BY <2>1, <2>2 DEF ReservesType, ExchangeRecord
  <2>6. Priced' /\ OnCurve'
    BY <2>1, <2>5, OneAtATime DEF Priced, OnCurve, AmmAtRest, OneAtATime
  <2> QED BY <2>4, <2>6
<1>4. ASSUME NEW h \in Handler, ExchangeSub(h)
      PROVE  ReserveInv'
  <2>1. /\ exchange[h].pc = "sub"
        /\ exchange' = [exchange EXCEPT ![h].pc = "set",
                          ![h].given = amm_model["Badge"] - exchange[h].rest]
        /\ UNCHANGED <<amm_model, requests>>
    BY <1>4 DEF ExchangeSub
  <2>2. exchange[h] \in ExchangeRecord
    BY <2>1 DEF ReservesType, NoExchange
  <2>3. amm_model["Badge"] - exchange[h].rest \in Int
    BY <2>2 DEF ReservesType, ExchangeRecord, Transaction_Types
  <2>4. ReservesType'
    BY <2>1, <2>2, <2>3 DEF ReservesType, ExchangeRecord
  <2>5. /\ exchange'[h].pc = "set" /\ exchange'[h].from = exchange[h].from
        /\ exchange'[h].rest = exchange[h].rest
    BY <2>1, <2>2 DEF ReservesType, ExchangeRecord
  <2>6. Priced' /\ OnCurve'
    BY <2>1, <2>5, OneAtATime DEF Priced, OnCurve, AmmAtRest, OneAtATime
  <2> QED BY <2>4, <2>6
<1>5. ASSUME NEW h \in Handler, ExchangeSet(h)
      PROVE  ReserveInv'
  <2> DEFINE from == exchange[h].from
  <2>1. /\ exchange[h].pc = "set"
        /\ amm_model' = [amm_model EXCEPT ![Other(from)] = exchange[h].rest]
        /\ exchange' = [exchange EXCEPT ![h] = NoExchange]
        /\ requests' = requests
    BY <1>5 DEF ExchangeSet
  <2>2. exchange[h] \in ExchangeRecord
    BY <2>1 DEF ReservesType, NoExchange
  <2>3. ReservesType'
    BY <2>1, <2>2 DEF ReservesType, ExchangeRecord
  <2>4. exchange'[h] = NoExchange
    BY <2>1 DEF ReservesType
  <2>5. Priced'
    BY <2>4, OneAtATime DEF Priced, OneAtATime, NoExchange
  <2>6. /\ from \in Transaction_Types /\ amm_model[from] \in Nat /\ amm_model[from] > 0
        /\ exchange[h].rest \in Nat
        /\ exchange[h].rest = constant_val \div amm_model[from]
    BY <2>1, <2>2 DEF ReservesType, ExchangeRecord, Priced
  <2>7. amm_model'[from] = amm_model[from] /\ amm_model'[Other(from)] = exchange[h].rest
    BY <2>1, <2>6 DEF ReservesType, Other, Transaction_Types
  <2>8. /\ amm_model'[from] * amm_model'[Other(from)] <= constant_val
        /\ amm_model'[Other(from)] * amm_model'[from] <= constant_val
        /\ constant_val < (amm_model'[from] + 1) * (amm_model'[Other(from)] + 1)
        /\ constant_val < (amm_model'[Other(from)] + 1) * (amm_model'[from] + 1)
    BY <2>6, <2>7, ConstantVal, CurveFromQuotient
  <2>9. OnCurve'
    <3>1. CASE from = "BKC"
      BY <2>8, <3>1 DEF OnCurve, Other, constant_val
    <3>2. CASE from = "Badge"
      BY <2>8, <3>2 DEF OnCurve, Other, constant_val
    <3> QED BY <2>6, <3>1, <3>2 DEF Transaction_Types
  <2> QED BY <2>3, <2>5, <2>9
<1> QED BY <1>1, <1>2, <1>3, <1>4, <1>5, NextCases

\* Exchanges in both directions, one at a time, keep the two reserves of
\* server.go's /exchange on the constant product up to one rounding.
THEOREM ReservesOnCurve ==
    ASSUME OneAtATime
    PROVE  Spec => []OnCurve
<1>1. ReserveInv /\ [Next]_vars => ReserveInv'
  BY ReserveStep
<1>2. ReserveInv => OnCurve
  BY DEF ReserveInv
<1> QED BY ReserveInit, <1>1, <1>2, PTL DEF Spec

\* /queryrate never quotes a negative amount, whatever exchanges came before.
THEOREM QuotesNotNegative ==
    ASSUME OneAtATime
    PROVE  Spec => []QuoteNotNegative
<1>1. ReserveInv /\ [Next]_vars => ReserveInv'
  BY ReserveStep
<1>2. ASSUME ReserveInv PROVE QuoteNotNegative
  <2> SUFFICES ASSUME AmmAtRest, NEW token \in Token, NEW t \in Transaction_Types
               PROVE  queryrate(token, t) >= 0
    BY DEF QuoteNotNegative
  <2> DEFINE x == amm_model[t]
             y == amm_model[Other(t)]
  <2>1. x \in Nat /\ y \in Nat /\ token \in Nat /\ token > 0
    BY <1>2, DexAssumption DEF ReserveInv, ReservesType, Other, Transaction_Types
  <2>2. constant_val < (x + 1) * (y + 1)
    <3>1. CASE t = "BKC"
      BY <1>2, <3>1 DEF ReserveInv, OnCurve, Other
    <3>2. CASE t = "Badge"
      <4>1. constant_val < (y + 1) * (x + 1)
        BY <1>2, <3>2 DEF ReserveInv, OnCurve, Other
      <4> HIDE DEF x, y
      <4>2. (y + 1) * (x + 1) = (x + 1) * (y + 1)
        BY <2>1, SMT
      <4> QED BY <4>1, <4>2
    <3> QED BY <3>1, <3>2 DEF Transaction_Types
  <2> HIDE DEF x, y
  <2>3. (x + 1) * (y + 1) <= (x + token) * (y + 1)
    BY <2>1, SMT
  <2>4. constant_val < (x + token) * (y + 1)
    BY <2>1, <2>2, <2>3, ConstantVal, SMT
  <2>5. constant_val \div (x + token) <= y
    BY <2>1, <2>4, ConstantVal, DivBelow
  <2>6. constant_val \div (x + token) \in Nat
    BY <2>1, ConstantVal, DivBounds
  <2> QED BY <2>1, <2>5, <2>6 DEF queryrate, x, y
<1> QED BY ReserveInit, <1>1, <1>2, PTL DEF Spec

\* The promise made by /queryrate for BKC, step by step through /exchange.
Promised ==
    \A h \in Handler :
        LET e == exchange[h] IN
        /\ e.pc = "quo" /\ e.from = "BKC" =>
              e.quoted = amm_model["Badge"] - constant_val \div amm_model["BKC"]
        /\ e.pc = "sub" /\ e.from = "BKC" => e.quoted = amm_model["Badge"] - e.rest
        /\ e.pc = "set" /\ e.from = "BKC" => e.given = e.quoted

LEMMA PromiseStep ==
    ASSUME OneAtATime, ReserveInv, Promised, [Next]_vars
    PROVE  Promised'
<1> USE DEF ReserveInv
<1>1. CASE OtherStep
  BY <1>1 DEF OtherStep, Promised
<1>2. ASSUME NEW h \in Handler, NEW a \in Addr, NEW from \in Transaction_Types,
             NEW to \in Transaction_Types, NEW token \in Nat \ {0},
             <<from, to>> \in Swap, ExchangeAdd(h, a, from, to, token)
      PROVE  Promised'
  <2>1. /\ amm_model' = [amm_model EXCEPT ![from] = @ + token]
        /\ exchange' = [exchange EXCEPT ![h] =
             [pc |-> "quo", addr |-> a, from |-> from, to |-> to, token |-> token,
              id |-> requests', rest |-> 0, given |-> 0,
              quoted |-> queryrate(token, from)]]
    BY <1>2 DEF ExchangeAdd
  <2>2. /\ exchange'[h].pc = "quo" /\ exchange'[h].from = from
        /\ exchange'[h].quoted = queryrate(token, from)
    BY <2>1 DEF ReservesType
  <2>3. ASSUME from = "BKC"
        PROVE  exchange'[h].quoted
                 = amm_model'["Badge"] - constant_val \div amm_model'["BKC"]
    <3>1. /\ amm_model'["Badge"] = amm_model["Badge"]
          /\ amm_model'["BKC"] = amm_model["BKC"] + token
      BY <2>1, <2>3 DEF ReservesType, Transaction_Types
    <3> QED BY <2>2, <2>3, <3>1 DEF queryrate, Other
  <2> QED BY <2>2, <2>3, OneAtATime DEF Promised, OneAtATime, constant_val
<1>3. ASSUME NEW h \in Handler, ExchangeQuo(h)
      PROVE  Promised'
  <2>1. /\ exchange[h].pc = "quo"
        /\ exchange' = [exchange EXCEPT ![h].pc = "sub",
                          ![h].rest = constant_val \div amm_model[exchange[h].from]]
        /\ UNCHANGED amm_model
    BY <1>3 DEF ExchangeQuo, Quo
  <2>2. exchange[h] \in ExchangeRecord
    BY <2>1 DEF ReservesType, NoExchange
  <2>3. /\ exchange'[h].pc = "sub" /\ exchange'[h].from = exchange[h].from
        /\ exchange'[h].rest = constant_val \div amm_model[exchange[h].from]
        /\ exchange'[h].quoted = exchange[h].quoted
    BY <2>1, <2>2 DEF ReservesType, ExchangeRecord
  <2>4. exchange'[h].from = "BKC" =>
           exchange'[h].quoted = amm_model'["Badge"] - exchange'[h].rest
    BY <2>1, <2>3 DEF Promised
  <2> QED BY <2>3, <2>4, OneAtATime DEF Promised, OneAtATime
<1>4. ASSUME NEW h \in Handler, ExchangeSub(h)
      PROVE  Promised'
  <2>1. /\ exchange[h].pc = "sub"
        /\ exchange' = [exchange EXCEPT ![h].pc = "set",
                          ![h].given = amm_model["Badge"] - exchange[h].rest]
        /\ UNCHANGED amm_model
    BY <1>4 DEF ExchangeSub
  <2>2. exchange[h] \in ExchangeRecord
    BY <2>1 DEF ReservesType, NoExchange
  <2>3. /\ exchange'[h].pc = "set" /\ exchange'[h].from = exchange[h].from
        /\ exchange'[h].given = amm_model["Badge"] - exchange[h].rest
        /\ exchange'[h].quoted = exchange[h].quoted
    BY <2>1, <2>2 DEF ReservesType, ExchangeRecord
  <2> QED BY <2>1, <2>3, OneAtATime DEF Promised, OneAtATime
<1>5. ASSUME NEW h \in Handler, ExchangeSet(h)
      PROVE  Promised'
  <2>1. exchange'[h] = NoExchange
    BY <1>5 DEF ExchangeSet, ReservesType
  <2> QED BY <2>1, OneAtATime DEF Promised, OneAtATime, NoExchange
<1> QED BY <1>1, <1>2, <1>3, <1>4, <1>5, NextCases

\* For BKC /exchange gives what /queryrate quoted, whatever exchanges in both
\* directions came before.
\* (The Badge branch does not: see the run dex_quote.)
THEOREM QuotesPaid ==
    ASSUME OneAtATime
    PROVE  Spec => []BKCQuoteIsPaid
<1>1. Init => ReserveInv /\ Promised
  <2>1. Init => Promised
    BY DEF Init, Promised, NoExchange
  <2> QED BY <2>1, ReserveInit
<1>2. ReserveInv /\ Promised /\ [Next]_vars => (ReserveInv /\ Promised)'
  BY ReserveStep, PromiseStep
<1>3. Promised => BKCQuoteIsPaid
  BY DEF Promised, BKCQuoteIsPaid, Paid
<1> QED BY <1>1, <1>2, <1>3, PTL DEF Spec
=============================================================================
