----------------------------- MODULE PbftProofs -----------------------------
(***************************************************************************)
(* The safety properties of Pbft and its refinement of ShardLog, proved    *)
(* for any number of nodes and of proposals from the inductive invariant   *)
(* Inv.  A step only adds to the proposals, to the broadcast commits and   *)
(* to the answered requests (Grows), so what was known stays known and a   *)
(* step has to account only for what it adds.                              *)
(***************************************************************************)
EXTENDS PbftTypeProofs, FunctionTheorems, FiniteSetTheorems

Grows ==
    /\ proposed' \in Nat /\ proposed <= proposed'
    /\ \A n \in Node : /\ isCommitBordcast[n] \subseteq isCommitBordcast'[n]
                       /\ isReply[n] \subseteq isReply'[n]

\* No handler forgets a proposal, a broadcast commit or an answered request.
LEMMA StepGrows == TypeOK /\ [Next]_vars => Grows
  <1> SUFFICES ASSUME TypeOK, [Next]_vars
               PROVE  Grows
    OBVIOUS
  <1>1. CASE Propose
    BY <1>1 DEF Propose, Grows, TypeOK
  <1>2. CASE StoreStage
    BY <1>2 DEF StoreStage, Grows, TypeOK, maps
  <1>3. ASSUME NEW n \in Node, NEW m \in inbox[n], handlePrePrepare(n, m)
        PROVE  Grows
    BY <1>3 DEF handlePrePrepare, Grows, TypeOK
  <1>4. ASSUME NEW n \in Node, NEW m \in inbox[n], handlePrepare(n, m)
        PROVE  Grows
    <2>1. \/ UNCHANGED isCommitBordcast
          \/ isCommitBordcast' = [isCommitBordcast EXCEPT
                                    ![n] = @ \cup {m.req}]
      BY <1>4 DEF handlePrepare
    <2>2. isCommitBordcast \in [Node -> SUBSET Request]
      BY DEF TypeOK
    <2>3. \A k \in Node : isCommitBordcast[k] \subseteq isCommitBordcast'[k]
      BY <2>1, <2>2
    <2>4. UNCHANGED <<isReply, proposed>> /\ proposed \in Nat
      BY <1>4 DEF handlePrepare, TypeOK
    <2>5. QED
      BY <2>3, <2>4 DEF Grows
  <1>5. ASSUME NEW n \in Node, NEW m \in inbox[n], handleCommit(n, m)
        PROVE  Grows
    <2>1. isReply \in [Node -> SUBSET Request]
      BY DEF TypeOK
    <2>2. \A k \in Node : isReply[k] \subseteq isReply'[k]
      BY <1>5, <2>1 DEF handleCommit
    <2>3. UNCHANGED <<isCommitBordcast, proposed>> /\ proposed \in Nat
      BY <1>5 DEF handleCommit, TypeOK
    <2>4. QED
      BY <2>2, <2>3 DEF Grows
  <1>6. ASSUME NEW n \in Node, NEW m \in asking[n], AskForBlocks(n, m)
        PROVE  Grows
    BY <1>6 DEF AskForBlocks, Grows, TypeOK, maps
  <1>7. ASSUME NEW n \in Node, NEW m \in inbox[n], handleRequestOldSeq(n, m)
        PROVE  Grows
    BY <1>7 DEF handleRequestOldSeq, Grows, TypeOK, maps
  <1>8. ASSUME NEW n \in Node, NEW m \in inbox[n], handleSendOldSeq(n, m)
        PROVE  Grows
    <2>1. isReply \in [Node -> SUBSET Request]
      BY DEF TypeOK
    <2>2. \/ UNCHANGED isReply
          \/ isReply' = [isReply EXCEPT
                           ![n] = @ \cup {m.old[i] : i \in DOMAIN m.old}]
      BY <1>8 DEF handleSendOldSeq
    <2>3. \A k \in Node : isReply[k] \subseteq isReply'[k]
      BY <2>1, <2>2
    <2>4. UNCHANGED <<isCommitBordcast, proposed>> /\ proposed \in Nat
      BY <1>8 DEF handleSendOldSeq, TypeOK
    <2>5. QED
      BY <2>3, <2>4 DEF Grows
  <1>9. CASE UNCHANGED vars
    BY <1>9 DEF vars, maps, Grows, TypeOK
  <1>10. QED
    BY <1>1, <1>2, <1>3, <1>4, <1>5, <1>6, <1>7, <1>8, <1>9 DEF Next

\* A request the leader proposed for a height stays proposed for it.
LEMMA KnownKept ==
  ASSUME TypeOK, Grows
  PROVE  /\ Proposed \subseteq Proposed'
         /\ \A e : Known(e) => Known(e)'
  <1>1. Proposed \subseteq Proposed'
    BY DEF Proposed, Grows, TypeOK
  <1>2. QED
    BY <1>1 DEF Known

\* A commit that was backed by its sender stays backed.
LEMMA CommitKept ==
  ASSUME TypeOK, Grows, NEW n \in Node, NEW m \in CommitMsg, CommitOK(n, m)
  PROVE  CommitOK(n, m)'
  <1>1. m.sender \in Node
    BY DEF CommitMsg
  <1>2. Known(m)'
    BY KnownKept DEF CommitOK
  <1>3. QED
    BY <1>1, <1>2 DEF CommitOK, Grows

\* What is true of a message stays true while it waits in an inbox.
LEMMA MessageKept ==
  ASSUME TypeOK, Grows, NEW n \in Node, NEW m \in Message, MessageOK(n, m)
  PROVE  MessageOK(n, m)'
  <1>1. m.type = "Commit" => CommitOK(n, m)'
    BY CommitKept, MessageKinds DEF MessageOK
  <1>2. /\ m.type \in {"PrePrepare", "Prepare"} => Known(m)'
        /\ m.type = "SendOld" =>
             \A i \in DOMAIN m.old :
               Known([seq |-> m.start + i - 1, req |-> m.old[i]])'
    BY KnownKept DEF MessageOK
  <1>3. QED
    BY <1>1, <1>2 DEF MessageOK

\* Only the messages a step sends are new in an inbox.
LEMMA NetworkKept ==
  ASSUME TypeOK, Grows, NetworkInv,
         \A n \in Node : \A m \in inbox'[n] : m \in inbox[n] \/ MessageOK(n, m)'
  PROVE  NetworkInv'
  <1>1. ASSUME NEW n \in Node, NEW m \in inbox[n]
        PROVE  MessageOK(n, m)'
    <2>1. m \in Message
      BY DEF TypeOK
    <2>2. QED
      BY <2>1, MessageKept DEF NetworkInv
  <1>2. QED
    BY <1>1 DEF NetworkInv

\* A step that changes no map keeps what holds of the maps.
LEMMA HeldKept ==
  ASSUME TypeOK, Grows, HeldInv,
         \A n \in Node :
           /\ requestPool'[n] \subseteq requestPool[n] \cup Proposed'
           /\ \A e \in height2Digest'[n] : e \in height2Digest[n] \/ Known(e)'
           /\ \A m \in cntCommitConfirm'[n] :
                m \in cntCommitConfirm[n] \/ CommitOK(n, m)'
  PROVE  HeldInv'
  <1> SUFFICES ASSUME NEW n \in Node
               PROVE  /\ requestPool'[n] \subseteq Proposed'
                      /\ \A e \in height2Digest'[n] : Known(e)'
                      /\ \A m \in cntCommitConfirm'[n] : CommitOK(n, m)'
    BY DEF HeldInv
  <1>1. requestPool'[n] \subseteq Proposed'
    BY KnownKept DEF HeldInv
  <1>2. ASSUME NEW e \in height2Digest'[n]
        PROVE  Known(e)'
    BY KnownKept DEF HeldInv
  <1>3. ASSUME NEW m \in cntCommitConfirm[n]
        PROVE  CommitOK(n, m)'
    <2>1. m \in CommitMsg
      BY DEF TypeOK
    <2>2. QED
      BY <2>1, CommitKept DEF HeldInv
  <1>4. QED
    BY <1>1, <1>2, <1>3

\* The commits broadcast for a block only become more.
LEMMA BackingGrows ==
  ASSUME Grows, NEW n, NEW r
  PROVE  /\ Cardinality({k \in Node \ {n} : r \in isCommitBordcast[k]}) \in Nat
         /\ Cardinality({k \in Node \ {n} : r \in isCommitBordcast'[k]}) \in Nat
         /\ Cardinality({k \in Node \ {n} : r \in isCommitBordcast[k]})
              <= Cardinality({k \in Node \ {n} : r \in isCommitBordcast'[k]})
  <1> DEFINE A == {k \in Node \ {n} : r \in isCommitBordcast[k]}
             B == {k \in Node \ {n} : r \in isCommitBordcast'[k]}
  <1>1. A \subseteq B /\ B \subseteq Node
    BY DEF Grows
  <1>2. IsFiniteSet(B)
    BY <1>1, FS_Subset, NodeAssumption
  <1>3. IsFiniteSet(A) /\ Cardinality(A) <= Cardinality(B)
    BY <1>1, <1>2, FS_Subset
  <1>4. QED
    BY <1>2, <1>3, FS_CardinalityType

\* The f of NewPbftNode is an integer.
LEMMA QuorumType == malicious_nums \in Int
  <1>1. Cardinality(Node) \in Nat
    BY NodeAssumption, FS_CardinalityType
  <1>2. QED
    BY <1>1 DEF malicious_nums

\* A step that adds no block keeps what holds of the chains.
LEMMA ChainKept ==
  ASSUME TypeOK, Grows, ChainInv, CommitBacked, UNCHANGED chain
  PROVE  ChainInv' /\ CommitBacked'
  <1>1. ChainInv'
    BY KnownKept DEF ChainInv, Grows
  <1>2. ASSUME NEW n \in Node, NEW i \in 1 .. Len(chain[n])
        PROVE  Cardinality({k \in Node \ {n} :
                              chain[n][i] \in isCommitBordcast'[k]})
                 >= 2 * malicious_nums
    <2> DEFINE a == Cardinality({k \in Node \ {n} :
                                   chain[n][i] \in isCommitBordcast[k]})
               b == Cardinality({k \in Node \ {n} :
                                   chain[n][i] \in isCommitBordcast'[k]})
    <2>1. a >= 2 * malicious_nums
      BY DEF CommitBacked
    <2>2. a \in Nat /\ b \in Nat /\ a <= b
      BY BackingGrows, Zenon
    <2> HIDE DEF a, b
    <2>3. b >= 2 * malicious_nums
      BY <2>1, <2>2, QuorumType
    <2>4. QED
      BY <2>3 DEF b
  <1>3. QED
    BY <1>1, <1>2 DEF CommitBacked, malicious_nums

\* The commits in C reached n from other nodes that had broadcast them (B).
SentToBy(n, C, B) ==
    \A m \in C : /\ m.sender # n /\ m.req \in B[m.sender]
                 /\ m.seq = m.req.number
Backers(n, r, B) == {k \in Node \ {n} : r \in B[k]}

\* Different counted commits for one request come from different senders, so
\* counting messages is counting nodes.
LEMMA CountedSenders ==
  ASSUME NEW n, NEW r, NEW C \in SUBSET CommitMsg, NEW B,
         SentToBy(n, C, B)
  PROVE  /\ Count(C, r) \in Nat
         /\ Count(C, r) <= Cardinality(Backers(n, r, B))
  <1> USE DEF SentToBy, Backers
  <1> DEFINE S == {m \in C : m.req = r}
             T == {k \in Node \ {n} : r \in B[k]}
             f == [m \in S |-> m.sender]
  <1>1. IsFiniteSet(T)
    <2>1. T \subseteq Node
      OBVIOUS
    <2>2. QED
      BY <2>1, FS_Subset, NodeAssumption
  <1>2. f \in Injection(S, T)
    <2>1. f \in [S -> T]
      BY DEF CommitMsg
    <2>2. ASSUME NEW a \in S, NEW b \in S, f[a] = f[b]
          PROVE  a = b
      BY <2>2 DEF CommitMsg
    <2>3. QED
      BY <2>1, <2>2, Zenon DEF Injection, IsInjective
  <1>3. IsFiniteSet(S) /\ Cardinality(S) <= Cardinality(T)
    <2> HIDE DEF S, T, f
    <2>1. QED
      BY <1>1, <1>2, FS_Injection
  <1>4. QED
    BY <1>3, FS_CardinalityType DEF Count

\* The chain of the leader ends at its own length.
LEMMA LeaderHeight ==
  ASSUME TypeOK, LeaderInv
  PROVE  Height(view) = Len(chain[view]) /\ Len(chain[view]) \in Nat
  <1>1. chain[view] \in Seq(Request)
    BY NodeAssumption DEF TypeOK
  <1>2. CASE chain[view] = << >>
    BY <1>2 DEF Height
  <1>3. CASE chain[view] # << >>
    <2>1. Len(chain[view]) \in 1 .. Len(chain[view])
      BY <1>1, <1>3
    <2>2. chain[view][Len(chain[view])] = Block(Len(chain[view]))
      BY <2>1 DEF LeaderInv
    <2>3. QED
      BY <1>1, <1>3, <2>2 DEF Height, Block
  <1>4. QED
    BY <1>2, <1>3

\* Propose keeps the invariant: the new block is the next one in order.
LEMMA ProposeInv == Inv /\ Propose /\ TypeOK' /\ Grows => Inv'
  <1> SUFFICES ASSUME Inv, Propose, TypeOK', Grows
               PROVE  Inv'
    OBVIOUS
  <1> USE NodeAssumption
  <1>1. TypeOK /\ LeaderInv /\ NetworkInv /\ HeldInv /\ ChainInv /\ CommitBacked
    BY DEF Inv
  <1>2. /\ proposed = Len(chain[view]) /\ Height(view) = proposed
        /\ sequenceID[view] = proposed + 1 /\ proposed \in Nat
        /\ requestPool[view] = {}
    BY <1>1, LeaderHeight DEF Propose, LeaderInv
  <1> PICK h : h = proposed + 1
    OBVIOUS
  <1> DEFINE r == Block(h)
             x == [type |-> "PrePrepare", req |-> r, seq |-> h]
  <1>3. /\ requestPool' = [requestPool EXCEPT ![view] = @ \cup {r}]
        /\ height2Digest' = [height2Digest EXCEPT ![view] = PutHeight(@, h, r)]
        /\ inbox' = Broadcast(view, {}, x)
        /\ proposed' = h
    BY <1>2 DEF Propose, Block
  <1>4. r \in Proposed' /\ r.number = h
    BY <1>2, <1>3 DEF Proposed, Block
  <1>5. Known([seq |-> h, req |-> r])' /\ Known(x)'
    BY <1>4 DEF Known
  <1>6. LeaderInv'
    <2>1. requestPool'[view] = {r}
      BY <1>1, <1>2, <1>3 DEF TypeOK
    <2>2. QED
      BY <1>1, <1>2, <1>3, <2>1 DEF Propose, LeaderInv, LeaderSurvives
  <1>7. NetworkInv'
    <2>1. \A k \in Node \ {view} : MessageOK(k, x)'
      BY <1>5 DEF MessageOK
    <2>2. \A k \in Node : \A m \in inbox'[k] : m \in inbox[k] \/ MessageOK(k, m)'
      <3> HIDE DEF x
      <3>1. QED
        BY <1>3, <2>1 DEF Broadcast
    <2>3. QED
      BY <1>1, <2>2, NetworkKept
  <1>8. HeldInv'
    <2>1. \A n \in Node : requestPool'[n] \subseteq requestPool[n] \cup Proposed'
      BY <1>1, <1>3, <1>4 DEF TypeOK
    <2>2. \A n \in Node : \A e \in height2Digest'[n] :
            e \in height2Digest[n] \/ Known(e)'
      BY <1>1, <1>3, <1>5 DEF TypeOK, PutHeight
    <2>3. QED
      BY <1>1, <2>1, <2>2, HeldKept, Zenon DEF Propose
  <1>9. ChainInv' /\ CommitBacked'
    BY <1>1, ChainKept DEF Propose
  <1>10. QED
    BY <1>6, <1>7, <1>8, <1>9 DEF Inv

\* handlePrePrepare keeps the invariant: it passes on what was proposed.
LEMMA PrePrepareInv ==
  ASSUME Inv, TypeOK', Grows,
         NEW n \in Node, NEW m \in inbox[n], handlePrePrepare(n, m)
  PROVE  Inv'
  <1> USE NodeAssumption
  <1> DEFINE x == [type |-> "Prepare", req |-> m.req, seq |-> m.seq,
                   sender |-> n, again |-> FALSE]
  <1>1. TypeOK /\ LeaderInv /\ NetworkInv /\ HeldInv /\ ChainInv /\ CommitBacked
    BY DEF Inv
  <1>2. Known(m) /\ n # view
    BY <1>1 DEF NetworkInv, MessageOK, handlePrePrepare
  <1>3. Known(m)' /\ m.req \in Proposed'
    BY <1>1, <1>2, KnownKept DEF Known
  <1>4. Known([seq |-> m.seq, req |-> m.req])' /\ Known(x)'
    BY <1>3 DEF Known
  <1>5. LeaderInv'
    <2>1. requestPool'[view] = requestPool[view]
      BY <1>1, <1>2, Zenon DEF handlePrePrepare, TypeOK
    <2>2. QED
      BY <1>1, <2>1, Zenon
      DEF handlePrePrepare, LeaderInv, LeaderSurvives, locks
  <1>6. NetworkInv'
    <2>1. \A k \in Node : MessageOK(k, x)'
      BY <1>4 DEF MessageOK
    <2>2. inbox' = Broadcast(n, {m}, x)
      BY DEF handlePrePrepare
    <2>3. \A k \in Node : \A y \in inbox'[k] : y \in inbox[k] \/ MessageOK(k, y)'
      <3> HIDE DEF x
      <3>1. QED
        BY <2>1, <2>2 DEF Broadcast
    <2>4. QED
      BY <1>1, <2>3, NetworkKept
  <1>7. HeldInv'
    <2>1. \A k \in Node : requestPool'[k] \subseteq requestPool[k] \cup Proposed'
      BY <1>1, <1>3 DEF handlePrePrepare, TypeOK
    <2>2. \A k \in Node : \A e \in height2Digest'[k] :
            e \in height2Digest[k] \/ Known(e)'
      BY <1>1, <1>4, Zenon DEF handlePrePrepare, TypeOK, PutHeight
    <2>3. QED
      BY <1>1, <2>1, <2>2, HeldKept DEF handlePrePrepare
  <1>8. ChainInv' /\ CommitBacked'
    BY <1>1, ChainKept DEF handlePrePrepare
  <1>9. QED
    BY <1>5, <1>6, <1>7, <1>8 DEF Inv

\* handlePrepare keeps the invariant: its commit is backed by its sender.
LEMMA PrepareInv ==
  ASSUME Inv, TypeOK', Grows,
         NEW n \in Node, NEW m \in inbox[n], handlePrepare(n, m)
  PROVE  Inv'
  <1> DEFINE x == [type |-> "Commit", req |-> m.req, seq |-> m.seq,
                   sender |-> n]
  <1>1. TypeOK /\ LeaderInv /\ NetworkInv /\ HeldInv /\ ChainInv /\ CommitBacked
    BY DEF Inv
  <1>2. Known(m)
    BY <1>1, Zenon DEF NetworkInv, MessageOK, handlePrepare
  <1>3. Known(x)'
    BY <1>1, <1>2, KnownKept, Zenon DEF Known
  <1>4. LeaderInv'
    BY <1>1, Zenon DEF handlePrepare, LeaderInv, LeaderSurvives, locks
  <1>5. NetworkInv'
    <2>1. CASE inbox' = Consume(n, {m})
      <3>1. \A k \in Node : inbox'[k] \subseteq inbox[k]
        BY <1>1, <2>1 DEF Consume, TypeOK
      <3>2. QED
        BY <1>1, <3>1, NetworkKept
    <2>2. CASE /\ inbox' = Broadcast(n, {m}, x)
               /\ isCommitBordcast' = [isCommitBordcast EXCEPT
                                         ![n] = @ \cup {m.req}]
      <3>1. m.req \in isCommitBordcast'[n]
        BY <1>1, <2>2 DEF TypeOK
      <3>2. \A k \in Node \ {n} : MessageOK(k, x)'
        BY <1>3, <3>1 DEF MessageOK, CommitOK
      <3>3. \A k \in Node : \A y \in inbox'[k] :
              y \in inbox[k] \/ MessageOK(k, y)'
        <4> HIDE DEF x
        <4>1. QED
          BY <2>2, <3>2 DEF Broadcast
      <3>4. QED
        BY <1>1, <3>3, NetworkKept
    <2>3. QED
      BY <2>1, <2>2, Zenon DEF handlePrepare
  <1>6. HeldInv'
    BY <1>1, HeldKept, Zenon DEF handlePrepare
  <1>7. ChainInv' /\ CommitBacked'
    BY <1>1, ChainKept DEF handlePrepare
  <1>8. QED
    BY <1>4, <1>5, <1>6, <1>7 DEF Inv

\* The one request the leader has not answered is the one it holds.
LEMMA LeaderOpenRound ==
  ASSUME TypeOK, LeaderInv, NEW r \in Proposed, r \notin isReply[view]
  PROVE  /\ sequenceLock /\ requestPool[view] = {r}
         /\ proposed = Len(chain[view]) + 1 /\ r = Block(proposed)
  <1>1. Len(chain[view]) \in Nat /\ proposed \in Nat
    BY LeaderHeight DEF TypeOK
  <1>2. PICK k \in 1 .. proposed : r = Block(k)
    BY DEF Proposed
  <1>3. k \notin 1 .. Len(chain[view])
    BY <1>2 DEF LeaderInv
  <1>4. sequenceLock /\ proposed = Len(chain[view]) + 1 /\ k = proposed
    <2>1. CASE sequenceLock
      BY <1>1, <1>3, <2>1 DEF LeaderInv
    <2>2. CASE ~sequenceLock
      BY <1>1, <1>3, <2>2 DEF LeaderInv
    <2>3. QED
      BY <2>1, <2>2
  <1>5. QED
    BY <1>2, <1>4 DEF LeaderInv

\* What a commit that completes a quorum finds: the request was proposed, this
\* node has not answered it, and 2f other nodes broadcast a commit for it.
LEMMA CommitQuorumFacts ==
  ASSUME Inv, TypeOK', Grows,
         NEW n \in Node, NEW m \in inbox[n], handleCommit(n, m)
  PROVE  /\ m \in CommitMsg /\ m.req \in Proposed /\ m.req \in Request
         /\ HeldInv'
         /\ CommitQuorum(n, m) =>
              /\ m.req \notin isReply[n]
              /\ isReply' = [isReply EXCEPT ![n] = @ \cup {m.req}]
              /\ Cardinality({k \in Node \ {n} : m.req \in isCommitBordcast'[k]})
                   >= 2 * malicious_nums
  <1>1. TypeOK /\ LeaderInv /\ NetworkInv /\ HeldInv /\ ChainInv /\ CommitBacked
    BY DEF Inv
  <1>2. m \in CommitMsg /\ CommitOK(n, m)
    <2>1. m \in Message /\ m.type = "Commit"
      BY <1>1 DEF TypeOK, handleCommit
    <2>2. QED
      BY <1>1, <2>1, MessageKinds DEF NetworkInv, MessageOK
  <1>3. m.req \in Proposed /\ m.req \in Request
    BY <1>2 DEF CommitOK, Known, CommitMsg
  <1>4. HeldInv'
    <2>1. /\ cntCommitConfirm' = [cntCommitConfirm EXCEPT ![n] = @ \cup {m}]
          /\ UNCHANGED height2Digest
          /\ \/ UNCHANGED requestPool
             \/ requestPool' = [requestPool EXCEPT ![n] = @ \ {m.req}]
      BY DEF handleCommit
    <2>2. CommitOK(n, m)'
      BY <1>1, <1>2, CommitKept
    <2>3. \A k \in Node : \A y \in cntCommitConfirm'[k] :
            y \in cntCommitConfirm[k] \/ CommitOK(k, y)'
      BY <1>1, <2>1, <2>2 DEF TypeOK
    <2>4. \A k \in Node : requestPool'[k] \subseteq requestPool[k]
      <3>1. requestPool \in [Node -> SUBSET Request]
        BY <1>1 DEF TypeOK
      <3>2. QED
        BY <2>1, <3>1
    <2>5. QED
      BY <1>1, <2>1, <2>3, <2>4, HeldKept, Zenon
  <1>5. ASSUME CommitQuorum(n, m)
        PROVE  /\ m.req \notin isReply[n]
               /\ isReply' = [isReply EXCEPT ![n] = @ \cup {m.req}]
    BY <1>5, Zenon DEF CommitQuorum, handleCommit
  <1>6. ASSUME CommitQuorum(n, m)
        PROVE  Cardinality({k \in Node \ {n} : m.req \in isCommitBordcast'[k]})
                 >= 2 * malicious_nums
    <2> DEFINE a == Count(cntCommitConfirm'[n], m.req)
               b == Cardinality({k \in Node \ {n} :
                                   m.req \in isCommitBordcast'[k]})
    <2>1. a >= 2 * malicious_nums
      BY <1>6 DEF CommitQuorum
    <2>2. cntCommitConfirm'[n] \in SUBSET CommitMsg
      BY DEF TypeOK
    <2>3. \A y \in cntCommitConfirm'[n] :
            /\ y.sender # n /\ y.req \in isCommitBordcast'[y.sender]
            /\ y.seq = y.req.number
      BY <1>4 DEF HeldInv, CommitOK, Known
    <2>4. a \in Nat /\ a <= b
      <3>1. PICK C, B : C = cntCommitConfirm'[n] /\ B = isCommitBordcast'
        OBVIOUS
      <3>2. C \in SUBSET CommitMsg /\ SentToBy(n, C, B)
        BY <2>2, <2>3, <3>1 DEF SentToBy
      <3>3. /\ Count(C, m.req) \in Nat
            /\ Count(C, m.req) <= Cardinality(Backers(n, m.req, B))
        BY <3>2, CountedSenders
      <3>4. QED
        BY <3>1, <3>3 DEF Backers
    <2>5. b \in Nat
      BY BackingGrows, Zenon
    <2> HIDE DEF a, b
    <2>6. b >= 2 * malicious_nums
      BY <2>1, <2>4, <2>5, QuorumType
    <2>7. QED
      BY <2>6 DEF b
  <1>7. QED
    BY <1>2, <1>3, <1>4, <1>5, <1>6

\* handleCommit keeps the invariant, in each of its three outcomes.
LEMMA CommitInv ==
  ASSUME Inv, TypeOK', Grows,
         NEW n \in Node, NEW m \in inbox[n], handleCommit(n, m)
  PROVE  Inv'
  <1> USE NodeAssumption
  <1>1. TypeOK /\ LeaderInv /\ NetworkInv /\ HeldInv /\ ChainInv /\ CommitBacked
    BY DEF Inv
  <1>2. m \in CommitMsg /\ m.req \in Proposed /\ m.req \in Request /\ HeldInv'
    BY CommitQuorumFacts, Zenon
  <1>3. NetworkInv'
    <2>1. \A k \in Node : inbox'[k] \subseteq inbox[k]
      BY <1>1 DEF handleCommit, Consume, TypeOK
    <2>2. QED
      BY <1>1, <2>1, NetworkKept, Zenon
  <1>4. CASE /\ ~CommitQuorum(n, m)
             /\ UNCHANGED <<sequenceID, pbftStage, requestPool, chain,
                            sequenceLock, asking, panicked>>
    <2>1. isReply'[view] = isReply[view]
      BY <1>1, <1>4, Zenon DEF handleCommit, TypeOK
    <2>2. LeaderInv'
      BY <1>1, <1>4, <2>1, Zenon DEF handleCommit, LeaderInv, LeaderSurvives
    <2>3. ChainInv' /\ CommitBacked'
      BY <1>1, <1>4, ChainKept
    <2>4. QED
      BY <1>2, <1>3, <2>2, <2>3 DEF Inv
  <1>5. CASE /\ CommitQuorum(n, m) /\ m.req \notin requestPool[n]
             /\ asking' = [asking EXCEPT ![n] = {m}]
             /\ UNCHANGED <<sequenceID, pbftStage, requestPool, chain,
                            sequenceLock, panicked>>
    <2>1. n # view
      BY <1>1, <1>2, <1>5, CommitQuorumFacts, LeaderOpenRound, Zenon
    <2>2. isReply'[view] = isReply[view] /\ asking'[view] = asking[view]
      BY <1>1, <1>5, <2>1, Zenon DEF handleCommit, TypeOK
    <2>3. LeaderInv'
      BY <1>1, <1>5, <2>2, Zenon DEF handleCommit, LeaderInv, LeaderSurvives
    <2>4. ChainInv' /\ CommitBacked'
      BY <1>1, <1>5, ChainKept
    <2>5. QED
      BY <1>2, <1>3, <2>3, <2>4 DEF Inv
  <1>6. CASE /\ CommitQuorum(n, m) /\ m.req \in requestPool[n]
             /\ chain' = [chain EXCEPT ![n] = Append(@, m.req)]
             /\ sequenceID' = [sequenceID EXCEPT ![n] = @ + 1]
             /\ requestPool' = [requestPool EXCEPT ![n] = @ \ {m.req}]
             /\ EndRound(n)
             /\ UNCHANGED asking
    <2>1. /\ isReply' = [isReply EXCEPT ![n] = @ \cup {m.req}]
          /\ m.req \notin isReply[n]
          /\ Cardinality({k \in Node \ {n} : m.req \in isCommitBordcast'[k]})
               >= 2 * malicious_nums
      BY <1>6, CommitQuorumFacts, Zenon
    <2>2. UNCHANGED <<isCommitBordcast, proposed>>
      BY Zenon DEF handleCommit
    <2>3. chain[n] \in Seq(Request) /\ Len(chain[n]) \in Nat
      BY <1>1 DEF TypeOK
    <2>4. /\ Len(chain'[n]) = Len(chain[n]) + 1
          /\ \A i \in 1 .. Len(chain[n]) : chain'[n][i] = chain[n][i]
          /\ chain'[n][Len(chain[n]) + 1] = m.req
          /\ \A k \in Node \ {n} : chain'[k] = chain[k]
      <3>1. chain \in [Node -> Seq(Request)]
        BY <1>1 DEF TypeOK
      <3>2. /\ chain'[n] = Append(chain[n], m.req)
            /\ \A k \in Node \ {n} : chain'[k] = chain[k]
        BY <1>6, <3>1
      <3>3. QED
        BY <1>2, <2>3, <3>2
    <2>5. LeaderInv'
      <3>1. CASE n # view
        BY <1>1, <1>6, <2>1, <2>2, <2>4, <3>1, Zenon
        DEF LeaderInv, LeaderSurvives, EndRound, TypeOK
      <3>2. CASE n = view
        <4>1. /\ sequenceLock /\ requestPool[view] = {m.req}
              /\ proposed = Len(chain[view]) + 1 /\ m.req = Block(proposed)
          BY <1>1, <1>2, <2>1, <3>2, LeaderOpenRound, Zenon
        <4>2. /\ sequenceLock' = FALSE /\ panicked' = panicked
              /\ requestPool'[view] = {} /\ sequenceID'[view] = sequenceID[view] + 1
              /\ isReply'[view] = isReply[view] \cup {m.req}
          <5>1. sequenceLock' = FALSE /\ panicked' = panicked
            BY <1>6, <3>2, <4>1, Zenon DEF EndRound
          <5>2. /\ requestPool \in [Node -> SUBSET Request]
                /\ sequenceID \in [Node -> Nat]
                /\ isReply \in [Node -> SUBSET Request]
            BY <1>1 DEF TypeOK
          <5>3. QED
            BY <1>6, <2>1, <3>2, <4>1, <5>1, <5>2
        <4>3. \A i \in 1 .. Len(chain'[view]) : chain'[view][i] = Block(i)
          <5>1. \A i \in 1 .. Len(chain[view]) : chain[view][i] = Block(i)
            BY <1>1 DEF LeaderInv
          <5>2. QED
            BY <2>3, <2>4, <3>2, <4>1, <5>1
        <4>4. isReply'[view] = {Block(k) : k \in 1 .. Len(chain'[view])}
          <5>1. isReply[view] = {Block(k) : k \in 1 .. Len(chain[view])}
            BY <1>1 DEF LeaderInv
          <5>2. 1 .. Len(chain'[view])
                  = (1 .. Len(chain[view])) \cup {Len(chain[view]) + 1}
            BY <2>3, <2>4, <3>2
          <5>3. m.req = Block(Len(chain[view]) + 1)
            BY <4>1
          <5>4. QED
            BY <4>2, <5>1, <5>2, <5>3
        <4>5. QED
          BY <1>1, <1>6, <2>2, <2>3, <2>4, <3>2, <4>1, <4>2, <4>3, <4>4
          DEF LeaderInv, LeaderSurvives
      <3>3. QED
        BY <3>1, <3>2
    <2>6. ChainInv'
      <3>1. Proposed' = Proposed
        BY <2>2 DEF Proposed
      <3>2. m.req \in isReply'[n] /\ \A k \in Node : isReply[k] \subseteq isReply'[k]
        BY <1>1, <2>1 DEF TypeOK
      <3>3. QED
        <4>1. ASSUME NEW k \in Node, NEW i \in 1 .. Len(chain'[k])
              PROVE  chain'[k][i] \in Proposed' \cap isReply'[k]
          <5>1. CASE k = n /\ i = Len(chain[n]) + 1
            BY <1>2, <2>4, <3>1, <3>2, <5>1
          <5>2. CASE ~(k = n /\ i = Len(chain[n]) + 1)
            <6>1. i \in 1 .. Len(chain[k]) /\ chain'[k][i] = chain[k][i]
              BY <2>3, <2>4, <5>2
            <6>2. QED
              BY <1>1, <3>1, <3>2, <6>1 DEF ChainInv
          <5>3. QED
            BY <5>1, <5>2
        <4>2. QED
          BY <4>1 DEF ChainInv
    <2>7. CommitBacked'
      <3>1. ASSUME NEW k \in Node, NEW i \in 1 .. Len(chain'[k])
            PROVE  Cardinality({j \in Node \ {k} :
                                  chain'[k][i] \in isCommitBordcast'[j]})
                     >= 2 * malicious_nums
        <4>1. CASE k = n /\ i = Len(chain[n]) + 1
          BY <2>1, <2>4, <4>1, Zenon
        <4>2. CASE ~(k = n /\ i = Len(chain[n]) + 1)
          <5>1. i \in 1 .. Len(chain[k]) /\ chain'[k][i] = chain[k][i]
            BY <2>3, <2>4, <4>2
          <5>2. QED
            BY <1>1, <2>2, <5>1 DEF CommitBacked
        <4>3. QED
          BY <4>1, <4>2
      <3>2. QED
        BY <3>1 DEF CommitBacked, malicious_nums
    <2>8. QED
      BY <1>2, <1>3, <2>5, <2>6, <2>7 DEF Inv
  <1>7. QED
    BY <1>4, <1>5, <1>6, Zenon DEF handleCommit

\* Asking for blocks keeps the invariant: the leader never asks.
LEMMA AskForBlocksInv ==
  ASSUME Inv, TypeOK', Grows,
         NEW n \in Node, NEW m \in asking[n], AskForBlocks(n, m)
  PROVE  Inv'
  <1> USE NodeAssumption
  <1>1. TypeOK /\ LeaderInv /\ NetworkInv /\ HeldInv /\ ChainInv /\ CommitBacked
    BY DEF Inv
  <1>2. n # view
    BY <1>1 DEF LeaderInv, LeaderSurvives
  <1>3. LeaderInv'
    <2>1. sequenceLock' = sequenceLock /\ panicked' = panicked
      BY <1>2, Zenon DEF AskForBlocks, EndRound
    <2>2. asking'[view] = asking[view]
      BY <1>1, <1>2 DEF AskForBlocks, TypeOK
    <2>3. QED
      BY <1>1, <2>1, <2>2, Zenon
      DEF AskForBlocks, LeaderInv, LeaderSurvives, maps
  <1>4. NetworkInv'
    <2>1. PICK x : x = [type |-> "RequestOld", sender |-> n,
                        start |-> sequenceID[n] + 1, end |-> m.seq]
      BY Zenon
    <2>2. inbox' = SendTo(n, {}, view, x)
      BY <2>1 DEF AskForBlocks
    <2>3. MessageOK(view, x)'
      BY <1>2, <2>1 DEF MessageOK
    <2>4. \A k \in Node : \A y \in inbox'[k] : y \in inbox[k] \/ MessageOK(k, y)'
      BY <2>2, <2>3 DEF SendTo
    <2>5. QED
      BY <1>1, <2>4, NetworkKept, Zenon
  <1>5. HeldInv'
    BY <1>1, HeldKept DEF AskForBlocks, maps
  <1>6. ChainInv' /\ CommitBacked'
    BY <1>1, ChainKept, Zenon DEF AskForBlocks
  <1>7. QED
    BY <1>3, <1>4, <1>5, <1>6 DEF Inv

\* handleRequestOldSeq keeps the invariant: it sends requests of its own maps.
LEMMA RequestOldInv ==
  ASSUME Inv, TypeOK', Grows,
         NEW n \in Node, NEW m \in inbox[n], handleRequestOldSeq(n, m)
  PROVE  Inv'
  <1> USE NodeAssumption
  <1>1. TypeOK /\ LeaderInv /\ NetworkInv /\ HeldInv /\ ChainInv /\ CommitBacked
    BY DEF Inv
  <1>2. m \in RequestOldMsg /\ m.sender # view
    <2>1. m \in Message /\ m.type = "RequestOld"
      BY <1>1 DEF TypeOK, handleRequestOldSeq
    <2>2. QED
      BY <1>1, <2>1, MessageKinds DEF NetworkInv, MessageOK
  <1>3. LeaderInv'
    BY <1>1, Zenon
    DEF handleRequestOldSeq, LeaderInv, LeaderSurvives, maps, locks
  <1>4. NetworkInv'
    <2>1. CASE n # view
      <3>1. inbox' = Consume(n, {m}) /\ inbox \in [Node -> SUBSET Message]
        BY <1>1, <2>1 DEF handleRequestOldSeq, TypeOK
      <3>2. \A k \in Node : inbox'[k] \subseteq inbox[k]
        BY <3>1 DEF Consume
      <3>3. QED
        BY <1>1, <3>2, NetworkKept, Zenon
    <2>2. CASE n = view
      <3>1. PICK k \in 0 .. m.end :
              /\ LoopStopsAt(m.start, m.end, k)
              /\ inbox' = SendTo(n, {m}, m.sender,
                            [type |-> "SendOld", start |-> m.start,
                             end |-> m.end, old |-> OldRequests(m.start, k)])
        BY <2>2 DEF handleRequestOldSeq
      <3>2. m.start \in Nat /\ m.end \in Nat /\ k \in Nat
        BY <1>2 DEF RequestOldMsg
      <3>3. PICK old : old = OldRequests(m.start, k)
        OBVIOUS
      <3>4. ASSUME NEW i \in DOMAIN old
            PROVE  Known([seq |-> m.start + i - 1, req |-> old[i]])
        <4>1. i \in 1 .. k /\ old[i] = RequestAt(m.start + i - 1)
          BY <3>3 DEF OldRequests
        <4>2. Found(m.start + i - 1)
          BY <3>1, <3>2, <4>1 DEF LoopStopsAt
        <4>3. PICK e : /\ e = CHOOSE h \in height2Digest[view] :
                                h.seq = m.start + i - 1
                       /\ e \in height2Digest[view] /\ e.seq = m.start + i - 1
          BY <4>2 DEF Found
        <4>4. Known(e)
          BY <1>1, <4>3 DEF HeldInv
        <4>5. QED
          BY <4>1, <4>3, <4>4 DEF RequestAt, Known
      <3>5. PICK x : x = [type |-> "SendOld", start |-> m.start,
                          end |-> m.end, old |-> old]
        BY Zenon
      <3>6. \A i \in DOMAIN old :
              Known([seq |-> m.start + i - 1, req |-> old[i]])'
        BY <1>1, <3>4, KnownKept, Zenon
      <3>7. MessageOK(m.sender, x)'
        BY <1>2, <3>5, <3>6 DEF MessageOK
      <3>8. \A j \in Node : \A y \in inbox'[j] :
              y \in inbox[j] \/ MessageOK(j, y)'
        BY <3>1, <3>3, <3>5, <3>7 DEF SendTo
      <3>9. QED
        BY <1>1, <3>8, NetworkKept
    <2>3. QED
      BY <2>1, <2>2
  <1>5. HeldInv'
    BY <1>1, HeldKept, Zenon DEF handleRequestOldSeq, maps
  <1>6. ChainInv' /\ CommitBacked'
    BY <1>1, ChainKept, Zenon DEF handleRequestOldSeq
  <1>7. QED
    BY <1>3, <1>4, <1>5, <1>6 DEF Inv

\* handleSendOldSeq keeps the invariant: it stores what was proposed.
LEMMA SendOldInv ==
  ASSUME Inv, TypeOK', Grows,
         NEW n \in Node, NEW m \in inbox[n], handleSendOldSeq(n, m)
  PROVE  Inv'
  <1> USE NodeAssumption
  <1> DEFINE heights == m.start .. m.start + Len(m.old) - 1
             old == {[seq |-> h, req |-> m.old[h - m.start + 1]] :
                       h \in heights}
             known == {e \in height2Digest'[n] :
                         e.seq = m.end + 1 /\ e.req \in requestPool'[n]}
  <1>1. TypeOK /\ LeaderInv /\ NetworkInv /\ HeldInv /\ ChainInv /\ CommitBacked
    BY DEF Inv
  <1>2. m \in SendOldMsg /\ n # view
    <2>1. m \in Message /\ m.type = "SendOld"
      BY <1>1, Zenon DEF TypeOK, handleSendOldSeq
    <2>2. QED
      BY <1>1, <2>1, MessageKinds DEF NetworkInv, MessageOK
  <1>3. m.start \in Nat /\ m.end \in Nat /\ m.old \in Seq(Request)
    BY <1>2 DEF SendOldMsg
  <1>4. \A i \in DOMAIN m.old :
          Known([seq |-> m.start + i - 1, req |-> m.old[i]])'
    BY <1>1, KnownKept, Zenon DEF handleSendOldSeq, NetworkInv, MessageOK
  <1>5. /\ UNCHANGED <<cntCommitConfirm, isCommitBordcast, chain, sequenceLock,
                       asking, proposed>>
        /\ \/ /\ panicked' = panicked \cup {n}
              /\ inbox' = Consume(n, {m})
              /\ UNCHANGED <<sequenceID, requestPool, height2Digest, isReply>>
           \/ /\ requestPool' = [requestPool EXCEPT
                                   ![n] = @ \cup {m.old[i] : i \in DOMAIN m.old}]
              /\ isReply' = [isReply EXCEPT
                               ![n] = @ \cup {m.old[i] : i \in DOMAIN m.old}]
              /\ height2Digest' = [height2Digest EXCEPT
                   ![n] = {e \in @ : e.seq \notin heights} \cup old]
              /\ sequenceID' = [sequenceID EXCEPT ![n] = m.end + 1]
              /\ inbox' = IF known = {} THEN Consume(n, {m})
                          ELSE Broadcast(n, {m},
                                 [type |-> "Prepare",
                                  req |-> (CHOOSE e \in known : TRUE).req,
                                  seq |-> m.end + 1, sender |-> n,
                                  again |-> TRUE])
              /\ UNCHANGED panicked
    BY Zenon DEF handleSendOldSeq
  <1>6. LeaderInv'
    <2>1. /\ sequenceID'[view] = sequenceID[view] /\ isReply'[view] = isReply[view]
          /\ requestPool'[view] = requestPool[view]
      BY <1>1, <1>2, <1>5, Zenon DEF TypeOK
    <2>2. view \notin panicked'
      BY <1>1, <1>2, <1>5, Zenon DEF LeaderInv, LeaderSurvives
    <2>3. UNCHANGED <<chain, sequenceLock, asking, proposed>>
      BY <1>5, Zenon
    <2>4. QED
      BY <1>1, <2>1, <2>2, <2>3, Zenon DEF LeaderInv, LeaderSurvives
  <1>7. HeldInv'
    <2>1. {m.old[i] : i \in DOMAIN m.old} \subseteq Proposed'
      BY <1>4 DEF Known
    <2>2. \A k \in Node : requestPool'[k] \subseteq requestPool[k] \cup Proposed'
      <3> DEFINE got == {m.old[i] : i \in DOMAIN m.old}
      <3>1. requestPool \in [Node -> SUBSET Request]
        BY <1>1 DEF TypeOK
      <3>2. \/ UNCHANGED requestPool
            \/ requestPool' = [requestPool EXCEPT ![n] = @ \cup got]
        BY <1>5, Zenon
      <3> HIDE DEF got
      <3>3. \A k \in Node : requestPool'[k] \subseteq requestPool[k] \cup got
        BY <3>1, <3>2
      <3>4. QED
        BY <2>1, <3>3 DEF got
    <2>3. \A e \in old : Known(e)'
      <3>1. SUFFICES ASSUME NEW h \in heights
                     PROVE  Known([seq |-> h, req |-> m.old[h - m.start + 1]])'
        OBVIOUS
      <3>2. PICK i \in DOMAIN m.old : h = m.start + i - 1 /\ i = h - m.start + 1
        BY <1>3
      <3>3. QED
        BY <1>4, <3>2
    <2>4. \A k \in Node : \A e \in height2Digest'[k] :
            e \in height2Digest[k] \/ Known(e)'
      <3> HIDE DEF old, heights
      <3>1. height2Digest \in [Node -> SUBSET Entry]
        BY <1>1 DEF TypeOK
      <3>2. QED
        BY <1>5, <2>3, <3>1, Zenon
    <2>5. QED
      BY <1>1, <1>5, <2>2, <2>4, HeldKept, Zenon
  <1>8. NetworkInv'
    <2>1. CASE inbox' = Consume(n, {m})
      <3>1. \A k \in Node : inbox'[k] \subseteq inbox[k]
        BY <1>1, <2>1 DEF Consume, TypeOK
      <3>2. QED
        BY <1>1, <3>1, NetworkKept
    <2>2. CASE /\ known # {}
               /\ inbox' = Broadcast(n, {m},
                              [type |-> "Prepare",
                               req |-> (CHOOSE e \in known : TRUE).req,
                               seq |-> m.end + 1, sender |-> n,
                               again |-> TRUE])
      <3>1. PICK e : e = (CHOOSE f \in known : TRUE) /\ e \in known
        BY <2>2, Zenon
      <3>2. PICK x : x = [type |-> "Prepare", req |-> e.req, seq |-> m.end + 1,
                          sender |-> n, again |-> TRUE]
        BY Zenon
      <3>3. Known(e)' /\ e.seq = m.end + 1
        BY <1>7, <3>1 DEF HeldInv
      <3>4. \A k \in Node : MessageOK(k, x)'
        BY <3>2, <3>3, Zenon DEF MessageOK, Known
      <3>5. inbox' = Broadcast(n, {m}, x)
        BY <2>2, <3>1, <3>2
      <3>6. \A k \in Node : \A y \in inbox'[k] :
              y \in inbox[k] \/ MessageOK(k, y)'
        BY <3>4, <3>5 DEF Broadcast
      <3>7. QED
        BY <1>1, <3>6, NetworkKept
    <2>3. QED
      BY <1>5, <2>1, <2>2, Zenon
  <1>9. ChainInv' /\ CommitBacked'
    BY <1>1, <1>5, ChainKept, Zenon
  <1>10. QED
    BY <1>6, <1>7, <1>8, <1>9, Zenon DEF Inv

\* Every step keeps the invariant.
LEMMA InvStep == Inv /\ [Next]_vars => Inv'
  <1> SUFFICES ASSUME Inv, [Next]_vars
               PROVE  Inv'
    OBVIOUS
  <1>1. TypeOK /\ LeaderInv /\ NetworkInv /\ HeldInv /\ ChainInv /\ CommitBacked
    BY DEF Inv
  <1>2. TypeOK' /\ Grows
    BY <1>1, TypeStep, StepGrows
  <1>3. ASSUME UNCHANGED <<sequenceID, maps, chain, sequenceLock, asking,
                           panicked, proposed, inbox>>
        PROVE  Inv'
    <2>1. LeaderInv'
      BY <1>1, <1>3 DEF LeaderInv, LeaderSurvives, maps
    <2>2. NetworkInv' /\ HeldInv'
      <3>1. NetworkInv'
        BY <1>1, <1>2, <1>3, NetworkKept
      <3>2. HeldInv'
        BY <1>1, <1>2, <1>3, HeldKept DEF maps
      <3>3. QED
        BY <3>1, <3>2
    <2>3. ChainInv' /\ CommitBacked'
      BY <1>1, <1>2, <1>3, ChainKept
    <2>4. QED
      BY <1>2, <2>1, <2>2, <2>3 DEF Inv
  <1>4. CASE StoreStage
    BY <1>3, <1>4 DEF StoreStage
  <1>5. CASE UNCHANGED vars
    BY <1>3, <1>5 DEF vars, locks
  <1>6. QED
    BY <1>2, <1>4, <1>5, ProposeInv, PrePrepareInv, PrepareInv, CommitInv,
       AskForBlocksInv, RequestOldInv, SendOldInv, Zenon DEF Next

\* In every reachable state of a shard of any size, after any number of
\* proposals, the inductive invariant holds.
THEOREM Invariant == Spec => []Inv
  <1>1. Init => Inv
    <2> SUFFICES ASSUME Init PROVE Inv
      OBVIOUS
    <2>1. LeaderInv
      BY NodeAssumption DEF Init, LeaderInv, LeaderSurvives
    <2>2. NetworkInv /\ HeldInv
      BY DEF Init, NetworkInv, HeldInv
    <2>3. ChainInv /\ CommitBacked
      BY DEF Init, ChainInv, CommitBacked
    <2>4. QED
      BY <2>1, <2>2, <2>3, TypeInit DEF Inv
  <1>2. QED
    BY <1>1, InvStep, PTL DEF Spec

-----------------------------------------------------------------------------
(* What follows from the invariant.                                        *)

\* The leader's blocks are in order and it has at most one open proposal
\* (Propose and handleCommit with sequenceLock).
THEOREM LeaderOrdered == Spec => []LeaderInOrder
  <1>1. Inv => LeaderInOrder
    <2> SUFFICES ASSUME LeaderInv PROVE LeaderInOrder
      BY DEF Inv
    <2>1. ASSUME NEW i \in 1 .. Len(chain[view])
          PROVE  chain[view][i].number = i
      <3>1. chain[view][i] = Block(i)
        BY DEF LeaderInv
      <3>2. QED
        BY <3>1 DEF Block
    <2>2. QED
      BY <2>1 DEF LeaderInv, LeaderInOrder
  <1>2. QED
    BY <1>1, Invariant, PTL

\* The leader never unlocks a free sequenceLock and never asks itself for a
\* block (handleCommit), whatever messages are delayed, lost or reordered.
THEOREM LeaderKeepsRunning == Spec => []LeaderSurvives
  <1>1. Inv => LeaderSurvives
    BY DEF Inv, LeaderInv
  <1>2. QED
    BY <1>1, Invariant, PTL

\* Blocks of one height are the same block on all nodes (handleCommit).
THEOREM ShardAgreement == Spec => []Agreement
  <1>1. Inv => Agreement
    <2> SUFFICES ASSUME Inv, NEW n \in Node, NEW k \in Node,
                        NEW i \in 1 .. Len(chain[n]),
                        NEW j \in 1 .. Len(chain[k]),
                        chain[n][i].number = chain[k][j].number
                 PROVE  chain[n][i] = chain[k][j]
      BY DEF Agreement
    <2>1. chain[n][i] \in Proposed /\ chain[k][j] \in Proposed
      BY DEF Inv, ChainInv
    <2>2. QED
      BY <2>1 DEF Proposed, Block
  <1>2. QED
    BY <1>1, Invariant, PTL

\* A block on a chain is backed by the commits of 2f other nodes, although the
\* counters of set2DMap count messages.
THEOREM BlocksBacked == Spec => []CommitBacked
  <1>1. Inv => CommitBacked
    BY DEF Inv
  <1>2. QED
    BY <1>1, Invariant, PTL

\* Under the invariant a step of the protocol is a step of the abstract log.
LEMMA StepImplements ==
  Inv /\ [Next]_vars => [Log!LogNext]_<<proposed, chain>>
  <1> SUFFICES ASSUME Inv, [Next]_vars,
                      ~UNCHANGED <<proposed, chain>>
               PROVE  Log!LogNext
    OBVIOUS
  <1> USE NodeAssumption
  <1>1. TypeOK /\ LeaderInv /\ ChainInv /\ TypeOK' /\ Grows
    BY TypeStep, StepGrows DEF Inv
  <1>2. CASE Propose
    <2>1. /\ ~sequenceLock
          /\ proposed' = proposed + 1 /\ UNCHANGED chain
      BY <1>2 DEF Propose
    <2>2. Len(chain[view]) = proposed
      <3>1. proposed = Len(chain[view]) + 0
        BY <1>1, <2>1, Zenon DEF LeaderInv
      <3>2. QED
        BY <1>1, <3>1, LeaderHeight
    <2>3. QED
      BY <2>1, <2>2 DEF Log!LogNext, Log!ProposeNext
  <1>3. ASSUME NEW n \in Node, NEW m \in inbox[n], handleCommit(n, m)
        PROVE  Log!LogNext
    <2>1. /\ CommitQuorum(n, m) /\ UNCHANGED proposed
          /\ chain' = [chain EXCEPT ![n] = Append(@, m.req)]
      BY <1>3, Zenon DEF handleCommit
    <2>2. m.req \in Proposed /\ m.req \notin isReply[n]
      BY <1>1, <1>3, <2>1, CommitQuorumFacts, Zenon
    <2>3. PICK k \in 1 .. proposed : m.req = Block(k)
      BY <2>2 DEF Proposed
    <2>4. \A i \in 1 .. Len(chain[n]) : chain[n][i] # Block(k)
      BY <1>1, <2>2, <2>3 DEF ChainInv
    <2>5. n = view => k = Len(chain[n]) + 1
      <3>1. ASSUME n = view
            PROVE  k = Len(chain[n]) + 1
        <4>1. proposed = Len(chain[view]) + 1 /\ m.req = Block(proposed)
          BY <1>1, <2>2, <3>1, LeaderOpenRound
        <4>2. QED
          BY <2>3, <3>1, <4>1 DEF Block
      <3>2. QED
        BY <3>1
    <2>6. Log!Deliver(n, k)
      BY <2>1, <2>3, <2>4, <2>5 DEF Log!Deliver, Log!Block, Block
    <2>7. QED
      BY <2>6 DEF Log!LogNext
  <1>4. ASSUME \/ StoreStage
               \/ \E n \in Node : \E m \in inbox[n] : handlePrePrepare(n, m)
               \/ \E n \in Node : \E m \in inbox[n] : handlePrepare(n, m)
               \/ \E n \in Node : \E m \in asking[n] : AskForBlocks(n, m)
               \/ \E n \in Node : \E m \in inbox[n] : handleRequestOldSeq(n, m)
               \/ \E n \in Node : \E m \in inbox[n] : handleSendOldSeq(n, m)
               \/ UNCHANGED vars
        PROVE  UNCHANGED <<proposed, chain>>
    BY <1>4, Zenon
    DEF StoreStage, handlePrePrepare, handlePrepare, AskForBlocks,
        handleRequestOldSeq, handleSendOldSeq, vars
  <1>5. QED
    BY <1>2, <1>3, <1>4, Zenon DEF Next

\* The protocol implements the abstract log of a shard: one proposal at a time,
\* each proposed block delivered at most once per node, in order at the leader.
THEOREM Implements == Spec => ImplementsLog
  <1>1. Init => Log!LogInit
    BY DEF Init, Log!LogInit
  <1>2. QED
    BY <1>1, StepImplements, Invariant, PTL DEF Spec, ImplementsLog, Log!LogSpec
=============================================================================
