--------------------------- MODULE PbftTypeProofs ---------------------------
(* Type correctness of Pbft, for any number of nodes and of proposals. *)
EXTENDS Pbft, TLAPS

\* The type field of a message tells its kind (the message types of
\* message.go have different names).
LEMMA MessageKinds ==
  ASSUME NEW m \in Message
  PROVE  /\ m.type = "PrePrepare" => m \in PrePrepareMsg
         /\ m.type = "Prepare" => m \in PrepareMsg
         /\ m.type = "Commit" => m \in CommitMsg
         /\ m.type = "RequestOld" => m \in RequestOldMsg
         /\ m.type = "SendOld" => m \in SendOldMsg
  BY DEF Message, PrePrepareMsg, PrepareMsg, CommitMsg, RequestOldMsg,
         SendOldMsg

\* The leader's genesis state and every appended block give a height.
LEMMA HeightType ==
  ASSUME TypeOK, NEW n \in Node
  PROVE  Height(n) \in Nat
  <1>1. chain[n] \in Seq(Request)
    BY DEF TypeOK
  <1>2. ASSUME chain[n] # << >>
        PROVE  chain[n][Len(chain[n])] \in Request
    BY <1>1, <1>2
  <1>3. QED
    BY <1>2 DEF Height, Request

\* What networks.Broadcast, networks.TcpDial and a handler's end leave in the
\* inboxes.
LEMMA InboxType ==
  ASSUME TypeOK, NEW n \in Node, NEW k, NEW H, NEW x \in Message
  PROVE  /\ Broadcast(n, H, x) \in [Node -> SUBSET Message]
         /\ SendTo(n, H, k, x) \in [Node -> SUBSET Message]
  BY DEF TypeOK, Broadcast, SendTo

\* Handling a message without sending one keeps the type of the inboxes.
LEMMA ConsumeType ==
  ASSUME TypeOK, NEW n \in Node, NEW H
  PROVE  Consume(n, H) \in [Node -> SUBSET Message]
  BY DEF TypeOK, Consume

\* The leader's answer is a sequence of requests from its own maps.
LEMMA OldRequestsType ==
  ASSUME TypeOK, NEW start \in Nat, NEW end \in Nat, NEW k \in Nat,
         LoopStopsAt(start, end, k)
  PROVE  OldRequests(start, k) \in Seq(Request)
  <1>1. ASSUME NEW i \in 1 .. k
        PROVE  RequestAt(start + i - 1) \in Request
    <2>1. Found(start + i - 1)
      BY DEF LoopStopsAt
    <2>2. \E e \in height2Digest[view] : e.seq = start + i - 1
      BY <2>1 DEF Found
    <2>3. (CHOOSE e \in height2Digest[view] : e.seq = start + i - 1)
            \in height2Digest[view]
      BY <2>2
    <2>4. QED
      BY <2>3, NodeAssumption DEF RequestAt, TypeOK, Entry
  <1>2. QED
    BY <1>1 DEF OldRequests

\* The type invariant is inductive.
LEMMA TypeStep == TypeOK /\ [Next]_vars => TypeOK'
  <1> SUFFICES ASSUME TypeOK, [Next]_vars
               PROVE  TypeOK'
    OBVIOUS
  <1> USE NodeAssumption
  <1>1. CASE Propose
    <2> DEFINE r == [id |-> proposed + 1, number |-> Height(view) + 1]
               x == [type |-> "PrePrepare", req |-> r, seq |-> sequenceID[view]]
    <2>1. r \in Request /\ sequenceID[view] \in Nat
      BY HeightType DEF TypeOK, Request
    <2>2. x \in Message
      BY <2>1 DEF Message, PrePrepareMsg
    <2>3. inbox' \in [Node -> SUBSET Message]
      BY <1>1, <2>2, InboxType, Zenon DEF Propose
    <2>4. PutHeight(height2Digest[view], sequenceID[view], r) \subseteq Entry
      BY <2>1 DEF PutHeight, TypeOK, Entry
    <2>5. QED
      BY <1>1, <2>1, <2>3, <2>4 DEF Propose, TypeOK
  <1>2. CASE StoreStage
    BY <1>2, Zenon DEF StoreStage, TypeOK, maps
  <1>3. ASSUME NEW n \in Node, NEW m \in inbox[n], handlePrePrepare(n, m)
        PROVE  TypeOK'
    <2> DEFINE x == [type |-> "Prepare", req |-> m.req, seq |-> m.seq,
                     sender |-> n, again |-> FALSE]
    <2>1. m \in PrePrepareMsg
      BY <1>3, MessageKinds DEF handlePrePrepare, TypeOK
    <2>2. x \in Message
      BY <2>1 DEF PrePrepareMsg, Message, PrepareMsg
    <2>3. inbox' \in [Node -> SUBSET Message]
      BY <1>3, <2>2, InboxType, Zenon DEF handlePrePrepare
    <2>4. PutHeight(height2Digest[n], m.seq, m.req) \subseteq Entry
      BY <2>1 DEF PutHeight, TypeOK, Entry, PrePrepareMsg
    <2>5. /\ requestPool' \in [Node -> SUBSET Request]
          /\ height2Digest' \in [Node -> SUBSET Entry]
          /\ pbftStage' \in [Node -> Nat]
      BY <1>3, <2>1, <2>4 DEF handlePrePrepare, TypeOK, PrePrepareMsg
    <2>6. QED
      BY <1>3, <2>3, <2>5, Zenon DEF handlePrePrepare, TypeOK, locks
  <1>4. ASSUME NEW n \in Node, NEW m \in inbox[n], handlePrepare(n, m)
        PROVE  TypeOK'
    <2> DEFINE x == [type |-> "Commit", req |-> m.req, seq |-> m.seq,
                     sender |-> n]
    <2>1. m \in PrepareMsg /\ m \in Message
      BY <1>4, MessageKinds DEF handlePrepare, TypeOK
    <2>2. x \in Message
      BY <2>1 DEF PrepareMsg, Message, CommitMsg
    <2>3. /\ Broadcast(n, {m}, x) \in [Node -> SUBSET Message]
          /\ Consume(n, {m}) \in [Node -> SUBSET Message]
      BY <2>2, InboxType, ConsumeType, Zenon
    <2>4. inbox' \in {Broadcast(n, {m}, x), Consume(n, {m})}
      BY <1>4 DEF handlePrepare
    <2>5. /\ cntPrepareConfirm' \in [Node -> SUBSET PrepareMsg]
          /\ isCommitBordcast' \in [Node -> SUBSET Request]
          /\ pbftStage' \in [Node -> Nat]
      <3>1. m.req \in Request
        BY <2>1 DEF PrepareMsg
      <3>2. /\ \/ UNCHANGED cntPrepareConfirm
               \/ cntPrepareConfirm' = [cntPrepareConfirm EXCEPT
                                          ![n] = @ \cup {m}]
            /\ \/ UNCHANGED <<isCommitBordcast, pbftStage>>
               \/ /\ isCommitBordcast' = [isCommitBordcast EXCEPT
                                            ![n] = @ \cup {m.req}]
                  /\ pbftStage' = [pbftStage EXCEPT ![n] = @ + 1]
        BY <1>4 DEF handlePrepare
      <3>3. cntPrepareConfirm' \in [Node -> SUBSET PrepareMsg]
        <4>1. cntPrepareConfirm \in [Node -> SUBSET PrepareMsg]
          BY DEF TypeOK
        <4>2. QED
          BY <2>1, <3>2, <4>1
      <3>4. isCommitBordcast' \in [Node -> SUBSET Request]
        <4>1. isCommitBordcast \in [Node -> SUBSET Request]
          BY DEF TypeOK
        <4>2. QED
          BY <3>1, <3>2, <4>1
      <3>5. pbftStage' \in [Node -> Nat]
        <4>1. pbftStage \in [Node -> Nat]
          BY DEF TypeOK
        <4>2. QED
          BY <3>2, <4>1
      <3>6. QED
        BY <3>3, <3>4, <3>5
    <2>6. QED
      BY <1>4, <2>3, <2>4, <2>5, Zenon DEF handlePrepare, TypeOK, locks
  <1>5. ASSUME NEW n \in Node, NEW m \in inbox[n], handleCommit(n, m)
        PROVE  TypeOK'
    <2>1. m \in CommitMsg /\ m \in Message
      BY <1>5, MessageKinds DEF handleCommit, TypeOK
    <2>2. m.req \in Request
      BY <2>1 DEF CommitMsg
    <2>3. inbox' \in [Node -> SUBSET Message]
      BY <1>5, ConsumeType DEF handleCommit
    <2>4. /\ cntCommitConfirm' \in [Node -> SUBSET CommitMsg]
          /\ isReply' \in [Node -> SUBSET Request]
      BY <1>5, <2>1, <2>2 DEF handleCommit, TypeOK
    <2>5. CASE UNCHANGED <<sequenceID, pbftStage, requestPool, chain,
                           sequenceLock, panicked>>
      <3>1. \/ UNCHANGED asking
            \/ asking' = [asking EXCEPT ![n] = {m}]
        BY <1>5, Zenon DEF handleCommit
      <3>2. asking' \in [Node -> SUBSET CommitMsg]
        <4>1. asking \in [Node -> SUBSET CommitMsg]
          BY DEF TypeOK
        <4>2. {m} \in SUBSET CommitMsg
          BY <2>1
        <4>3. QED
          BY <3>1, <4>1, <4>2
      <3>3. QED
        BY <1>5, <2>3, <2>4, <2>5, <3>2, Zenon DEF handleCommit, TypeOK
    <2>6. CASE /\ chain' = [chain EXCEPT ![n] = Append(@, m.req)]
               /\ sequenceID' = [sequenceID EXCEPT ![n] = @ + 1]
               /\ requestPool' = [requestPool EXCEPT ![n] = @ \ {m.req}]
               /\ EndRound(n)
               /\ UNCHANGED asking
      <3>1. /\ chain' \in [Node -> Seq(Request)]
            /\ sequenceID' \in [Node -> Nat]
            /\ requestPool' \in [Node -> SUBSET Request]
        BY <2>2, <2>6 DEF TypeOK
      <3>2. /\ pbftStage' \in [Node -> Nat]
            /\ sequenceLock' \in BOOLEAN
            /\ panicked' \subseteq Node
        BY <2>6, Zenon DEF TypeOK, EndRound
      <3>3. QED
        BY <1>5, <2>3, <2>4, <2>6, <3>1, <3>2, Zenon DEF handleCommit, TypeOK
    <2>7. QED
      BY <1>5, <2>5, <2>6 DEF handleCommit
  <1>6. ASSUME NEW n \in Node, NEW m \in asking[n], AskForBlocks(n, m)
        PROVE  TypeOK'
    <2> DEFINE x == [type |-> "RequestOld", sender |-> n,
                     start |-> sequenceID[n] + 1, end |-> m.seq]
    <2>1. m \in CommitMsg
      BY DEF TypeOK
    <2>2. x \in Message
      BY <2>1 DEF TypeOK, CommitMsg, Message, RequestOldMsg
    <2>3. inbox' \in [Node -> SUBSET Message]
      BY <1>6, <2>2, InboxType DEF AskForBlocks
    <2>4. /\ pbftStage' \in [Node -> Nat]
          /\ sequenceLock' \in BOOLEAN
          /\ panicked' \subseteq Node
          /\ asking' \in [Node -> SUBSET CommitMsg]
          /\ askForLock' \in [Node -> BOOLEAN]
      BY <1>6, Zenon DEF AskForBlocks, TypeOK, EndRound
    <2>5. QED
      BY <1>6, <2>3, <2>4 DEF AskForBlocks, TypeOK, maps
  <1>7. ASSUME NEW n \in Node, NEW m \in inbox[n], handleRequestOldSeq(n, m)
        PROVE  TypeOK'
    <2>1. m \in RequestOldMsg /\ m \in Message
      BY <1>7, MessageKinds DEF handleRequestOldSeq, TypeOK
    <2>2. inbox' \in [Node -> SUBSET Message]
      <3>1. CASE n # view
        BY <1>7, <3>1, ConsumeType DEF handleRequestOldSeq
      <3>2. CASE n = view
        <4>1. PICK k \in 0 .. m.end :
                /\ LoopStopsAt(m.start, m.end, k)
                /\ inbox' = SendTo(n, {m}, m.sender,
                            [type |-> "SendOld", start |-> m.start,
                             end |-> m.end, old |-> OldRequests(m.start, k)])
          BY <1>7, <3>2, Zenon DEF handleRequestOldSeq
        <4>2. OldRequests(m.start, k) \in Seq(Request)
          BY <4>1, <2>1, OldRequestsType DEF RequestOldMsg
        <4>3. [type |-> "SendOld", start |-> m.start, end |-> m.end,
               old |-> OldRequests(m.start, k)] \in Message
          BY <2>1, <4>2 DEF RequestOldMsg, Message, SendOldMsg
        <4>4. QED
          BY <4>1, <4>3, InboxType
      <3>3. QED
        BY <3>1, <3>2
    <2>3. QED
      BY <1>7, <2>2 DEF handleRequestOldSeq, TypeOK, maps, locks
  <1>8. ASSUME NEW n \in Node, NEW m \in inbox[n], handleSendOldSeq(n, m)
        PROVE  TypeOK'
    <2> DEFINE heights == m.start .. m.start + Len(m.old) - 1
               old == {[seq |-> h, req |-> m.old[h - m.start + 1]] :
                         h \in heights}
               known == {e \in height2Digest'[n] :
                           e.seq = m.end + 1 /\ e.req \in requestPool'[n]}
               x == [type |-> "Prepare", req |-> (CHOOSE e \in known : TRUE).req,
                     seq |-> m.end + 1, sender |-> n, again |-> TRUE]
    <2>1. m \in SendOldMsg /\ m \in Message
      BY <1>8, MessageKinds DEF handleSendOldSeq, TypeOK
    <2>2. m.start \in Nat /\ m.end \in Nat /\ m.old \in Seq(Request)
      BY <2>1 DEF SendOldMsg
    <2>3. CASE SequentialRequestPanics(m)
      <3>1. inbox' \in [Node -> SUBSET Message]
        BY <1>8, <2>3, ConsumeType DEF handleSendOldSeq
      <3>2. panicked' \subseteq Node
        BY <1>8, <2>3 DEF handleSendOldSeq, TypeOK
      <3>3. QED
        BY <1>8, <2>3, <3>1, <3>2, Zenon DEF handleSendOldSeq, TypeOK
    <2>4. CASE ~SequentialRequestPanics(m)
      <3>1. old \subseteq Entry
        BY <2>2 DEF Entry
      <3>2. {m.old[i] : i \in DOMAIN m.old} \subseteq Request
        BY <2>2
      <3>3. /\ requestPool' = [requestPool EXCEPT
                                 ![n] = @ \cup {m.old[i] : i \in DOMAIN m.old}]
            /\ isReply' = [isReply EXCEPT
                             ![n] = @ \cup {m.old[i] : i \in DOMAIN m.old}]
            /\ height2Digest' = [height2Digest EXCEPT
                 ![n] = {e \in @ : e.seq \notin heights} \cup old]
            /\ sequenceID' = [sequenceID EXCEPT ![n] = m.end + 1]
            /\ inbox' = IF known = {} THEN Consume(n, {m})
                        ELSE Broadcast(n, {m}, x)
            /\ askForLock' = [askForLock EXCEPT ![n] = FALSE]
            /\ UNCHANGED panicked
        BY <1>8, <2>4 DEF handleSendOldSeq
      <3>4. height2Digest' \in [Node -> SUBSET Entry]
        BY <3>1, <3>3 DEF TypeOK
      <3>5. inbox' \in [Node -> SUBSET Message]
        <4>1. CASE known = {}
          BY <3>3, <4>1, ConsumeType, Zenon
        <4>2. CASE known # {}
          <5>1. (CHOOSE e \in known : TRUE) \in Entry
            BY <4>2, <3>4
          <5>2. x \in Message
            BY <5>1, <2>2 DEF Entry, Message, PrepareMsg
          <5>3. QED
            BY <3>3, <4>2, <5>2, InboxType, Zenon
        <4>3. QED
          BY <4>1, <4>2
      <3>6. /\ requestPool' \in [Node -> SUBSET Request]
            /\ isReply' \in [Node -> SUBSET Request]
            /\ sequenceID' \in [Node -> Nat]
            /\ askForLock' \in [Node -> BOOLEAN]
        BY <2>2, <3>2, <3>3 DEF TypeOK
      <3>7. QED
        BY <1>8, <3>3, <3>4, <3>5, <3>6, Zenon DEF handleSendOldSeq, TypeOK
    <2>5. QED
      BY <2>3, <2>4
  <1>9. CASE UNCHANGED vars
    BY <1>9 DEF vars, maps, locks, TypeOK
  <1>10. QED
    BY <1>1, <1>2, <1>3, <1>4, <1>5, <1>6, <1>7, <1>8, <1>9 DEF Next

\* The state NewPbftNode builds is well typed.
LEMMA TypeInit == Init => TypeOK
  <1> SUFFICES ASSUME Init PROVE TypeOK
    OBVIOUS
  <1>1. chain \in [Node -> Seq(Request)]
    BY DEF Init
  <1>2. askForLock \in [Node -> BOOLEAN]
    BY DEF Init
  <1>3. QED
    BY <1>1, <1>2, Zenon DEF Init, TypeOK

\* Every variable keeps its type in every reachable state.
THEOREM TypeCorrect == Spec => []TypeOK
  <1>1. QED
    BY TypeInit, TypeStep, PTL DEF Spec
=============================================================================
