------------------------------ MODULE StateDB ------------------------------
(***************************************************************************)
(* The account state that executes the transactions of a block on the      *)
(* leader of a shard (vm/state): live objects over what is on disk, the    *)
(* journal that undoes them, snapshots taken by nested calls, and the      *)
(* commit that writes what the journal's dirty counters name.              *)
(*                                                                         *)
(* db is the StateDB struct.  Its operators below take the struct and      *)
(* return the changed struct, so that they compose as the Go methods do.   *)
(* wide and the copies in a revision are history: what the state           *)
(* was, never read by the code.  Loading an object from disk changes no    *)
(* answer, so object[a] is what getStateObject(a) returns.  Undoing the    *)
(* journal is one step per entry.  The refund counter is left out: the     *)
(* gas functions that would change it return before they do.               *)
(***************************************************************************)
EXTENDS Integers, Sequences

CONSTANTS Address, Key, Word, Zero,   \* storage slots and what they hold
          Code, NoCode,               \* contract codes, NoCode the empty one
          None,                       \* Go's nil and a key absent from a map
          Amount,                     \* values a transaction may carry
          Sender,                     \* the accounts that send transactions
          InitBalance,                \* params.Init_Balance
          Mod64, Mod256,              \* 2^64 and 2^256
          Genesis,                    \* the accounts on disk at the start
          MaxJournal, MaxDepth, MaxSnapshot, MaxTx   \* bounds

ASSUME WidthAssumption == Mod64 \in Nat \ {0} /\ Mod256 \in Nat \ {0}
ASSUME InitAssumption == InitBalance \in 0 .. Mod256 - 1
ASSUME AmountAssumption == Amount \subseteq Nat /\ Sender \subseteq Address
ASSUME WordAssumption == Zero \in Word /\ None \notin Word
ASSUME CodeAssumption == NoCode \in Code

Object == [nonce: Nat, balance: 0 .. Mod256 - 1, code: Code,
           dirtyStorage: [Key -> Word \cup {None}],
           selfDestructed: BOOLEAN, newContract: BOOLEAN]
Account == [nonce: Nat, balance: 0 .. Mod256 - 1, code: Code, storage: [Key -> Word]]

ASSUME NoneAssumption == None \notin Object /\ None \notin Account
ASSUME GenesisAssumption == Genesis \in [Address -> Account \cup {None}]

VARIABLES disk,     \* accounts at originalRoot
          db,       \* the StateDB
          tx,       \* the transaction being executed
          frames,   \* calls that are open, each with the snapshot it took
          undoing   \* position of the revision being reverted to, 0 if none

vars == <<disk, db, tx, frames, undoing>>
-----------------------------------------------------------------------------
(* Objects and storage *)

CleanStorage == [k \in Key |-> None]

NewObject == [nonce |-> 0, balance |-> InitBalance, code |-> NoCode,
              dirtyStorage |-> CleanStorage,
              selfDestructed |-> FALSE, newContract |-> FALSE]

Loaded(dk, a) ==
    IF dk[a] = None THEN None
    ELSE [nonce |-> dk[a].nonce, balance |-> dk[a].balance, code |-> dk[a].code,
          dirtyStorage |-> CleanStorage,
          selfDestructed |-> FALSE, newContract |-> FALSE]

GetCommittedState(dk, a, k) == IF dk[a] = None THEN Zero ELSE dk[a].storage[k]

GetState(dk, o, a, k) ==
    IF o.dirtyStorage[k] # None THEN o.dirtyStorage[k] ELSE GetCommittedState(dk, a, k)

\* A slot set back to its original value loses its dirty marker.
setState(o, k, value, origin) ==
    [o EXCEPT !.dirtyStorage[k] = IF value = origin THEN None ELSE value]

EmptyObject(o) == o.nonce = 0 /\ o.balance = 0 /\ o.code = NoCode

NoTransient == [a \in Address |-> [k \in Key |-> Zero]]

New(dk) ==
    [live |-> [object |-> [a \in Address |-> Loaded(dk, a)],
               transient |-> NoTransient, logs |-> [t \in 1 .. MaxTx |-> 0]],
     accessList |-> [addresses |-> {}, slots |-> {}],
     entries |-> << >>, dirties |-> [a \in Address |-> 0],
     revisions |-> << >>, nextRevisionId |-> 0,
     wide |-> FALSE]
-----------------------------------------------------------------------------
(* The journal *)

Dirtied(e) ==
    IF e.type \in {"createContract", "transient", "log", "access"} THEN {} ELSE {e.account}

\* Mutant: a storage change does not mark its account.
CountButStorage(d, e, n) ==
    [a \in Address |-> IF a \in Dirtied(e) /\ e.type # "storage" THEN d[a] + n ELSE d[a]]

\* Mutant: undoing an access-list entry takes a mark it never set.
CountUneven(d, e, n) ==
    [a \in Address |-> IF a \in Dirtied(e) \/ (n < 0 /\ e.type = "access" /\ e.account = a)
                      THEN d[a] + n ELSE d[a]]

CountDirty(d, e, n) == [a \in Address |-> IF a \in Dirtied(e) THEN d[a] + n ELSE d[a]]

\* append: the entry, its dirty mark, and the state it leads to.
Journal(s, e, l) ==
    [s EXCEPT !.live = l, !.entries = Append(@, e),
              !.dirties = CountDirty(@, e, 1)]

Snapshot(s) ==
    [s EXCEPT !.revisions = Append(@, [id |-> s.nextRevisionId, index |-> Len(s.entries),
                                       live |-> s.live, accessList |-> s.accessList]),
              !.nextRevisionId = @ + 1]

\* Mutant: a slot goes back to its committed value, not to its previous one.
RevertToCommitted(o, e) == setState(o, e.key, e.origin, e.origin)

RevertStorage(o, e) == setState(o, e.key, e.prev, e.origin)

\* The Revert methods of the entries.  AccessList changes are not undone.
Undo(dk, e, l) ==
    LET a == e.account
        o == l.object[a]
        Obj(new) == IF o = None THEN l ELSE [l EXCEPT !.object[a] = new]
    IN  CASE e.type = "createObject"   -> [l EXCEPT !.object[a] = Loaded(dk, a)]
          [] e.type = "createContract" -> Obj([o EXCEPT !.newContract = FALSE])
          [] e.type = "selfDestruct"   -> Obj([o EXCEPT !.selfDestructed = FALSE])
          [] e.type = "balance"        -> Obj([o EXCEPT !.balance = e.prev])
          [] e.type = "nonce"          -> Obj([o EXCEPT !.nonce = e.prev])
          [] e.type = "code"           -> Obj([o EXCEPT !.code = NoCode])
          [] e.type = "storage"        -> Obj(RevertStorage(o, e))
          [] e.type = "transient"      -> [l EXCEPT !.transient[a][e.key] = e.prev]
          [] e.type = "log"            -> [l EXCEPT !.logs[e.tx] = @ - 1]
          [] OTHER                     -> l

\* One round of the loop of revert: undo the last entry and drop it.
UndoLast(dk, s) ==
    LET n == Len(s.entries)
        e == s.entries[n]
    IN  [s EXCEPT !.live = Undo(dk, e, @), !.dirties = CountDirty(@, e, -1),
                  !.entries = SubSeq(@, 1, n - 1)]
-----------------------------------------------------------------------------
(* Setters *)

createObject(s, a) ==
    Journal(s, [type |-> "createObject", account |-> a],
            [s.live EXCEPT !.object[a] = NewObject])

getOrNewStateObject(s, a) == IF s.live.object[a] # None THEN s ELSE createObject(s, a)

\* The journal keeps the low 64 bits of the previous balance.
SetBalance(s, a, v) ==
    LET old == s.live.object[a].balance
    IN  [Journal(s, [type |-> "balance", account |-> a, prev |-> old % Mod64],
                 [s.live EXCEPT !.object[a].balance = v])
         EXCEPT !.wide = @ \/ old >= Mod64]

touch(s, a) == Journal(s, [type |-> "touch", account |-> a], s.live)

AddToObject(s, a, v) ==
    LET o == s.live.object[a]
    IN  IF v # 0 THEN SetBalance(s, a, (o.balance + v) % Mod256)
        ELSE IF EmptyObject(o) THEN touch(s, a) ELSE s

SubFromObject(s, a, v) ==
    IF v = 0 THEN s ELSE SetBalance(s, a, (s.live.object[a].balance - v) % Mod256)

AddBalance(s, a, v) == AddToObject(getOrNewStateObject(s, a), a, v)
SubBalance(s, a, v) == SubFromObject(getOrNewStateObject(s, a), a, v)
Transfer(s, a, b, v) == AddBalance(SubBalance(s, a, v), b, v)

SetNonce(s, a, n) ==
    Journal(s, [type |-> "nonce", account |-> a, prev |-> s.live.object[a].nonce],
            [s.live EXCEPT !.object[a].nonce = n])

SetCode(s, a, c) ==
    Journal(s, [type |-> "code", account |-> a], [s.live EXCEPT !.object[a].code = c])

SetState(dk, s, a, k, w) ==
    LET o == s.live.object[a]
        prev == GetState(dk, o, a, k)
        origin == GetCommittedState(dk, a, k)
    IN  IF prev = w THEN s
        ELSE Journal(s, [type |-> "storage", account |-> a, key |-> k,
                         prev |-> prev, origin |-> origin],
                     [s.live EXCEPT !.object[a] = setState(@, k, w, origin)])

SetTransientState(s, a, k, w) ==
    LET prev == s.live.transient[a][k]
    IN  IF prev = w THEN s
        ELSE Journal(s, [type |-> "transient", account |-> a, key |-> k, prev |-> prev],
                     [s.live EXCEPT !.transient[a][k] = w])

AddLog(s, t) == Journal(s, [type |-> "log", tx |-> t], [s.live EXCEPT !.logs[t] = @ + 1])

CreateContract(s, a) ==
    IF s.live.object[a].newContract THEN s
    ELSE Journal(s, [type |-> "createContract", account |-> a],
                 [s.live EXCEPT !.object[a].newContract = TRUE])

MarkDestructed(s, a) ==
    IF s.live.object[a].selfDestructed THEN s
    ELSE Journal(s, [type |-> "selfDestruct", account |-> a],
                 [s.live EXCEPT !.object[a].selfDestructed = TRUE])

SelfDestruct(s, a) ==
    MarkDestructed(IF s.live.object[a].balance = 0 THEN s ELSE SetBalance(s, a, 0), a)

Selfdestruct6780(s, a) == IF s.live.object[a].newContract THEN SelfDestruct(s, a) ELSE s

AddAddressToAccessList(s, a) ==
    IF a \in s.accessList.addresses THEN s
    ELSE [Journal(s, [type |-> "access", account |-> a], s.live)
          EXCEPT !.accessList.addresses = @ \cup {a}]

AddSlotToAccessList(s, a, k) ==
    IF <<a, k>> \in s.accessList.slots THEN s
    ELSE [Journal(AddAddressToAccessList(s, a), [type |-> "access", account |-> a], s.live)
          EXCEPT !.accessList.slots = @ \cup {<<a, k>>}]

\* Finalise(false) and commit: only accounts with a dirty mark are written.
Finalise(dk, s, a) ==
    LET o == s.live.object[a]
    IN  IF s.dirties[a] = 0 \/ o = None THEN dk[a]
        ELSE IF o.selfDestructed THEN None
        ELSE [nonce |-> o.nonce, balance |-> o.balance, code |-> o.code,
              storage |-> [k \in Key |-> GetState(dk, o, a, k)]]
-----------------------------------------------------------------------------
(* Execution of a block *)

Top == frames[Len(frames)]
Room == Len(db.entries) < MaxJournal
Balance(a) == db.live.object[a].balance
HasCode(s, a) == s.live.object[a].code # NoCode

Init ==
    /\ disk = Genesis
    /\ db = New(Genesis)
    /\ tx = [n |-> 0, phase |-> "idle", value |-> 0]
    /\ frames = << >>
    /\ undoing = 0

\* ExeTx of a plain transfer: no balance is checked, 256 bits wrap around.  The
\* fee of an allocated transfer is 0.
PlainTransfer(a, b, v, fee) ==
    /\ tx.phase = "idle" /\ tx.n < MaxTx /\ Room
    /\ \E debits, credits \in BOOLEAN :   \* which of the two live in this shard
          LET s == IF debits THEN SubBalance(SubBalance(db, a, v), a, fee) ELSE db
          IN  /\ debits \/ credits
              /\ db' = IF credits THEN AddBalance(s, b, v) ELSE s
    /\ tx' = [tx EXCEPT !.n = @ + 1]
    /\ UNCHANGED <<disk, frames, undoing>>

\* ExeTx of a contract transaction up to the checks of TransitionDb.  The first
\* frame is ExeTx itself, the second the call or creation of the transaction.
BeginTx(a, v) ==
    /\ tx.phase = "idle" /\ tx.n < MaxTx /\ Room
    /\ db' = getOrNewStateObject(Snapshot(db), a)
    /\ frames' = <<[id |-> db.nextRevisionId, self |-> a, create |-> FALSE]>>
    /\ tx' = [n |-> tx.n + 1, phase |-> "checking", value |-> v]
    /\ UNCHANGED <<disk, undoing>>

\* Prepare resets the transient storage outside the journal.
AcceptTx ==
    /\ tx.phase = "checking" /\ undoing = 0
    /\ Balance(Top.self) >= tx.value
    /\ db' = [db EXCEPT !.live.transient = NoTransient]
    /\ tx' = [tx EXCEPT !.phase = "start"]
    /\ UNCHANGED <<disk, frames, undoing>>

\* RevertToSnapshot looks the revision up by its id.
StartUndo ==
    /\ undoing = 0
    /\ \E i \in DOMAIN db.revisions :
          db.revisions[i].id = Top.id /\ undoing' = i
    /\ UNCHANGED <<disk, db, tx, frames>>

\* ExeTx reverts a transaction that was refused, for its balance or its gas (gas
\* amounts are left out), and one whose call or creation failed.
RejectTx == tx.phase \in {"checking", "failed"} /\ StartUndo

\* Code runs: a frame is open and nothing is being undone.
Running == tx.phase = "running" /\ undoing = 0

\* The frame is closed without error; its revision stays in the journal.
Leave ==
    IF Len(frames) = 2
    THEN frames' = << >> /\ tx' = [tx EXCEPT !.phase = "idle"]
    ELSE frames' = SubSeq(frames, 1, Len(frames) - 1) /\ UNCHANGED tx

\* The frame of b is open until Return or Fail; a callee without code runs nothing.
Enter(s, b, create) ==
    /\ db' = s
    /\ IF create \/ HasCode(s, b)
       THEN /\ frames' = Append(frames, [id |-> s.nextRevisionId - 1, self |-> b, create |-> create])
            /\ tx' = [tx EXCEPT !.phase = "running"]
       ELSE IF tx.phase = "start"
       THEN frames' = << >> /\ tx' = [tx EXCEPT !.phase = "idle"]
       ELSE UNCHANGED <<tx, frames>>
    /\ UNCHANGED <<disk, undoing>>

IncNonce(s, a) == SetNonce(s, a, s.live.object[a].nonce + 1)

CanSnapshot == Len(frames) <= MaxDepth /\ db.nextRevisionId < MaxSnapshot /\ Room

CallFrom(s, b, v) ==
    Enter(Transfer(getOrNewStateObject(Snapshot(s), b), Top.self, b, v), b, FALSE)

\* The call of the transaction, and one made by the code of the top frame.
Call(b) ==
    /\ tx.phase = "start" /\ CanSnapshot
    /\ CallFrom(IncNonce(db, Top.self), b, tx.value)

OpCall(b, v) ==
    /\ Running /\ CanSnapshot
    /\ Balance(Top.self) >= v
    /\ CallFrom(db, b, v)

\* An account that has code, a nonce or committed storage.
Collides(s, b) ==
    LET o == s.live.object[b]
    IN  o # None /\ (o.nonce # 0 \/ o.code # NoCode
                     \/ \E k \in Key : GetCommittedState(disk, b, k) # Zero)

\* create: the new address is not one that an open call runs at.
Create(b, v) ==
    /\ Running \/ (tx.phase = "start" /\ v = tx.value)
    /\ CanSnapshot
    /\ Balance(Top.self) >= v
    /\ \A i \in DOMAIN frames : frames[i].self # b
    /\ LET s == IncNonce(db, Top.self)
           t == CreateContract(getOrNewStateObject(Snapshot(s), b), b)
       IN  IF Collides(s, b)
           THEN /\ db' = s
                /\ tx' = [tx EXCEPT !.phase = IF @ = "start" THEN "failed" ELSE @]
                /\ UNCHANGED <<disk, frames, undoing>>
           ELSE Enter(Transfer(t, Top.self, b, v), b, TRUE)

Return ==
    /\ Running
    /\ Leave
    /\ IF Top.create THEN \E c \in Code : db' = SetCode(db, Top.self, c) ELSE db' = db
    /\ UNCHANGED <<disk, undoing>>

Fail == tx.phase = "running" /\ StartUndo

UndoEntry ==
    /\ undoing # 0
    /\ Len(db.entries) > db.revisions[undoing].index
    /\ db' = UndoLast(disk, db)
    /\ UNCHANGED <<disk, tx, frames, undoing>>

\* Mutant: the revisions of enclosing calls are dropped as well.
DropAll(revisions, i) == << >>

DropRevisions(revisions, i) == SubSeq(revisions, 1, i - 1)

UndoDone ==
    /\ undoing # 0
    /\ Len(db.entries) = db.revisions[undoing].index
    /\ db' = [db EXCEPT !.revisions = DropRevisions(@, undoing)]
    /\ undoing' = 0
    /\ frames' = SubSeq(frames, 1, Len(frames) - 1)
    /\ tx' = [tx EXCEPT !.phase = CASE Len(frames) = 1 -> "idle"
                                   [] Len(frames) = 2 -> "failed"
                                   [] OTHER -> "running"]
    /\ UNCHANGED disk

Step(s) == Running /\ Room /\ db' = s /\ UNCHANGED <<disk, tx, frames, undoing>>

opSstore(k, w) == Step(SetState(disk, db, Top.self, k, w))
opTstore(k, w) == Step(SetTransientState(db, Top.self, k, w))
opLog == Step(AddLog(db, tx.n))
opSload(k) == Step(AddSlotToAccessList(db, Top.self, k))

\* The gas function touches the access list, GetBalance creates the account.
opBalance(a) == Step(getOrNewStateObject(AddAddressToAccessList(db, a), a))

\* SELFDESTRUCT ends the frame like a return without data.
opSelfdestruct6780(b) ==
    /\ Running /\ Room
    /\ LET a == Top.self
           s == Selfdestruct6780(AddBalance(SubBalance(db, a, Balance(a)), b, Balance(a)), a)
       IN  db' = IF Top.create THEN SetCode(s, a, NoCode) ELSE s
    /\ Leave
    /\ UNCHANGED <<disk, undoing>>

\* A new StateDB is opened on what was written.
Commit ==
    /\ tx.phase = "idle" /\ db.entries # << >>
    /\ disk' = [a \in Address |-> Finalise(disk, db, a)]
    /\ db' = New(disk')
    /\ UNCHANGED <<tx, frames, undoing>>

Next ==
    \/ \E a \in Sender, b \in Address, v, fee \in Amount : PlainTransfer(a, b, v, fee)
    \/ \E a \in Sender, v \in Amount : BeginTx(a, v)
    \/ AcceptTx \/ RejectTx
    \/ \E b \in Address : Call(b)
    \/ \E b \in Address, v \in Amount : OpCall(b, v) \/ Create(b, v)
    \/ Return \/ Fail \/ UndoEntry \/ UndoDone
    \/ \E k \in Key, w \in Word : opSstore(k, w) \/ opTstore(k, w)
    \/ \E k \in Key : opSload(k)
    \/ \E a \in Address : opBalance(a) \/ opSelfdestruct6780(a)
    \/ opLog
    \/ Commit

Spec == Init /\ [][Next]_vars
-----------------------------------------------------------------------------
(* Properties *)

Live == [object: [Address -> Object \cup {None}],
         transient: [Address -> [Key -> Word]], logs: [1 .. MaxTx -> Nat]]

Entry ==
    [type: {"createObject", "createContract", "selfDestruct", "code", "touch", "access"},
     account: Address]
    \cup [type: {"balance", "nonce"}, account: Address, prev: Nat]
    \cup [type: {"storage"}, account: Address, key: Key, prev: Word, origin: Word]
    \cup [type: {"transient"}, account: Address, key: Key, prev: Word]
    \cup [type: {"log"}, tx: 1 .. MaxTx]

AccessList == [addresses: SUBSET Address, slots: SUBSET (Address \X Key)]

StateDBs ==
    [live: Live, accessList: AccessList, entries: Seq(Entry),
     dirties: [Address -> Nat], nextRevisionId: Nat,
     revisions: Seq([id: Nat, index: Nat, live: Live, accessList: AccessList]),
     wide: BOOLEAN]

\* Type correctness of the StateDB struct and of the execution that uses it.
TypeOK ==
    /\ disk \in [Address -> Account \cup {None}]
    /\ db \in StateDBs
    /\ tx \in [n: 0 .. MaxTx, phase: {"idle", "checking", "start", "running", "failed"},
              value: Nat]
    /\ frames \in Seq([id: Nat, self: Address, create: BOOLEAN])
    /\ undoing \in 0 .. Len(db.revisions)

\* All entries down to the revision are undone, the revision is still there.
Undone == undoing # 0 /\ Len(db.entries) = db.revisions[undoing].index

\* The revert of ExeTx does not bring back the transient storage that Prepare
\* reset, which belongs to an earlier transaction.
Restored(l) ==
    /\ db.live.object = l.object /\ db.live.logs = l.logs
    /\ Len(frames) > 1 => db.live.transient = l.transient

\* When RevertToSnapshot has undone the journal (journal.revert), objects,
\* storage, transient storage and logs are exactly as they were when the
\* snapshot was taken, whatever calls, creations and inner reverts happened in
\* between, as long as no balance that was changed had reached 2^64.
RevertRestores == Undone /\ ~db.wide => Restored(db.revisions[undoing].live)

\* The same without the condition on balances ("RevertToSnapshot reverts all
\* state changes made since the given revision").
RevertRestoresBalances == Undone => Restored(db.revisions[undoing].live)

\* The same for the access list, which the gas functions of SLOAD and BALANCE
\* extend ("this change will be rolled back").
RevertRestoresAccessList ==
    Undone => db.accessList = db.revisions[undoing].accessList

\* The snapshot of every open call is found when it fails: revertToSnapshot
\* never panics with "revision id cannot be reverted".
OpenSnapshotsValid ==
    \A i \in DOMAIN frames :
       \E r \in DOMAIN db.revisions : db.revisions[r].id = frames[i].id

\* What a reader of the account would get, written as an account of the disk.
Reads(a) ==
    LET o == db.live.object[a]
    IN  IF o = None \/ o.selfDestructed THEN None
        ELSE [nonce |-> o.nonce, balance |-> o.balance, code |-> o.code,
              storage |-> [k \in Key |-> GetState(disk, o, a, k)]]

\* A commit writes exactly what a reader of the state saw just before it, minus
\* the accounts that were destructed: the dirty counters of the journal, kept
\* through calls and reverts, name every account that changed.  (A revert that
\* cut a balance to 64 bits leaves one that no counter names.)
CommitWritesWhatWasRead ==
    [][Commit /\ ~db.wide => disk' = [a \in Address |-> Reads(a)]]_vars
=============================================================================
