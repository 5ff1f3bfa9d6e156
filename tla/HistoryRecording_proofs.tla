------------------------ MODULE HistoryRecording_proofs ------------------------
(***************************************************************************)
(* What is recorded is sound, for any number of shells, statements that    *)
(* fail and shells that die.                                               *)
(*                                                                         *)
(* A connection is in a transaction exactly while its shell is between the *)
(* BEGIN and the COMMIT of a record.  At most one of them has written, and *)
(* while it has nobody else changes the file, so what it commits is the    *)
(* file with its own rows.  One that has only read is behind as soon as    *)
(* another commits, and then cannot write: the latest event it compared    *)
(* with is still the latest when it adds its own.                          *)
(***************************************************************************)
EXTENDS HistoryRecording, FiniteSetTheorems, TLAPS

Transitions == Alarms \cup {"recovered"}
Files == [snapshots : SUBSET Values, observations : SUBSET Values, metrics : SUBSET Values,
          tools : SUBSET Values, events : Seq(Transitions)]
Tx == [open : BOOLEAN, read : BOOLEAN, stale : BOOLEAN, wrote : BOOLEAN, view : Files]

Recordable == Values \cup Transitions \cup {Nothing}

Resting == {"idle", "deliver", "metrics"}
Writing == {"observations", "commit", "commitEvent"}
OfSnapshot == {"snapshot", "observations", "commit", "metrics"}
OfEvent == {"select", "event", "commitEvent"}
Points == Resting \cup Writing \cup OfSnapshot \cup OfEvent

Types ==
  /\ db \in Files
  /\ tx \in [Shells -> Tx]
  /\ pc \in [Shells -> Points]
  /\ doing \in [Shells -> Recordable]
  /\ written \in [Shells -> [Keys -> Values \cup {Nothing}]]

(* Where a shell is and what its transaction has done belong together.     *)
TxOf(c) ==
  /\ pc[c] \in Resting => tx[c] = Closed
  /\ pc[c] \in {"snapshot", "select"} => tx[c] = Opened
  /\ pc[c] = "event" => tx[c].read /\ ~tx[c].wrote
  /\ pc[c] \in Writing => tx[c].read /\ tx[c].wrote

(* What a shell is recording, and its view of the file.                    *)
RecordOf(c) ==
  /\ pc[c] \in OfSnapshot => doing[c] \in Values
  /\ pc[c] \in OfEvent \cup {"deliver"} => doing[c] \in Transitions
  /\ pc[c] \in OfEvent /\ doing[c] \notin Alarms => db.events # <<>>
  /\ pc[c] = "deliver" => db.events # <<>>
  /\ pc[c] = "event" /\ ~tx[c].stale => Latest(db) # doing[c]
  /\ pc[c] = "observations" =>
       tx[c].view = [db EXCEPT !.snapshots = @ \cup {doing[c]}]
  /\ pc[c] = "commit" =>
       tx[c].view = [db EXCEPT !.snapshots = @ \cup {doing[c]},
                               !.observations = @ \cup {doing[c]}]
  /\ pc[c] = "commitEvent" =>
       /\ tx[c].view = [db EXCEPT !.events = Append(@, doing[c])]
       /\ Latest(db) # doing[c]

OneWriter == \A c, d \in Shells : pc[c] \in Writing /\ pc[d] \in Writing => c = d

FileInv ==
  /\ db.snapshots = db.observations
  /\ \A i \in DOMAIN db.events \ {1} : db.events[i] # db.events[i - 1]
  /\ db.events # <<>> => db.events[1] \in Alarms

WrittenOf(c) ==
  /\ written[c]["provider"] \in db.snapshots \cup {Nothing}
  /\ written[c]["tool"] \in db.tools \cup {Nothing}

(* Every event that was announced, or is about to be, was stored.          *)
Pending == {c \in Shells : pc[c] = "deliver"}
ToldInv ==
  /\ IsFiniteSet(told)
  /\ \A t \in told : t[1] \in DOMAIN db.events
  /\ Cardinality(told) + Cardinality(Pending) <= Len(db.events)

RecordInv ==
  /\ Types /\ OneWriter /\ FileInv /\ ToldInv
  /\ \A c \in Shells : TxOf(c) /\ RecordOf(c) /\ WrittenOf(c)

-----------------------------------------------------------------------------
(* Records and their fields *)

LEMMA Constants ==
  /\ Empty \in Files /\ Closed \in Tx /\ Opened \in Tx
  /\ ~Closed.read /\ ~Closed.wrote /\ ~Closed.stale /\ ~Closed.open
  /\ ~Opened.read /\ ~Opened.wrote /\ ~Opened.stale
  /\ Nothing \notin Transitions
<1>1. Empty \in Files
  BY DEF Empty, Files
<1> HIDE DEF Empty, Files
<1>2. Closed \in Tx /\ Opened \in Tx
  BY <1>1 DEF Closed, Opened, Tx
<1> QED
  BY <1>1, <1>2 DEF Closed, Opened, Nothing, Transitions, Alarms

LEMMA WriteTx ==
  ASSUME Types, NEW c \in Shells, NEW view \in Files, Write(c, view)
  PROVE  /\ tx' \in [Shells -> Tx]
         /\ \A d \in Shells : d # c => tx'[d] = tx[d]
         /\ tx'[c].read /\ tx'[c].wrote /\ tx'[c].view = view
<1> HIDE DEF Files
<1>1. tx[c] \in Tx
  BY DEF Types
<1>2. [tx[c] EXCEPT !.read = TRUE, !.wrote = TRUE, !.view = view] \in Tx
  BY <1>1 DEF Tx
<1>3. tx' = [tx EXCEPT ![c] = [tx[c] EXCEPT !.read = TRUE, !.wrote = TRUE, !.view = view]]
  BY DEF Write, Types
<1> QED
  BY <1>1, <1>2, <1>3 DEF Types, Tx

LEMMA LatestFacts ==
  ASSUME NEW d \in Files
  PROVE  /\ d.events \in Seq(Transitions)
         /\ d.events = <<>> => Latest(d) = Nothing
         /\ d.events # <<>> => Latest(d) = d.events[Len(d.events)] /\ Latest(d) \in Transitions
BY DEF Files, Latest, Last

-----------------------------------------------------------------------------
(* Steps of one shell *)

Others(c) ==
  \A d \in Shells : d # c =>
    pc'[d] = pc[d] /\ doing'[d] = doing[d] /\ written'[d] = written[d]

LEMMA OwnStep ==
  ASSUME RecordInv, NEW c \in Shells, db' = db, Others(c),
         \A d \in Shells : d # c => tx'[d] = tx[d],
         pc'[c] \in Writing => \A d \in Shells \ {c} : pc[d] \notin Writing,
         Types', TxOf(c)', RecordOf(c)', WrittenOf(c)', ToldInv'
  PROVE  RecordInv'
<1>1. ASSUME NEW d \in Shells \ {c}
      PROVE  TxOf(d)' /\ RecordOf(d)' /\ WrittenOf(d)'
  <2>1. /\ pc'[d] = pc[d] /\ doing'[d] = doing[d] /\ written'[d] = written[d]
        /\ tx'[d] = tx[d]
        /\ TxOf(d) /\ RecordOf(d) /\ WrittenOf(d)
    BY <1>1 DEF RecordInv, Others
  <2>2. TxOf(d)'
    BY <2>1 DEF TxOf
  <2>3. RecordOf(d)'
    BY <2>1 DEF RecordOf
  <2>4. WrittenOf(d)'
    BY <2>1 DEF WrittenOf
  <2> QED
    BY <2>2, <2>3, <2>4
<1>2. OneWriter'
  BY DEF RecordInv, OneWriter, Others
<1>3. FileInv'
  BY DEF RecordInv, FileInv
<1> QED
  BY <1>1, <1>2, <1>3 DEF RecordInv

(* Who has read the file before another shell changes it is behind.        *)
Behind(d) ==
  \/ ~tx[d].read /\ tx'[d] = tx[d]
  \/ tx[d].read /\ tx'[d].read /\ tx'[d].stale /\ (tx[d].wrote \/ ~tx'[d].wrote)

LEMMA PublishStep ==
  ASSUME RecordInv, NEW c \in Shells, Others(c),
         \A d \in Shells \ {c} : pc[d] \notin Writing /\ Behind(d),
         db.snapshots \subseteq db'.snapshots, db.tools \subseteq db'.tools,
         db.events # <<>> => db'.events # <<>>,
         pc'[c] \in Resting,
         Types', FileInv', TxOf(c)', RecordOf(c)', WrittenOf(c)', ToldInv'
  PROVE  RecordInv'
<1>1. ASSUME NEW d \in Shells \ {c}
      PROVE  TxOf(d)'
  <2>1. TxOf(d) /\ pc'[d] = pc[d] /\ pc[d] \notin Writing /\ pc[d] \in Points
    BY <1>1 DEF RecordInv, Others, Types
  <2>2. pc[d] \in Resting \cup {"snapshot", "select"} => ~tx[d].read
    BY <2>1, Constants DEF TxOf
  <2>3. pc[d] \in Resting \cup {"snapshot", "select"} => tx'[d] = tx[d]
    BY <1>1, <2>2 DEF Behind
  <2> QED
    BY <1>1, <2>1, <2>3 DEF TxOf, Behind, Resting, Writing
<1>2. ASSUME NEW d \in Shells \ {c}
      PROVE  RecordOf(d)'
  <2>1. /\ RecordOf(d) /\ TxOf(d) /\ pc'[d] = pc[d] /\ doing'[d] = doing[d]
        /\ pc[d] \notin Writing
    BY <1>2 DEF RecordInv, Others
  <2>2. pc[d] = "event" => tx'[d].stale
    BY <1>2, <2>1 DEF TxOf, Behind
  <2> QED
    BY <2>1, <2>2 DEF RecordOf, Writing
<1>3. \A d \in Shells \ {c} : WrittenOf(d)'
  BY DEF RecordInv, Others, WrittenOf
<1>4. OneWriter'
  BY DEF OneWriter, Others, Resting, Writing
<1> QED
  BY <1>1, <1>2, <1>3, <1>4 DEF RecordInv

(* Nothing new is announced or about to be.                                *)
LEMMA ToldKept ==
  ASSUME IsFiniteSet(Shells), ToldInv, told' = told, Types, Types',
         Len(db.events) <= Len(db'.events), Pending' \subseteq Pending
  PROVE  ToldInv'
<1>1. IsFiniteSet(Pending)
  BY FS_Subset DEF Pending
<1>2. Cardinality(Pending') <= Cardinality(Pending) /\ Cardinality(Pending) \in Nat
      /\ Cardinality(Pending') \in Nat
  BY <1>1, FS_Subset, FS_CardinalityType
<1>3. db.events \in Seq(Transitions) /\ db'.events \in Seq(Transitions)
  BY DEF Types, Files
<1>4. DOMAIN db.events \subseteq DOMAIN db'.events
  BY <1>3
<1> DEFINE old == Cardinality(Pending) new == Cardinality(Pending')
<1>5. Cardinality(told) \in Nat /\ Cardinality(told) + old <= Len(db.events)
  BY FS_CardinalityType DEF ToldInv
<1> HIDE DEF old, new
<1>6. Cardinality(told) + new <= Len(db'.events)
  BY <1>2, <1>3, <1>5 DEF old, new
<1> QED
  BY <1>4, <1>6 DEF ToldInv, new

(* The parts of a step of c that leaves the file and what is told as they  *)
(* are: c is at another point, with another transaction and record.        *)
Moves(c, phase, t, record) ==
  /\ db' = db /\ told' = told /\ phase \in Points \ {"deliver"} /\ t \in Tx
  /\ record \in Recordable
  /\ pc' = [pc EXCEPT ![c] = phase]
  /\ tx' = [tx EXCEPT ![c] = t]
  /\ doing' = [doing EXCEPT ![c] = record]
  /\ written' = [written EXCEPT ![c] = written'[c]]
  /\ written'[c] \in {written[c], [k \in Keys |-> Nothing]}

LEMMA MovesInv ==
  ASSUME IsFiniteSet(Shells), RecordInv, NEW c \in Shells,
         NEW phase, NEW t, NEW record, Moves(c, phase, t, record),
         phase \in Writing => \A d \in Shells \ {c} : pc[d] \notin Writing,
         TxOf(c)', RecordOf(c)'
  PROVE  RecordInv'
<1>1. /\ pc' \in [Shells -> Points] /\ pc'[c] = phase
      /\ \A d \in Shells : d # c => pc'[d] = pc[d]
  BY DEF Moves, RecordInv, Types
<1>2. tx' \in [Shells -> Tx] /\ \A d \in Shells : d # c => tx'[d] = tx[d]
  BY DEF Moves, RecordInv, Types
<1>3. doing' \in [Shells -> Recordable] /\ \A d \in Shells : d # c => doing'[d] = doing[d]
  BY DEF Moves, RecordInv, Types
<1>4. /\ written' \in [Shells -> [Keys -> Values \cup {Nothing}]]
      /\ \A d \in Shells : d # c => written'[d] = written[d]
  <2>1. written'[c] \in [Keys -> Values \cup {Nothing}]
    BY DEF Moves, RecordInv, Types
  <2> QED
    BY <2>1 DEF Moves, RecordInv, Types
<1>5. Types'
  BY <1>1, <1>2, <1>3, <1>4 DEF Moves, RecordInv, Types
<1>6. WrittenOf(c)'
  BY DEF Moves, RecordInv, WrittenOf, Keys
<1>7. Pending' \subseteq Pending
  BY <1>1 DEF Pending, Moves
<1>8. ToldInv'
  <2>1. db' = db /\ told' = told
    BY DEF Moves
  <2>2. Len(db.events) <= Len(db'.events)
    BY <2>1 DEF RecordInv, Types, Files
  <2> QED
    BY <1>5, <1>7, <2>1, <2>2, ToldKept DEF RecordInv
<1>9. Others(c) /\ db' = db
  BY <1>1, <1>3, <1>4 DEF Others, Moves
<1> QED
  BY <1>1, <1>2, <1>5, <1>6, <1>8, <1>9, OwnStep

(* It is idle, and in no transaction.                                      *)
LEMMA Idles ==
  ASSUME IsFiniteSet(Shells), RecordInv, NEW c \in Shells, NEW record,
         Moves(c, "idle", Closed, record)
  PROVE  RecordInv'
<1>1. pc'[c] = "idle" /\ tx'[c] = Closed
  BY DEF Moves, RecordInv, Types
<1>2. TxOf(c)' /\ RecordOf(c)'
  BY <1>1 DEF TxOf, RecordOf, OfSnapshot, OfEvent, Writing
<1> QED
  BY <1>2, MovesInv DEF Writing

LEMMA FilesEdited ==
  ASSUME NEW d \in Files, NEW v
  PROVE  /\ v \in Values =>
              /\ [d EXCEPT !.snapshots = @ \cup {v}] \in Files
              /\ [d EXCEPT !.snapshots = @ \cup {v}, !.observations = @ \cup {v}] \in Files
              /\ [d EXCEPT !.metrics = @ \cup {v}] \in Files
              /\ [d EXCEPT !.tools = @ \cup {v}] \in Files
         /\ v \in Transitions => [d EXCEPT !.events = Append(@, v)] \in Files
<1>1. ASSUME v \in Values PROVE [d EXCEPT !.snapshots = @ \cup {v}] \in Files
  BY <1>1 DEF Files
<1>2. ASSUME v \in Values
      PROVE  [d EXCEPT !.snapshots = @ \cup {v}, !.observations = @ \cup {v}] \in Files
  BY <1>2 DEF Files
<1>3. ASSUME v \in Values PROVE [d EXCEPT !.metrics = @ \cup {v}] \in Files
  BY <1>3 DEF Files
<1>4. ASSUME v \in Values PROVE [d EXCEPT !.tools = @ \cup {v}] \in Files
  BY <1>4 DEF Files
<1>5. ASSUME v \in Transitions PROVE [d EXCEPT !.events = Append(@, v)] \in Files
  <2>1. Append(d.events, v) \in Seq(Transitions)
    BY <1>5 DEF Files
  <2> DEFINE e == Append(d.events, v)
  <2> HIDE DEF e
  <2>2. e \in Seq(Transitions) => [d EXCEPT !.events = e] \in Files
    BY DEF Files
  <2> QED
    BY <2>1, <2>2 DEF e
<1> QED
  BY <1>1, <1>2, <1>3, <1>4, <1>5

(* A statement that writes; its view is what will be committed.            *)
LEMMA WritesInv ==
  ASSUME IsFiniteSet(Shells), RecordInv, NEW c \in Shells, NEW view \in Files,
         Write(c, view), UNCHANGED <<db, told, written, doing>>,
         NEW phase \in Writing, pc' = [pc EXCEPT ![c] = phase],
         \A d \in Shells \ {c} : pc[d] \notin Writing, RecordOf(c)'
  PROVE  RecordInv'
<1>1. /\ pc' \in [Shells -> Points] /\ pc'[c] = phase
      /\ \A d \in Shells : d # c => pc'[d] = pc[d]
  BY DEF RecordInv, Types, Points
<1>2. /\ tx' \in [Shells -> Tx] /\ \A d \in Shells : d # c => tx'[d] = tx[d]
      /\ tx'[c].read /\ tx'[c].wrote
  BY WriteTx DEF RecordInv
<1>3. Types'
  BY <1>1, <1>2 DEF RecordInv, Types
<1>4. TxOf(c)'
  BY <1>1, <1>2 DEF TxOf, Writing, Resting
<1>5. WrittenOf(c)'
  BY DEF RecordInv, WrittenOf
<1>6. Pending' \subseteq Pending
  BY <1>1 DEF Pending, Writing
<1>7. ToldInv'
  <2>1. Len(db.events) <= Len(db'.events)
    BY DEF RecordInv, Types, Files
  <2> QED
    BY <1>3, <1>6, <2>1, ToldKept DEF RecordInv
<1>8. Others(c)
  BY <1>1 DEF Others
<1> QED
  BY <1>2, <1>3, <1>4, <1>5, <1>7, <1>8, OwnStep

(* Who may write is the only one that does.                                *)
LEMMA OnlyWriter ==
  ASSUME RecordInv, NEW c \in Shells, MayWrite(c) \/ pc[c] \in Writing
  PROVE  \A d \in Shells \ {c} : pc[d] \notin Writing
BY DEF RecordInv, OneWriter, TxOf, MayWrite, Wrote

-----------------------------------------------------------------------------
(* A refresh *)

LEMMA RefreshInv ==
  ASSUME IsFiniteSet(Shells), RecordInv, NEW c \in Shells, NEW v \in Values, Refresh(c, v)
  PROVE  RecordInv'
<1>1. tx[c] = Closed /\ pc[c] = "idle"
  BY DEF RecordInv, TxOf, Resting, Refresh
<1>2. written' = [written EXCEPT ![c] = written'[c]] /\ written'[c] = written[c]
  BY DEF RecordInv, Types, Refresh
<1>3. CASE Throttled(c, "provider", v)
  <2>1. tx' = [tx EXCEPT ![c] = Closed]
    BY <1>1, <1>3 DEF Refresh, RecordInv, Types
  <2>2. Moves(c, "metrics", Closed, v)
    BY <1>2, <1>3, <2>1, Constants DEF Refresh, Moves, Points, Resting, Recordable
  <2>3. pc'[c] = "metrics" /\ tx'[c] = Closed /\ doing'[c] = v
    BY <2>2 DEF Moves, RecordInv, Types
  <2>4. TxOf(c)' /\ RecordOf(c)'
    BY <2>3 DEF TxOf, RecordOf, OfSnapshot, OfEvent, Writing
  <2> QED
    BY <2>2, <2>4, MovesInv DEF Writing
<1>4. CASE ~Throttled(c, "provider", v)
  <2>1. ~tx[c].open
    BY <1>1, Constants
  <2>2. Moves(c, "snapshot", Opened, v)
    BY <1>2, <1>4, <2>1, Constants DEF Refresh, Begin, Moves, Points, OfSnapshot, Recordable
  <2>3. pc'[c] = "snapshot" /\ tx'[c] = Opened /\ doing'[c] = v
    BY <2>2 DEF Moves, RecordInv, Types
  <2>4. TxOf(c)' /\ RecordOf(c)'
    BY <2>3 DEF TxOf, RecordOf, OfSnapshot, OfEvent, Writing, Resting
  <2> QED
    BY <2>2, <2>4, MovesInv DEF Writing
<1> QED
  BY <1>3, <1>4

LEMMA InsertsInv ==
  ASSUME IsFiniteSet(Shells), RecordInv, NEW c \in Shells,
         InsertSnapshot(c) \/ InsertObservations(c)
  PROVE  RecordInv'
<1>1. db \in Files /\ TxOf(c) /\ RecordOf(c) /\ Types
  BY DEF RecordInv, Types
<1>2. CASE InsertSnapshot(c)
  <2> DEFINE view == [db EXCEPT !.snapshots = @ \cup {doing[c]}]
  <2>1. pc[c] = "snapshot" /\ doing[c] \in Values /\ ~Wrote(c)
    BY <1>1, <1>2, Constants DEF InsertSnapshot, TxOf, RecordOf, OfSnapshot, Wrote
  <2>2. view \in Files
    BY <1>1, <2>1, FilesEdited
  <2>3. /\ Write(c, view) /\ UNCHANGED <<db, told, written, doing>>
        /\ pc' = [pc EXCEPT ![c] = "observations"]
        /\ \A d \in Shells \ {c} : pc[d] \notin Writing
    BY <1>2, <2>1, OnlyWriter DEF InsertSnapshot, View
  <2>4. tx'[c].view = view /\ pc'[c] = "observations"
    BY <1>1, <2>2, <2>3, WriteTx DEF Types
  <2>5. RecordOf(c)'
    BY <2>1, <2>3, <2>4 DEF RecordOf, OfSnapshot, OfEvent
  <2> HIDE DEF view
  <2> QED
    BY <2>2, <2>3, <2>5, WritesInv DEF Writing
<1>3. CASE InsertObservations(c)
  <2> DEFINE view == [db EXCEPT !.snapshots = @ \cup {doing[c]},
                                !.observations = @ \cup {doing[c]}]
  <2>1. /\ pc[c] = "observations" /\ doing[c] \in Values /\ Wrote(c)
        /\ tx[c].view = [db EXCEPT !.snapshots = @ \cup {doing[c]}]
    BY <1>1, <1>3 DEF InsertObservations, TxOf, RecordOf, OfSnapshot, Wrote, Writing
  <2>2. view \in Files
    BY <1>1, <2>1, FilesEdited
  <2>3. [View(c) EXCEPT !.observations = @ \cup {doing[c]}] = view
    BY <1>1, <2>1 DEF View, Files
  <2>4. /\ Write(c, view) /\ UNCHANGED <<db, told, written, doing>>
        /\ pc' = [pc EXCEPT ![c] = "commit"]
        /\ \A d \in Shells \ {c} : pc[d] \notin Writing
    BY <1>3, <2>1, <2>3, OnlyWriter DEF InsertObservations, Writing
  <2>5. tx'[c].view = view /\ pc'[c] = "commit"
    BY <1>1, <2>2, <2>4, WriteTx DEF Types
  <2>6. RecordOf(c)'
    BY <2>1, <2>4, <2>5 DEF RecordOf, OfSnapshot, OfEvent
  <2> HIDE DEF view
  <2> QED
    BY <2>2, <2>4, <2>6, WritesInv DEF Writing
<1> QED
  BY <1>2, <1>3

LEMMA SnapshotFailsInv ==
  ASSUME IsFiniteSet(Shells), RecordInv, NEW c \in Shells, SnapshotFails(c)
  PROVE  RecordInv'
<1>1. doing[c] \in Values
  BY DEF RecordInv, RecordOf, OfSnapshot, SnapshotFails
<1>2. Moves(c, "metrics", Closed, doing[c])
  BY Constants DEF SnapshotFails, Rollback, Moves, Points, Resting, RecordInv, Types
<1>3. pc'[c] = "metrics" /\ tx'[c] = Closed /\ doing'[c] = doing[c]
  BY <1>2 DEF Moves, RecordInv, Types
<1>4. TxOf(c)' /\ RecordOf(c)'
  BY <1>1, <1>3 DEF TxOf, RecordOf, OfSnapshot, OfEvent, Writing
<1> QED
  BY <1>2, <1>4, MovesInv DEF Writing

(* What a commit, or a statement outside a transaction, does to the        *)
(* transactions.                                                           *)
LEMMA CommitTx ==
  ASSUME Types, NEW c \in Shells, Commit(c)
  PROVE  /\ tx' \in [Shells -> Tx] /\ tx'[c] = Closed
         /\ \A d \in Shells \ {c} : Behind(d)
<1>1. \A d \in Shells : [tx[d] EXCEPT !.stale = TRUE] \in Tx
  BY DEF Types, Tx
<1>2. tx' \in [Shells -> Tx] /\ tx'[c] = Closed
  BY <1>1, Constants DEF Commit, Types
<1>3. ASSUME NEW d \in Shells \ {c} PROVE Behind(d)
  <2>1. tx[d] \in Tx
    BY DEF Types
  <2>2. CASE tx[d].read
    <3>1. tx'[d] = [tx[d] EXCEPT !.stale = TRUE]
      BY <1>3, <2>2 DEF Commit
    <3> QED
      BY <2>1, <2>2, <3>1 DEF Behind, Tx
  <2>3. CASE ~tx[d].read
    BY <1>3, <2>3 DEF Commit, Behind
  <2> QED
    BY <2>2, <2>3
<1> QED
  BY <1>2, <1>3

LEMMA StatementTx ==
  ASSUME RecordInv, NEW c \in Shells, tx[c] = Closed,
         \A d \in Shells \ {c} : pc[d] \notin Writing,
         tx' = [d \in Shells |-> [tx[d] EXCEPT !.stale = tx[d].read]]
  PROVE  /\ tx' \in [Shells -> Tx] /\ tx'[c] = Closed
         /\ \A d \in Shells \ {c} : Behind(d)
<1>1. [Closed EXCEPT !.stale = Closed.read] = Closed
      /\ [Opened EXCEPT !.stale = Opened.read] = Opened
  <2>1. ASSUME NEW t \in Tx, t.stale = FALSE, t.read = FALSE
        PROVE  [t EXCEPT !.stale = t.read] = t
    <3>1. [t EXCEPT !.stale = t.stale] = t
      BY DEF Tx
    <3> QED
      BY <2>1, <3>1
  <2>2. Closed.stale = FALSE /\ Closed.read = FALSE
    BY DEF Closed
  <2>3. Opened.stale = FALSE /\ Opened.read = FALSE
    BY DEF Closed, Opened
  <2> QED
    BY <2>1, <2>2, <2>3, Constants
<1>2. \A d \in Shells : [tx[d] EXCEPT !.stale = tx[d].read] \in Tx
  BY DEF RecordInv, Types, Tx
<1>3. tx' \in [Shells -> Tx] /\ tx'[c] = Closed
  BY <1>1, <1>2
<1>4. ASSUME NEW d \in Shells \ {c} PROVE Behind(d)
  <2>1. tx[d] \in Tx /\ tx'[d] = [tx[d] EXCEPT !.stale = tx[d].read]
    BY DEF RecordInv, Types
  <2>2. tx[d] \in {Closed, Opened} \/ (tx[d].read /\ ~tx[d].wrote)
    BY DEF RecordInv, Types, TxOf, Points, Resting, Writing, OfSnapshot, OfEvent
  <2>3. CASE tx[d] \in {Closed, Opened}
    BY <1>1, <2>1, <2>3, Constants DEF Behind
  <2>4. CASE tx[d].read /\ ~tx[d].wrote
    BY <2>1, <2>4 DEF Behind, Tx
  <2> QED
    BY <2>2, <2>3, <2>4
<1> QED
  BY <1>3, <1>4

(* The parts of a step of c that changes the file and is in no transaction *)
(* afterwards, and that adds no event.                                     *)
LEMMA StoresInv ==
  ASSUME IsFiniteSet(Shells), RecordInv, NEW c \in Shells,
         \A d \in Shells \ {c} : pc[d] \notin Writing /\ Behind(d),
         tx' \in [Shells -> Tx], tx'[c] = Closed, told' = told,
         db' \in Files, db'.events = db.events, db'.snapshots = db'.observations,
         db.snapshots \subseteq db'.snapshots, db.tools \subseteq db'.tools,
         NEW phase \in {"idle", "metrics"}, pc' = [pc EXCEPT ![c] = phase],
         NEW record \in Recordable, doing' = [doing EXCEPT ![c] = record],
         phase = "metrics" => record \in Values,
         NEW w \in [Keys -> Values \cup {Nothing}], written' = [written EXCEPT ![c] = w],
         w["provider"] \in db'.snapshots \cup {Nothing}, w["tool"] \in db'.tools \cup {Nothing}
  PROVE  RecordInv'
<1>1. /\ pc' \in [Shells -> Points] /\ pc'[c] = phase
      /\ \A d \in Shells : d # c => pc'[d] = pc[d]
  BY DEF RecordInv, Types, Points, Resting
<1>2. /\ doing' \in [Shells -> Recordable] /\ doing'[c] = record
      /\ written' \in [Shells -> [Keys -> Values \cup {Nothing}]] /\ written'[c] = w
      /\ Others(c)
  BY <1>1 DEF RecordInv, Types, Others
<1>3. Types'
  BY <1>1, <1>2 DEF Types
<1>4. TxOf(c)' /\ RecordOf(c)'
  BY <1>1, <1>2 DEF TxOf, RecordOf, OfSnapshot, OfEvent, Writing
<1>5. WrittenOf(c)'
  BY <1>2 DEF WrittenOf
<1>6. FileInv'
  BY DEF RecordInv, FileInv
<1>7. ToldInv'
  <2>1. Pending' \subseteq Pending
    BY <1>1 DEF Pending
  <2>2. Len(db.events) <= Len(db'.events)
    BY DEF RecordInv, Types, Files
  <2> QED
    BY <1>3, <2>1, <2>2, ToldKept DEF RecordInv
<1> QED
  BY <1>1, <1>2, <1>3, <1>4, <1>5, <1>6, <1>7, PublishStep DEF Resting

LEMMA CommitSnapshotInv ==
  ASSUME IsFiniteSet(Shells), RecordInv, NEW c \in Shells, CommitSnapshot(c)
  PROVE  RecordInv'
<1> DEFINE view == [db EXCEPT !.snapshots = @ \cup {doing[c]},
                              !.observations = @ \cup {doing[c]}]
           w == [written[c] EXCEPT !["provider"] = doing[c]]
<1>1. /\ pc[c] = "commit" /\ doing[c] \in Values /\ Wrote(c)
      /\ tx[c].view = view /\ db \in Files
  BY DEF CommitSnapshot, RecordInv, Types, TxOf, RecordOf, OfSnapshot, Wrote, Writing
<1>2. view \in Files
  BY <1>1, FilesEdited
<1>3. /\ view.snapshots = db.snapshots \cup {doing[c]}
      /\ view.observations = db.observations \cup {doing[c]}
      /\ view.events = db.events /\ view.tools = db.tools
  BY <1>1 DEF Files
<1>4. db' = view
  BY <1>1 DEF CommitSnapshot, Commit, View
<1>5. /\ tx' \in [Shells -> Tx] /\ tx'[c] = Closed
      /\ \A d \in Shells \ {c} : pc[d] \notin Writing /\ Behind(d)
  BY <1>1, CommitTx, OnlyWriter DEF CommitSnapshot, RecordInv, Writing
<1>6. written' = [written EXCEPT ![c] = w] /\ w \in [Keys -> Values \cup {Nothing}]
  BY <1>1 DEF CommitSnapshot, RecordInv, Types, Keys
<1>7. w["provider"] = doing[c] /\ w["tool"] = written[c]["tool"]
  BY DEF RecordInv, Types, Keys
<1>8. written[c]["tool"] \in db.tools \cup {Nothing} /\ db.snapshots = db.observations
  BY DEF RecordInv, WrittenOf, FileInv
<1>9. doing' = [doing EXCEPT ![c] = doing[c]] /\ doing[c] \in Recordable
      /\ told' = told /\ pc' = [pc EXCEPT ![c] = "metrics"]
  BY DEF CommitSnapshot, RecordInv, Types
<1> HIDE DEF view, w
<1> QED
  BY <1>1, <1>2, <1>3, <1>4, <1>5, <1>6, <1>7, <1>8, <1>9, StoresInv

LEMMA RecordMetricsInv ==
  ASSUME IsFiniteSet(Shells), RecordInv, NEW c \in Shells, RecordMetrics(c)
  PROVE  RecordInv'
<1>1. tx[c] = Closed /\ ~tx[c].open /\ doing[c] \in Values /\ db \in Files
  BY Constants DEF RecordMetrics, RecordInv, TxOf, RecordOf, Types, Resting, OfSnapshot
<1>2. /\ pc' = [pc EXCEPT ![c] = "idle"] /\ doing' = [doing EXCEPT ![c] = Nothing]
      /\ told' = told /\ written' = [written EXCEPT ![c] = written[c]]
      /\ Nothing \in Recordable /\ written[c] \in [Keys -> Values \cup {Nothing}]
      /\ written' = written
  BY DEF RecordMetrics, RecordInv, Types, Recordable
<1>3. CASE UNCHANGED <<db, tx>>
  <2>1. Moves(c, "idle", Closed, Nothing)
    BY <1>1, <1>2, <1>3, Constants DEF Moves, Points, Resting, RecordInv, Types
  <2> QED
    BY <2>1, Idles
<1>4. CASE /\ MayWrite(c)
           /\ db' = [db EXCEPT !.metrics = @ \cup {doing[c]}]
           /\ tx' = [d \in Shells |-> [tx[d] EXCEPT !.stale = tx[d].read]]
  <2>1. /\ tx' \in [Shells -> Tx] /\ tx'[c] = Closed
        /\ \A d \in Shells \ {c} : pc[d] \notin Writing /\ Behind(d)
    BY <1>1, <1>4, OnlyWriter, StatementTx
  <2>2. db' \in Files
    BY <1>1, <1>4, FilesEdited
  <2>3. /\ db'.events = db.events /\ db'.snapshots = db.snapshots
        /\ db'.observations = db.observations /\ db'.tools = db.tools
    BY <1>1, <1>4 DEF Files
  <2>4. WrittenOf(c) /\ db.snapshots = db.observations
    BY DEF RecordInv, FileInv
  <2> QED
    BY <1>2, <2>1, <2>2, <2>3, <2>4, StoresInv DEF WrittenOf
<1> QED
  BY <1>1, <1>3, <1>4 DEF RecordMetrics

LEMMA RecordToolInv ==
  ASSUME IsFiniteSet(Shells), RecordInv, NEW c \in Shells, NEW v \in Values, RecordTool(c, v)
  PROVE  RecordInv'
<1>1. tx[c] = Closed /\ ~tx[c].open /\ ~Wrote(c) /\ db \in Files /\ pc[c] = "idle"
  BY Constants DEF RecordTool, RecordInv, TxOf, Types, Resting, Wrote
<1>2. /\ pc' = [pc EXCEPT ![c] = "idle"] /\ doing' = [doing EXCEPT ![c] = doing[c]]
      /\ told' = told /\ doing[c] \in Recordable
  BY <1>1 DEF RecordTool, RecordInv, Types
<1>3. CASE UNCHANGED <<db, tx, written>>
  <2>1. Moves(c, "idle", Closed, doing[c])
    BY <1>1, <1>2, <1>3, Constants DEF Moves, Points, Resting, RecordInv, Types
  <2> QED
    BY <2>1, Idles
<1>4. CASE /\ MayWrite(c)
           /\ db' = [db EXCEPT !.tools = @ \cup {v}]
           /\ tx' = [d \in Shells |-> [tx[d] EXCEPT !.stale = tx[d].read]]
           /\ written' = [written EXCEPT ![c]["tool"] = v]
  <2> DEFINE w == [written[c] EXCEPT !["tool"] = v]
  <2>1. /\ tx' \in [Shells -> Tx] /\ tx'[c] = Closed
        /\ \A d \in Shells \ {c} : pc[d] \notin Writing /\ Behind(d)
    BY <1>1, <1>4, OnlyWriter, StatementTx
  <2>2. db' \in Files
    BY <1>1, <1>4, FilesEdited
  <2>3. /\ db'.events = db.events /\ db'.snapshots = db.snapshots
        /\ db'.observations = db.observations /\ db'.tools = db.tools \cup {v}
    BY <1>1, <1>4 DEF Files
  <2>4. WrittenOf(c) /\ db.snapshots = db.observations
    BY DEF RecordInv, FileInv
  <2>5. written' = [written EXCEPT ![c] = w] /\ w \in [Keys -> Values \cup {Nothing}]
    BY <1>4 DEF RecordInv, Types, Keys
  <2>6. w["tool"] = v /\ w["provider"] = written[c]["provider"]
    BY DEF RecordInv, Types, Keys
  <2> HIDE DEF w
  <2> QED
    BY <1>2, <2>1, <2>2, <2>3, <2>4, <2>5, <2>6, StoresInv DEF WrittenOf
<1> QED
  BY <1>1, <1>3, <1>4 DEF RecordTool, View

-----------------------------------------------------------------------------
(* A forecast *)

LEMMA ProcessInv ==
  ASSUME IsFiniteSet(Shells), RecordInv, NEW c \in Shells, Process(c)
  PROVE  RecordInv'
<1> DEFINE record == Transition(c)
<1>1. db \in Files
  BY DEF RecordInv, Types
<1>2. record \in Transitions /\ (record \notin Alarms => db.events # <<>>)
  BY <1>1, LatestFacts DEF Process, Transition, Transitions, Nothing, Alarms
<1> HIDE DEF record
<1>3. Moves(c, "select", Opened, record)
  BY <1>2, Constants
  DEF Process, Begin, Moves, Points, OfEvent, Recordable, RecordInv, Types, record
<1>4. pc'[c] = "select" /\ tx'[c] = Opened /\ doing'[c] = record /\ db' = db
  BY <1>3 DEF Moves, RecordInv, Types
<1>5. TxOf(c)'
  BY <1>4 DEF TxOf, Writing, Resting
<1>6. RecordOf(c)'
  BY <1>2, <1>4 DEF RecordOf, OfSnapshot
<1> QED
  BY <1>3, <1>5, <1>6, MovesInv DEF Writing

LEMMA RefusedInv ==
  ASSUME IsFiniteSet(Shells), RecordInv, NEW c \in Shells, Refused(c)
  PROVE  RecordInv'
<1>1. Moves(c, "idle", Closed, Nothing)
  BY Constants
  DEF Refused, Rollback, Moves, Points, Resting, Recordable, RecordInv, Types
<1> QED
  BY <1>1, Idles

LEMMA SelectInv ==
  ASSUME IsFiniteSet(Shells), RecordInv, NEW c \in Shells, Select(c)
  PROVE  RecordInv'
<1>1. CASE Refused(c)
  BY <1>1, RefusedInv
<1>2. CASE ~Refused(c)
  <2> DEFINE t == [tx[c] EXCEPT !.read = TRUE]
  <2>1. /\ pc[c] = "select" /\ Latest(db) # doing[c] /\ tx[c] \in Tx /\ ~tx[c].wrote
        /\ RecordOf(c) /\ doing[c] \in Recordable
    BY <1>2, Constants DEF Select, RecordInv, Types, TxOf
  <2>2. t \in Tx /\ t.read /\ ~t.wrote
    BY <2>1 DEF Tx
  <2>3. tx' = [tx EXCEPT ![c] = t]
    BY <1>2 DEF Select, RecordInv, Types
  <2> HIDE DEF t
  <2>4. Moves(c, "event", t, doing[c])
    BY <1>2, <2>1, <2>2, <2>3 DEF Select, Moves, Points, OfEvent, RecordInv, Types
  <2>5. pc'[c] = "event" /\ tx'[c] = t /\ doing'[c] = doing[c] /\ db' = db
    BY <2>4 DEF Moves, RecordInv, Types
  <2>6. TxOf(c)'
    BY <2>2, <2>5 DEF TxOf, Writing, Resting
  <2>7. RecordOf(c)'
    BY <2>1, <2>5 DEF RecordOf, OfSnapshot, OfEvent
  <2> QED
    BY <2>4, <2>6, <2>7, MovesInv DEF Writing
<1> QED
  BY <1>1, <1>2

LEMMA InsertEventInv ==
  ASSUME IsFiniteSet(Shells), RecordInv, NEW c \in Shells, InsertEvent(c)
  PROVE  RecordInv'
<1> DEFINE view == [db EXCEPT !.events = Append(@, doing[c])]
<1>1. /\ pc[c] = "event" /\ ~tx[c].stale /\ ~Wrote(c) /\ MayWrite(c) /\ RecordOf(c)
      /\ db \in Files /\ Types
  BY DEF InsertEvent, MayWrite, RecordInv, Types, TxOf, Wrote
<1>2. doing[c] \in Transitions /\ Latest(db) # doing[c]
  BY <1>1 DEF RecordOf, OfEvent
<1>3. view \in Files
  BY <1>1, <1>2, FilesEdited
<1>4. /\ Write(c, view) /\ UNCHANGED <<db, told, written, doing>>
      /\ pc' = [pc EXCEPT ![c] = "commitEvent"]
      /\ \A d \in Shells \ {c} : pc[d] \notin Writing
  BY <1>1, OnlyWriter DEF InsertEvent, View
<1>5. tx'[c].view = view /\ pc'[c] = "commitEvent"
  BY <1>1, <1>3, <1>4, WriteTx DEF Types
<1>6. RecordOf(c)'
  BY <1>1, <1>2, <1>4, <1>5 DEF RecordOf, OfSnapshot, OfEvent
<1> HIDE DEF view
<1> QED
  BY <1>3, <1>4, <1>6, WritesInv DEF Writing

(* The stored event differs from the one before, and the first of all is   *)
(* an alarm.                                                               *)
LEMMA CommitEventInv ==
  ASSUME IsFiniteSet(Shells), RecordInv, NEW c \in Shells, CommitEvent(c)
  PROVE  RecordInv'
<1> DEFINE new == Append(db.events, doing[c])
<1>1. /\ pc[c] = "commitEvent" /\ RecordOf(c) /\ Wrote(c) /\ db \in Files /\ Types
      /\ FileInv /\ ToldInv
  BY DEF CommitEvent, RecordInv, Types, TxOf, Wrote, Writing
<1>2. /\ doing[c] \in Transitions /\ Latest(db) # doing[c]
      /\ doing[c] \notin Alarms => db.events # <<>>
      /\ db' = [db EXCEPT !.events = new]
  BY <1>1 DEF RecordOf, OfEvent, CommitEvent, Commit, View
<1>3. db.events \in Seq(Transitions) /\ db' \in Files
  BY <1>1, <1>2, FilesEdited DEF Files
<1>4. /\ Len(new) = Len(db.events) + 1 /\ DOMAIN new = 1 .. Len(db.events) + 1
      /\ DOMAIN db.events = 1 .. Len(db.events) /\ Len(db.events) \in Nat
      /\ \A i \in 1 .. Len(db.events) : new[i] = db.events[i]
      /\ new[Len(db.events) + 1] = doing[c]
      /\ db.events # <<>> <=> Len(db.events) # 0
  BY <1>2, <1>3
<1>5. /\ db'.events = new /\ db'.snapshots = db.snapshots
      /\ db'.observations = db.observations /\ db'.tools = db.tools
  BY <1>1, <1>2 DEF Files
<1> HIDE DEF new
<1>6. new # <<>>
  BY <1>3, <1>4, <1>5 DEF Files
<1>7. FileInv'
  <2>1. ASSUME NEW i \in DOMAIN new \ {1}
        PROVE  new[i] # new[i - 1]
    <3>1. CASE i = Len(db.events) + 1
      <4>1. db.events # <<>> /\ new[i - 1] = db.events[Len(db.events)] /\ new[i] = doing[c]
        BY <1>4, <2>1, <3>1
      <4> QED
        BY <1>1, <1>2, <4>1, LatestFacts
    <3>2. CASE i # Len(db.events) + 1
      <4>1. /\ i \in DOMAIN db.events \ {1}
            /\ new[i] = db.events[i] /\ new[i - 1] = db.events[i - 1]
        BY <1>4, <2>1, <3>2
      <4> QED
        BY <1>1, <4>1 DEF FileInv
    <3> QED
      BY <3>1, <3>2
  <2>2. new[1] \in Alarms
    <3>1. CASE db.events = <<>>
      BY <1>2, <1>4, <3>1
    <3>2. CASE db.events # <<>>
      BY <1>1, <1>4, <3>2 DEF FileInv
    <3> QED
      BY <3>1, <3>2
  <2>3. db'.snapshots = db'.observations
    BY <1>1, <1>5 DEF FileInv
  <2> QED
    BY <1>5, <2>1, <2>2, <2>3 DEF FileInv
<1>8. /\ tx' \in [Shells -> Tx] /\ tx'[c] = Closed
      /\ \A d \in Shells \ {c} : pc[d] \notin Writing /\ Behind(d)
  BY <1>1, CommitTx, OnlyWriter DEF CommitEvent, RecordInv, Writing
<1>9. /\ pc' \in [Shells -> Points] /\ pc'[c] = "deliver"
      /\ \A d \in Shells : d # c => pc'[d] = pc[d]
      /\ UNCHANGED <<doing, written, told>>
  BY <1>1 DEF CommitEvent, Types, Points, Resting
<1>10. Types' /\ Others(c)
  BY <1>1, <1>3, <1>8, <1>9 DEF Types, Others
<1>11. TxOf(c)' /\ RecordOf(c)'
  BY <1>2, <1>5, <1>6, <1>8, <1>9 DEF TxOf, RecordOf, OfSnapshot, OfEvent, Writing
<1>12. WrittenOf(c)'
  BY <1>5, <1>9 DEF RecordInv, WrittenOf
<1>13. ToldInv'
  <2>1. IsFiniteSet(Pending) /\ c \notin Pending /\ Pending' = Pending \cup {c}
    BY <1>1, <1>9, FS_Subset DEF Pending
  <2>2. Cardinality(Pending') = Cardinality(Pending) + 1
    BY <2>1, FS_AddElement
  <2>3. Cardinality(told) + Cardinality(Pending) <= Len(db.events)
        /\ Cardinality(told) \in Nat /\ Cardinality(Pending) \in Nat
    BY <1>1, <2>1, FS_CardinalityType DEF ToldInv
  <2> DEFINE old == Cardinality(Pending) next == Cardinality(Pending')
  <2> HIDE DEF old, next
  <2>4. Cardinality(told) + next <= Len(new)
    BY <1>4, <2>2, <2>3 DEF old, next
  <2>5. \A t \in told : t[1] \in DOMAIN new
    BY <1>1, <1>4 DEF ToldInv
  <2> QED
    BY <1>1, <1>5, <1>9, <2>4, <2>5 DEF ToldInv, next
<1>14. db.events # <<>> => db'.events # <<>>
  BY <1>5, <1>6
<1> QED
  BY <1>5, <1>7, <1>8, <1>9, <1>10, <1>11, <1>12, <1>13, <1>14, PublishStep DEF Resting

LEMMA EventFailsInv ==
  ASSUME IsFiniteSet(Shells), RecordInv, NEW c \in Shells, EventFails(c)
  PROVE  RecordInv'
BY RefusedInv DEF EventFails

LEMMA DeliverInv ==
  ASSUME IsFiniteSet(Shells), RecordInv, NEW c \in Shells, Deliver(c)
  PROVE  RecordInv'
<1> DEFINE t == <<Len(db.events), doing[c], c>>
<1>1. /\ pc[c] = "deliver" /\ RecordOf(c) /\ tx[c] = Closed /\ Types /\ ToldInv
      /\ UNCHANGED <<db, tx, written>> /\ told' = told \cup {t}
  BY DEF Deliver, RecordInv, TxOf, Resting
<1>2. db.events \in Seq(Transitions) /\ db.events # <<>>
  BY <1>1 DEF Types, Files, RecordOf
<1>3. /\ pc' \in [Shells -> Points] /\ pc'[c] = "idle"
      /\ \A d \in Shells : d # c => pc'[d] = pc[d]
      /\ doing' \in [Shells -> Recordable]
      /\ \A d \in Shells : d # c => doing'[d] = doing[d]
  BY <1>1 DEF Deliver, Types, Points, Resting, Recordable
<1>4. Types' /\ Others(c)
  BY <1>1, <1>3 DEF Types, Others
<1>5. TxOf(c)' /\ RecordOf(c)' /\ WrittenOf(c)'
  BY <1>1, <1>3 DEF TxOf, RecordOf, OfSnapshot, OfEvent, Writing, RecordInv, WrittenOf
<1>6. ToldInv'
  <2>1. /\ IsFiniteSet(Pending) /\ c \in Pending /\ Pending' = Pending \ {c}
    BY <1>1, <1>3, FS_Subset DEF Pending
  <2>2. Cardinality(Pending') = Cardinality(Pending) - 1 /\ Cardinality(Pending) \in Nat
    BY <2>1, FS_RemoveElement, FS_CardinalityType
  <2>3. /\ IsFiniteSet(told') /\ Cardinality(told) \in Nat /\ Cardinality(told') \in Nat
        /\ Cardinality(told') <= Cardinality(told) + 1
    <3>1. IsFiniteSet(told)
      BY <1>1 DEF ToldInv
    <3> HIDE DEF t
    <3>2. told' = told \cup {t}
      BY <1>1
    <3>3. CASE t \in told
      <4>1. told' = told
        BY <3>2, <3>3
      <4> QED
        BY <3>1, <4>1, FS_CardinalityType
    <3>4. CASE t \notin told
      <4>1. /\ IsFiniteSet(told')
            /\ Cardinality(told') = Cardinality(told) + 1
        BY <3>1, <3>2, <3>4, FS_AddElement
      <4> QED
        BY <3>1, <4>1, FS_CardinalityType
    <3> QED
      BY <3>3, <3>4
  <2>4. Cardinality(told) + Cardinality(Pending) <= Len(db.events)
    BY <1>1 DEF ToldInv
  <2> DEFINE old == Cardinality(Pending) next == Cardinality(Pending')
             before == Cardinality(told) after == Cardinality(told')
  <2> HIDE DEF old, next, before, after
  <2>5. after + next <= Len(db.events)
    BY <1>2, <2>2, <2>3, <2>4 DEF old, next, before, after
  <2>6. t[1] \in DOMAIN db.events
    BY <1>2
  <2> HIDE DEF t
  <2>7. \A u \in told' : u[1] \in DOMAIN db'.events
    BY <1>1, <2>6 DEF ToldInv
  <2> QED
    BY <1>1, <2>3, <2>5, <2>7 DEF ToldInv, after, next
<1> QED
  BY <1>1, <1>3, <1>4, <1>5, <1>6, OwnStep DEF Writing

LEMMA RestartInv ==
  ASSUME IsFiniteSet(Shells), RecordInv, NEW c \in Shells, Restart(c)
  PROVE  RecordInv'
<1>1. Moves(c, "idle", Closed, Nothing)
  BY Constants
  DEF Restart, Rollback, Moves, Points, Resting, Recordable, RecordInv, Types
<1> QED
  BY <1>1, Idles

LEMMA RecordsKept ==
  ASSUME RecordInv, UNCHANGED <<db, tx, pc, doing, written, told>>
  PROVE  RecordInv'
<1>1. Types' /\ OneWriter' /\ FileInv'
  BY DEF RecordInv, Types, OneWriter, FileInv
<1>2. Pending' = Pending
  BY DEF Pending
<1>3. ToldInv'
  BY <1>2 DEF RecordInv, ToldInv
<1>4. ASSUME NEW c \in Shells
      PROVE  TxOf(c)' /\ RecordOf(c)' /\ WrittenOf(c)'
  <2>1. TxOf(c) /\ RecordOf(c) /\ WrittenOf(c)
    BY DEF RecordInv
  <2>2. TxOf(c)'
    BY <2>1 DEF TxOf
  <2>3. RecordOf(c)'
    BY <2>1 DEF RecordOf
  <2>4. WrittenOf(c)'
    BY <2>1 DEF WrittenOf
  <2> QED
    BY <2>2, <2>3, <2>4
<1> QED
  BY <1>1, <1>3, <1>4 DEF RecordInv

LEMMA InitInv ==
  ASSUME IsFiniteSet(Shells), Init
  PROVE  RecordInv
<1>1. Types
  BY Constants DEF Init, Types, Points, Resting, Recordable
<1>2. /\ db.snapshots = {} /\ db.observations = {} /\ db.events = <<>> /\ db.tools = {}
      /\ told = {} /\ Pending = {}
  BY DEF Init, Empty, Pending
<1>3. OneWriter /\ \A c \in Shells : TxOf(c) /\ RecordOf(c)
  BY DEF Init, OneWriter, TxOf, RecordOf, Writing, Resting, OfSnapshot, OfEvent
<1>4. \A c \in Shells : WrittenOf(c)
  BY DEF Init, WrittenOf, Keys
<1>5. FileInv
  BY <1>2 DEF FileInv
<1>6. ToldInv
  BY <1>2, FS_EmptySet DEF ToldInv
<1> QED
  BY <1>1, <1>3, <1>4, <1>5, <1>6 DEF RecordInv

LEMMA StepInv ==
  ASSUME IsFiniteSet(Shells), RecordInv, [Next]_vars
  PROVE  RecordInv'
<1>1. ASSUME NEW c \in Shells, NEW v \in Values, Refresh(c, v)
      PROVE  RecordInv'
  BY <1>1, RefreshInv
<1>2. ASSUME NEW c \in Shells, NEW v \in Values, RecordTool(c, v)
      PROVE  RecordInv'
  BY <1>2, RecordToolInv
<1>3. ASSUME NEW c \in Shells, Process(c)
      PROVE  RecordInv'
  BY <1>3, ProcessInv
<1>4. ASSUME NEW c \in Shells, Step(c)
      PROVE  RecordInv'
  BY <1>4, InsertsInv, SnapshotFailsInv, CommitSnapshotInv,
     RecordMetricsInv, SelectInv, InsertEventInv, CommitEventInv, EventFailsInv, DeliverInv
     DEF Step
<1>5. ASSUME NEW c \in Shells, Restart(c)
      PROVE  RecordInv'
  BY <1>5, RestartInv
<1>6. ASSUME NEW c \in Shells, Forecast(c) \/ MinutePasses(c) \/ CooldownEnds(c)
      PROVE  RecordInv'
  BY <1>6, RecordsKept DEF Forecast, MinutePasses, CooldownEnds
<1>7. ASSUME NEW s \in States, OutlookChanges(s)
      PROVE  RecordInv'
  BY <1>7, RecordsKept DEF OutlookChanges
<1>8. CASE Quiet \/ QuietEnds \/ UNCHANGED vars
  BY <1>8, RecordsKept DEF Quiet, QuietEnds, vars
<1> QED
  BY <1>1, <1>2, <1>3, <1>4, <1>5, <1>6, <1>7, <1>8 DEF Next

LEMMA InvIsSound ==
  ASSUME IsFiniteSet(Shells), RecordInv
  PROVE  RecordsAreSound
<1>1. NoTransactionLeft
  BY DEF RecordInv, TxOf, NoTransactionLeft, Resting
<1>2. SnapshotsAreWhole
  BY DEF RecordInv, FileInv, WrittenOf, SnapshotsAreWhole
<1>3. TransitionsAlternate
  <2>1. Pending \subseteq Shells /\ db.events \in Seq(Transitions)
    BY DEF Pending, RecordInv, Types, Files
  <2>2. /\ Cardinality(told) \in Nat /\ Cardinality(Pending) \in Nat
        /\ Len(db.events) \in Nat
    BY <2>1, FS_Subset, FS_CardinalityType DEF RecordInv, ToldInv
  <2>3. Cardinality(told) + Cardinality(Pending) <= Len(db.events)
    BY DEF RecordInv, ToldInv
  <2>4. Cardinality(told) <= Len(db.events)
    BY <2>2, <2>3
  <2> QED
    BY <2>4 DEF RecordInv, FileInv, ToldInv, TransitionsAlternate
<1> QED
  BY <1>1, <1>2, <1>3 DEF RecordsAreSound

(* However many shells record, whichever statements fail and whichever of  *)
(* the shells die: a snapshot is stored whole, what is taken for written   *)
(* is in the file, no connection rests in a transaction, and the stored    *)
(* transitions of a forecast alternate and are announced once each, after  *)
(* they were stored (usagedatabase.cpp, recordSnapshot and                 *)
(* recordGuardrailTransition; NotificationController.qml,                  *)
(* processGuardrail).                                                      *)
THEOREM RecordsStaySound ==
  ASSUME IsFiniteSet(Shells)
  PROVE  Spec => []RecordsAreSound
<1>1. Init => RecordInv
  BY InitInv
<1>2. RecordInv /\ [Next]_vars => RecordInv'
  BY StepInv
<1>3. RecordInv => RecordsAreSound
  BY InvIsSound
<1> QED
  BY <1>1, <1>2, <1>3, PTL DEF Spec
=============================================================================
