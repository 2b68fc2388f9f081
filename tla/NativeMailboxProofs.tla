------------------------- MODULE NativeMailboxProofs -------------------------
(***************************************************************************)
(* Proofs about the native mailbox, for any number of windows and any      *)
(* frame stack.                                                            *)
(***************************************************************************)
EXTENDS NativeMailbox, FiniteSetTheorems, FunctionTheorems, TLAPS

\* What the mailbox says about itself is true of its contents.
Contents ==
  /\ sharedTelemetry.window = telemetrySeq
  /\ newTelemetry \/ publisher \in {"flag", "notify"} => telemetrySeq # 0
  /\ worker \in {"infer", "fatal"} => localTelemetry.window # 0
  /\ newPolicy => sharedPolicy # 0

\* Decisions are in the order of their windows, from the filter to the newest.
InOrder ==
  /\ livePolicy <= telemetrySeq
  /\ newPolicy => sharedPolicy <= telemetrySeq /\ livePolicy <= sharedPolicy
  /\ worker \in {"infer", "fatal"} =>
       /\ localTelemetry.window <= telemetrySeq
       /\ livePolicy <= localTelemetry.window
       /\ newPolicy => sharedPolicy <= localTelemetry.window

\* How often the newest window can still be taken: once for each flag that is
\* up or about to go up.
Chances ==
  (IF newTelemetry THEN 1 ELSE 0) + (IF publisher = "flag" THEN 1 ELSE 0)

Takes ==
  /\ \A w \in Window : w > telemetrySeq => seen[w] = 0
  /\ \A w \in Window : w = telemetrySeq => seen[w] + Chances <= 2
  /\ \A w \in Window : seen[w] <= 2

\* A newest window that was not looked at still has its flag.
Unseen ==
  \A w \in Window :
    w = telemetrySeq /\ seen[w] = 0 /\ publisher # "flag" => newTelemetry

IInv ==
  /\ TypeOK
  /\ Contents
  /\ InOrder
  /\ Takes
  /\ Unseen
  /\ PolicyAccounting

-----------------------------------------------------------------------------
LEMMA InitIInv == Init => IInv
<1> SUFFICES ASSUME Init PROVE IInv
  OBVIOUS
<1> USE MailboxAssumption DEF Init, WorkerInit
<1>1. TypeOK
  <2>1. history \in Seq(Window) /\ seen \in [Window -> Nat]
    OBVIOUS
  <2>2. sharedTelemetry \in Telemetry /\ localTelemetry \in Telemetry
    BY DEF Telemetry
  <2>3. worker \in WorkerState /\ publisher \in PublisherState
    BY DEF WorkerState, PublisherState
  <2>4. newTelemetry \in BOOLEAN /\ newPolicy \in BOOLEAN /\ stopThread \in BOOLEAN
    BY Zenon
  <2>5. QED
    BY <2>1, <2>2, <2>3, <2>4 DEF TypeOK, WorkerTypeOK
<1>2. Contents /\ InOrder /\ PolicyAccounting
  BY DEF Contents, InOrder, PolicyAccounting
<1>3. Takes /\ Unseen
  BY DEF Takes, Unseen, Chances, Window
<1>4. QED
  BY <1>1, <1>2, <1>3 DEF IInv

\* Pushing a window keeps a sequence of windows one.
LEMMA PushFrameType ==
  ASSUME NEW frames \in Seq(Window), NEW w \in Window
  PROVE  PushFrame(frames, w) \in Seq(Window)
<1>1. CASE frames = <<>>
  <2>1. [i \in 1..FrameStack |-> w] \in Seq(Window)
    BY MailboxAssumption
  <2>2. QED
    BY <1>1, <2>1 DEF PushFrame
<1>2. CASE frames # <<>>
  <2>1. Tail(frames) \in Seq(Window)
    BY <1>2
  <2>2. Append(Tail(frames), w) \in Seq(Window)
    BY <2>1
  <2>3. QED
    BY <1>2, <2>2 DEF PushFrame
<1>3. QED
  BY <1>1, <1>2

-----------------------------------------------------------------------------
\* Steps of the control thread that only move its program counter.
WorkerMoves ==
  /\ worker' \in WorkerState
  /\ worker' \in {"infer", "fatal"} => worker = "infer"
  /\ UNCHANGED <<mailboxVars, stopThread, localVars, countVars, publisherVars>>

LEMMA MovesKeepIInv == IInv /\ WorkerMoves => IInv'
<1> SUFFICES ASSUME IInv, WorkerMoves PROVE IInv'
  OBVIOUS
<1> USE DEF IInv, WorkerMoves, mailboxVars, localVars, countVars, publisherVars
<1>1. TypeOK'
  BY DEF TypeOK, WorkerTypeOK
<1>2. (Contents /\ InOrder)'
  BY DEF Contents, InOrder
<1>3. (Takes /\ Unseen)'
  BY DEF Takes, Unseen, Chances
<1>4. PolicyAccounting'
  BY DEF PolicyAccounting
<1>5. QED
  BY <1>1, <1>2, <1>3, <1>4

LEMMA TakeKeepsIInv ==
  IInv /\ WorkerTake /\ UNCHANGED publisherVars => IInv'
<1> SUFFICES ASSUME IInv, WorkerTake, UNCHANGED publisherVars PROVE IInv'
  OBVIOUS
<1> DEFINE n == telemetrySeq
<1>1. n \in Window /\ sharedTelemetry.window = n
  BY MailboxAssumption
     DEF IInv, TypeOK, WorkerTypeOK, Contents, WorkerTake, Window
<1>2. seen' = [seen EXCEPT ![n] = seen[n] + 1] /\ seen \in [Window -> Nat]
  BY <1>1 DEF WorkerTake, IInv, TypeOK, WorkerTypeOK
<1>3. TypeOK'
  <2>1. seen' \in [Window -> Nat]
    BY <1>1, <1>2
  <2>2. newTelemetry' \in BOOLEAN
    BY Zenon DEF WorkerTake
  <2>3. worker' \in WorkerState
    BY DEF WorkerTake, WorkerState
  <2>4. QED
    BY <2>1, <2>2, <2>3
       DEF IInv, TypeOK, WorkerTypeOK, WorkerTake, publisherVars
<1>4. (Contents /\ InOrder)'
  <2>1. Contents'
    BY <1>1 DEF IInv, Contents, WorkerTake, publisherVars, Window
  <2>2. localTelemetry'.window = telemetrySeq /\ telemetrySeq' = telemetrySeq
    BY <1>1 DEF WorkerTake
  <2>3. InOrder'
    BY <2>2 DEF IInv, TypeOK, WorkerTypeOK, InOrder, WorkerTake, publisherVars
  <2>4. QED
    BY <2>1, <2>3
<1>5. seen[n] + 1 <= 2 /\ seen'[n] + Chances' <= 2
  BY <1>1, <1>2 DEF IInv, Takes, Chances, WorkerTake, publisherVars
<1>6. Takes'
  BY <1>1, <1>2, <1>5 DEF IInv, TypeOK, WorkerTypeOK, Takes, WorkerTake, Window
<1>7. Unseen'
  BY <1>1, <1>2 DEF Unseen, WorkerTake
<1>8. PolicyAccounting'
  BY DEF IInv, PolicyAccounting, WorkerTake, publisherVars
<1>9. QED
  BY <1>3, <1>4, <1>6, <1>7, <1>8 DEF IInv

LEMMA WorkerPublishKeepsIInv ==
  IInv /\ WorkerPublish /\ UNCHANGED publisherVars => IInv'
<1> SUFFICES ASSUME IInv, WorkerPublish, UNCHANGED publisherVars PROVE IInv'
  OBVIOUS
<1>1. localTelemetry.window \in Window
  BY MailboxAssumption
     DEF IInv, TypeOK, WorkerTypeOK, Telemetry, Contents, WorkerPublish, Window
<1>2. TypeOK'
  <2>1. history' \in Seq(Window)
    BY <1>1, PushFrameType DEF IInv, TypeOK, WorkerTypeOK, WorkerPublish
  <2>2. QED
    BY <1>1, <2>1 DEF IInv, TypeOK, WorkerTypeOK, WorkerPublish, publisherVars,
                      WorkerState, Window
<1>3. (Contents /\ InOrder)'
  BY <1>1 DEF IInv, TypeOK, WorkerTypeOK, Contents, InOrder, WorkerPublish,
              publisherVars, Window
<1>4. (Takes /\ Unseen)'
  BY DEF IInv, Takes, Unseen, Chances, WorkerPublish, publisherVars
<1>5. PolicyAccounting'
  BY DEF IInv, TypeOK, WorkerTypeOK, PolicyAccounting,
         WorkerPublish, publisherVars
<1>6. QED
  BY <1>2, <1>3, <1>4, <1>5 DEF IInv

LEMMA WorkerKeepsIInv == IInv /\ WorkerNext => IInv'
<1> SUFFICES ASSUME IInv, WorkerNext PROVE IInv'
  OBVIOUS
<1> UNCHANGED publisherVars
  BY DEF WorkerNext
<1>1. CASE WorkerLoop
  BY <1>1, MovesKeepIInv DEF WorkerLoop, WorkerMoves, WorkerState
<1>2. CASE WorkerTake
  BY <1>2, TakeKeepsIInv
<1>3. CASE WorkerBreak
  BY <1>3, MovesKeepIInv DEF WorkerBreak, WorkerMoves, WorkerState
<1>4. CASE WorkerFindsNothing
  BY <1>4, MovesKeepIInv DEF WorkerFindsNothing, WorkerMoves, WorkerState
<1>5. CASE WorkerPark
  BY <1>5, MovesKeepIInv DEF WorkerPark, WorkerMoves, WorkerState
<1>6. CASE WorkerPublish
  BY <1>6, WorkerPublishKeepsIInv
<1>7. CASE SpuriousWakeup
  BY <1>7, MovesKeepIInv DEF SpuriousWakeup, WorkerMoves, WorkerState
<1>8. CASE InferenceFails
  BY <1>8, MovesKeepIInv DEF InferenceFails, WorkerMoves, WorkerState
<1>9. QED
  BY <1>1, <1>2, <1>3, <1>4, <1>5, <1>6, <1>7, <1>8 DEF WorkerNext, WorkerStep

-----------------------------------------------------------------------------
LEMMA PublishWindowKeepsIInv == IInv /\ PublishWindow => IInv'
<1> SUFFICES ASSUME IInv, PublishWindow PROVE IInv'
  OBVIOUS
<1> DEFINE n == telemetrySeq + 1
<1>1. n \in Window /\ telemetrySeq \in Nat /\ telemetrySeq' = n
  BY MailboxAssumption DEF IInv, TypeOK, WorkerTypeOK, PublishWindow, Window
<1>2. livePolicy' \in 0..MaxWindows
  BY DEF IInv, TypeOK, WorkerTypeOK, PublishWindow
<1>3. sharedTelemetry' \in Telemetry /\ sharedTelemetry'.window = n
      /\ sharedTelemetry'.policy = livePolicy'
  BY <1>1, <1>2 DEF PublishWindow, Telemetry, Window
<1>4. TypeOK'
  <2>1. newPolicy' \in BOOLEAN
    BY Zenon DEF PublishWindow
  <2>2. publisher' \in PublisherState
    BY DEF PublishWindow, PublisherState
  <2>3. telemetrySeq' \in 0..MaxWindows
    BY <1>1 DEF Window
  <2>4. overwritten' \in Nat /\ applied' \in Nat
    BY DEF IInv, TypeOK, PublishWindow
  <2>5. QED
    BY <1>2, <1>3, <2>1, <2>2, <2>3, <2>4
       DEF IInv, TypeOK, WorkerTypeOK, PublishWindow, localVars, countVars
<1>5. Contents'
  BY <1>1, <1>3 DEF IInv, Contents, PublishWindow, localVars
<1>6. InOrder'
  BY <1>1 DEF IInv, TypeOK, WorkerTypeOK, InOrder, PublishWindow, localVars,
              Window, Telemetry
<1>7. Takes'
  BY <1>1 DEF IInv, TypeOK, WorkerTypeOK, Takes, Chances, PublishWindow,
              countVars, Window
<1>8. Unseen'
  BY DEF Unseen, PublishWindow
<1>9. PolicyAccounting'
  BY DEF IInv, TypeOK, WorkerTypeOK, PolicyAccounting, PublishWindow, countVars
<1>10. QED
  BY <1>4, <1>5, <1>6, <1>7, <1>8, <1>9 DEF IInv

LEMMA RaiseTelemetryFlagKeepsIInv == IInv /\ RaiseTelemetryFlag => IInv'
<1> SUFFICES ASSUME IInv, RaiseTelemetryFlag PROVE IInv'
  OBVIOUS
<1> USE DEF IInv, RaiseTelemetryFlag, PublisherAt, localVars, countVars
<1>1. TypeOK'
  <2>1. newTelemetry' \in BOOLEAN
    BY Zenon
  <2>2. publisher' \in PublisherState
    BY DEF PublisherState
  <2>3. QED
    BY <2>1, <2>2 DEF TypeOK, WorkerTypeOK
<1>2. (Contents /\ InOrder)'
  BY DEF Contents, InOrder
<1>3. (Takes /\ Unseen)'
  <2>1. Chances' <= Chances
    BY DEF Chances
  <2>2. QED
    BY <2>1 DEF TypeOK, WorkerTypeOK, Takes, Unseen, Chances
<1>4. PolicyAccounting'
  BY DEF PolicyAccounting
<1>5. QED
  BY <1>1, <1>2, <1>3, <1>4

\* Steps of the packet thread outside the mailbox: its program counter, the
\* stop flag and the wake-up of the control thread.
PublisherMoves ==
  /\ publisher # "flag"
  /\ publisher' \in PublisherState \ {"flag", "notify"}
  /\ stopThread' \in BOOLEAN
  /\ worker' = worker \/ worker' = "acquire"
  /\ UNCHANGED <<mailboxVars, localVars, countVars,
                 livePolicy, overwritten, applied>>

LEMMA PublisherMovesKeepIInv == IInv /\ PublisherMoves => IInv'
<1> SUFFICES ASSUME IInv, PublisherMoves PROVE IInv'
  OBVIOUS
<1> USE DEF IInv, PublisherMoves, mailboxVars, localVars, countVars
<1>1. TypeOK'
  BY DEF TypeOK, WorkerTypeOK, WorkerState
<1>2. (Contents /\ InOrder)'
  BY DEF Contents, InOrder
<1>3. (Takes /\ Unseen)'
  BY DEF Takes, Unseen, Chances
<1>4. PolicyAccounting'
  BY DEF PolicyAccounting
<1>5. QED
  BY <1>1, <1>2, <1>3, <1>4

LEMMA PublisherKeepsIInv == IInv /\ PublisherNext => IInv'
<1> SUFFICES ASSUME IInv, PublisherNext PROVE IInv'
  OBVIOUS
<1> USE DEF PublisherAt, PublisherState, workerVars
<1>1. CASE PublishWindow
  BY <1>1, PublishWindowKeepsIInv
<1>2. CASE RaiseTelemetryFlag
  BY <1>2, RaiseTelemetryFlagKeepsIInv
<1>3. CASE NotifyOne
  BY <1>3, PublisherMovesKeepIInv
     DEF NotifyOne, Notify, PublisherMoves, IInv, TypeOK, WorkerTypeOK
<1>4. CASE EndSession
  BY <1>4, PublisherMovesKeepIInv
     DEF EndSession, PublisherMoves, IInv, TypeOK, WorkerTypeOK
<1>5. CASE RaiseStopFlag
  BY <1>5, PublisherMovesKeepIInv
     DEF RaiseStopFlag, PublisherMoves, IInv, TypeOK, WorkerTypeOK
<1>6. CASE NotifyAll
  BY <1>6, PublisherMovesKeepIInv
     DEF NotifyAll, Notify, PublisherMoves, IInv, TypeOK, WorkerTypeOK
<1>7. CASE JoinAndFlush
  BY <1>7, PublisherMovesKeepIInv
     DEF JoinAndFlush, PublisherMoves, IInv, TypeOK, WorkerTypeOK
<1>8. QED
  BY <1>1, <1>2, <1>3, <1>4, <1>5, <1>6, <1>7 DEF PublisherNext, PublisherStep

\* Every step keeps the invariant.
LEMMA NextKeepsIInv == IInv /\ [Next]_vars => IInv'
<1> SUFFICES ASSUME IInv, [Next]_vars PROVE IInv'
  OBVIOUS
<1>1. CASE WorkerNext
  BY <1>1, WorkerKeepsIInv
<1>2. CASE PublisherNext
  BY <1>2, PublisherKeepsIInv
<1>3. CASE UNCHANGED vars
  BY <1>3 DEF vars, workerVars, mailboxVars, localVars, countVars, publisherVars,
              IInv, TypeOK, WorkerTypeOK, Contents, InOrder, Takes, Unseen,
              Chances, PolicyAccounting
<1>4. QED
  BY <1>1, <1>2, <1>3 DEF Next, Finished

(***************************************************************************)
(* The inductive invariant holds in every reachable state.                 *)
(***************************************************************************)
THEOREM Inductive == Spec => []IInv
<1>1. QED
  BY InitIInv, NextKeepsIInv, PTL DEF Spec

(***************************************************************************)
(* Every variable of the mailbox keeps its type (onnx_worker_loop and      *)
(* publish_native_onnx_window).                                            *)
(***************************************************************************)
THEOREM TypeCorrect == Spec => []TypeOK
<1>1. IInv => TypeOK
  BY DEF IInv
<1>2. QED
  BY <1>1, Inductive, PTL

(***************************************************************************)
(* No completed policy is lost and none is applied twice: the policy flag  *)
(* is set and cleared only under the mutex.                                *)
(***************************************************************************)
THEOREM PoliciesAccounted == Spec => []PolicyAccounting
<1>1. IInv => PolicyAccounting
  BY DEF IInv
<1>2. QED
  BY <1>1, Inductive, PTL

(***************************************************************************)
(* A window is taken at most twice although its flag is raised outside the *)
(* mutex.                                                                  *)
(***************************************************************************)
THEOREM AtMostTwice == Spec => []ConsumedAtMostTwice
<1>1. IInv => ConsumedAtMostTwice
  BY DEF IInv, Takes, ConsumedAtMostTwice
<1>2. QED
  BY <1>1, Inductive, PTL

-----------------------------------------------------------------------------
\* Skipped windows are finitely many, and only a publication can add one: the
\* window before the new one.
LEMMA SkippedFinite ==
  ASSUME TypeOK
  PROVE  IsFiniteSet(Skipped) /\ Cardinality(Skipped) \in Nat
<1>1. IsFiniteSet(1..(telemetrySeq - 1))
  BY FS_Interval DEF TypeOK, WorkerTypeOK
<1>2. IsFiniteSet(Skipped)
  BY <1>1, FS_Subset DEF Skipped
<1>3. QED
  BY <1>2, FS_CardinalityType

LEMMA CoverStep ==
  IInv /\ OverwrittenCoversSkipped /\ [Next]_vars => OverwrittenCoversSkipped'
<1> SUFFICES ASSUME IInv, OverwrittenCoversSkipped, [Next]_vars
             PROVE  OverwrittenCoversSkipped'
  OBVIOUS
<1>1. IsFiniteSet(Skipped) /\ Cardinality(Skipped) \in Nat /\ overwritten \in Nat
  BY SkippedFinite DEF IInv, TypeOK
<1>2. CASE PublishWindow
  <2>1. telemetrySeq \in Nat /\ telemetrySeq' = telemetrySeq + 1 /\ seen' = seen
    BY <1>2 DEF PublishWindow, IInv, TypeOK, WorkerTypeOK, countVars
  <2>2. CASE telemetrySeq = 0 \/ seen[telemetrySeq] # 0
    <3>1. Skipped' \subseteq Skipped
      BY <2>1, <2>2 DEF Skipped
    <3>2. Cardinality(Skipped') <= Cardinality(Skipped) /\ Cardinality(Skipped') \in Nat
      BY <1>1, <3>1, FS_Subset, FS_CardinalityType
    <3>3. overwritten' \in Nat /\ overwritten' >= overwritten
      BY <1>1, <1>2 DEF PublishWindow
    <3>4. QED
      BY <1>1, <3>2, <3>3 DEF OverwrittenCoversSkipped
  <2>3. CASE telemetrySeq # 0 /\ seen[telemetrySeq] = 0
    <3>1. Skipped' = Skipped \cup {telemetrySeq}
      BY <2>1, <2>3 DEF Skipped
    <3>2. Cardinality(Skipped') <= Cardinality(Skipped) + 1 /\ Cardinality(Skipped') \in Nat
      BY <1>1, <3>1, FS_AddElement, FS_CardinalityType
    <3>3. telemetrySeq \in Window /\ publisher = "stream"
      BY <1>2, <2>3 DEF IInv, TypeOK, WorkerTypeOK, PublishWindow, PublisherAt, Window
    <3>4. newTelemetry
      BY <2>3, <3>3 DEF IInv, Unseen
    <3>5. overwritten' = overwritten + 1
      BY <1>2, <3>4 DEF PublishWindow
    <3>6. QED
      BY <1>1, <3>2, <3>5 DEF OverwrittenCoversSkipped
  <2>4. QED
    BY <2>2, <2>3
<1>3. CASE WorkerTake /\ UNCHANGED publisherVars
  <2>1. telemetrySeq' = telemetrySeq /\ overwritten' = overwritten
    BY <1>3 DEF WorkerTake, publisherVars
  <2>2. \A w \in Window : seen'[w] = 0 => seen[w] = 0
    BY <1>3 DEF WorkerTake, IInv, TypeOK, WorkerTypeOK
  <2>3. Skipped' \subseteq Skipped
    <3>1. MaxWindows \in Nat /\ telemetrySeq \in 0..MaxWindows
      BY MailboxAssumption DEF IInv, TypeOK, WorkerTypeOK
    <3>2. 1..(telemetrySeq - 1) \subseteq Window
      BY <3>1 DEF Window
    <3>3. QED
      BY <2>1, <2>2, <3>2 DEF Skipped
  <2>4. Cardinality(Skipped') <= Cardinality(Skipped) /\ Cardinality(Skipped') \in Nat
    BY <1>1, <2>3, FS_Subset, FS_CardinalityType
  <2>5. QED
    BY <1>1, <2>1, <2>4 DEF OverwrittenCoversSkipped
<1>4. CASE UNCHANGED <<telemetrySeq, seen, overwritten>>
  BY <1>4 DEF OverwrittenCoversSkipped, Skipped
<1>5. QED
  BY <1>2, <1>3, <1>4
     DEF Next, Finished, vars, workerVars, publisherVars, mailboxVars, countVars,
         WorkerNext, WorkerStep, WorkerLoop, WorkerBreak, WorkerFindsNothing,
         WorkerPark, WorkerPublish, SpuriousWakeup, InferenceFails,
         PublisherNext, PublisherStep, EndSession, RaiseTelemetryFlag, NotifyOne,
         RaiseStopFlag, NotifyAll, JoinAndFlush

(***************************************************************************)
(* Every closed window but the newest was looked at by the control thread  *)
(* or is counted by telemetry_overwritten.                                 *)
(***************************************************************************)
THEOREM NothingSkippedSilently == Spec => []OverwrittenCoversSkipped
<1>1. Init => OverwrittenCoversSkipped
  <2>1. ASSUME Init PROVE Skipped = {}
    BY <2>1 DEF Init, WorkerInit, Skipped
  <2>2. QED
    BY <2>1, FS_EmptySet DEF Init, OverwrittenCoversSkipped
<1>2. QED
  BY <1>1, CoverStep, Inductive, PTL DEF Spec

-----------------------------------------------------------------------------
Frames == [1..FrameStack -> Window]

\* The frames that show window v.
Of(frames, v) == {i \in 1..FrameStack : frames[i] = v}

\* The first window fills the stack.
LEMMA FirstFrame ==
  ASSUME NEW w \in Window
  PROVE  /\ PushFrame(<<>>, w) \in Frames
         /\ \A i \in 1..FrameStack : PushFrame(<<>>, w)[i] = w
BY DEF PushFrame, Frames

\* Another one shifts the others by one place.
LEMMA NextFrame ==
  ASSUME NEW h \in Frames, NEW w \in Window
  PROVE  /\ PushFrame(h, w) \in Frames
         /\ PushFrame(h, w)[FrameStack] = w
         /\ \A i \in 1..(FrameStack - 1) : PushFrame(h, w)[i] = h[i + 1]
<1> DEFINE g == Append(Tail(h), w)
<1>1. FrameStack \in Nat /\ FrameStack >= 1
  BY MailboxAssumption
<1>2. h \in Seq(Window) /\ Len(h) = FrameStack /\ h # <<>>
  BY <1>1 DEF Frames
<1>3. /\ Tail(h) \in Seq(Window) /\ Len(Tail(h)) = FrameStack - 1
      /\ \A i \in 1..(FrameStack - 1) : Tail(h)[i] = h[i + 1]
  BY <1>1, <1>2
<1>4. /\ g \in Seq(Window) /\ Len(g) = FrameStack /\ g[FrameStack] = w
      /\ \A i \in 1..(FrameStack - 1) : g[i] = Tail(h)[i]
  BY <1>1, <1>3
<1>5. g \in Frames
  <2> HIDE DEF g
  <2>1. g \in [1..Len(g) -> Window]
    BY <1>4
  <2> QED
    BY <1>4, <2>1 DEF Frames
<1>6. PushFrame(h, w) = g
  BY <1>2 DEF PushFrame
<1> QED
  BY <1>3, <1>4, <1>5, <1>6

\* Of the windows after the oldest frame none loses a frame, and only the one
\* that is pushed gains one.
LEMMA PushCounts ==
  ASSUME NEW h \in Frames, NEW w \in Window, h[FrameStack] <= w,
         \A i \in 2..FrameStack : h[i - 1] <= h[i]
  PROVE  LET g == PushFrame(h, w)
         IN /\ g[1] >= h[1]
            /\ \A i \in 2..FrameStack : g[i - 1] <= g[i]
            /\ \A v \in Window : v > g[1] =>
                 Cardinality(Of(g, v)) = Cardinality(Of(h, v)) + (IF v = w THEN 1 ELSE 0)
<1> DEFINE g == PushFrame(h, w)
<1>1. FrameStack \in Nat /\ FrameStack >= 1 /\ w \in Nat
  BY MailboxAssumption DEF Window
<1>2. /\ g \in Frames /\ g[FrameStack] = w
      /\ \A i \in 1..(FrameStack - 1) : g[i] = h[i + 1]
  BY NextFrame
<1> HIDE DEF g
<1>3. \A i \in 1..FrameStack : h[i] \in Nat /\ g[i] \in Nat
  BY <1>2 DEF Frames, Window
<1>4. g[1] >= h[1]
  <2>1. CASE FrameStack = 1
    BY <1>1, <1>2, <1>3, <2>1
  <2>2. CASE FrameStack > 1
    <3>1. g[1] = h[2] /\ h[2 - 1] <= h[2]
      BY <1>1, <1>2, <2>2
    <3> QED
      BY <1>1, <1>3, <2>2, <3>1
  <2> QED
    BY <1>1, <2>1, <2>2
<1>5. ASSUME NEW i \in 2..FrameStack PROVE g[i - 1] <= g[i]
  <2>1. i - 1 \in 1..(FrameStack - 1) /\ g[i - 1] = h[i] /\ (i # FrameStack => g[i] = h[i + 1])
    BY <1>1, <1>2
  <2>2. CASE i = FrameStack
    BY <1>2, <2>1, <2>2
  <2>3. CASE i # FrameStack
    <3>1. i + 1 \in 2..FrameStack /\ (i + 1) - 1 = i
      BY <1>1, <2>3
    <3>2. h[i] <= h[i + 1]
      BY <3>1
    <3> QED
      BY <2>1, <2>3, <3>2
  <2> QED
    BY <2>2, <2>3
<1>6. ASSUME NEW v \in Window, v > g[1]
      PROVE  Cardinality(Of(g, v)) = Cardinality(Of(h, v)) + (IF v = w THEN 1 ELSE 0)
  <2> DEFINE moved == {i \in 1..(FrameStack - 1) : g[i] = v}
             shift == [i \in moved |-> i + 1]
  <2>1. IsFiniteSet(1..FrameStack) /\ IsFiniteSet(1..(FrameStack - 1))
    BY <1>1, FS_Interval
  <2>2. IsFiniteSet(moved) /\ Cardinality(moved) \in Nat
    BY <2>1, FS_Subset, FS_CardinalityType
  <2>3. h[1] # v
    BY <1>1, <1>3, <1>4, <1>6 DEF Window
  <2>4. shift \in Bijection(moved, Of(h, v))
    <3>1. ASSUME NEW i \in moved PROVE i + 1 \in Of(h, v)
      BY <1>1, <1>2 DEF Of
    <3>2. shift \in [moved -> Of(h, v)]
      BY <3>1
    <3>3. \A i, j \in moved : shift[i] = shift[j] => i = j
      BY <1>1
    <3>4. ASSUME NEW k \in Of(h, v) PROVE \E i \in moved : shift[i] = k
      <4>1. k \in 1..FrameStack /\ h[k] = v
        BY DEF Of
      <4>2. k # 1
        BY <2>3, <4>1
      <4>3. k - 1 \in 1..(FrameStack - 1) /\ (k - 1) + 1 = k
        BY <1>1, <4>1, <4>2
      <4>4. g[k - 1] = v
        BY <1>2, <4>1, <4>3
      <4>5. k - 1 \in moved
        BY <4>3, <4>4
      <4> QED
        BY <4>3, <4>5
    <3> QED
      BY <3>2, <3>3, <3>4, Fun_IsBij
  <2>5. Cardinality(Of(h, v)) = Cardinality(moved)
    BY <2>2, <2>4, Fun_ExistsBij, FS_Bijection
  <2>6. CASE v = w
    <3>1. Of(g, v) = moved \cup {FrameStack} /\ FrameStack \notin moved
      BY <1>1, <1>2, <2>6 DEF Of
    <3> QED
      BY <2>2, <2>5, <2>6, <3>1, FS_AddElement
  <2>7. CASE v # w
    <3>1. Of(g, v) = moved
      BY <1>1, <1>2, <2>7 DEF Of
    <3> QED
      BY <2>2, <2>5, <2>7, <3>1
  <2> QED
    BY <2>6, <2>7
<1> QED
  BY <1>4, <1>5, <1>6 DEF g

\* What the frames say is true; before the first one nothing was inferred.
\* Policies are published in the order of their windows.
FramesSound ==
  /\ history # <<>> => history \in Frames
  /\ history = <<>> => \A w \in Window : Inferred(w) = 0
  /\ sharedPolicy <= telemetrySeq
  /\ worker \in {"infer", "fatal"} => sharedPolicy <= localTelemetry.window
  /\ FramesAreInferences

LEMMA InitFrames == Init => FramesSound
BY MailboxAssumption DEF Init, WorkerInit, FramesSound, FramesAreInferences, Inferred, Window

\* A policy is published: the frame that is pushed is the inference that ends.
LEMMA PublishKeepsFrames ==
  ASSUME IInv, FramesSound, WorkerPublish PROVE FramesSound'
<1> DEFINE w == localTelemetry.window
<1>1. /\ w \in Window /\ sharedPolicy <= w /\ w <= telemetrySeq /\ sharedPolicy \in Nat
      /\ seen \in [Window -> Nat] /\ FrameStack \in Nat \ {0}
  <2>1. worker = "infer"
    BY DEF WorkerPublish
  <2>2. w \in 0..MaxWindows /\ seen \in [Window -> Nat] /\ sharedPolicy \in Nat
    BY MailboxAssumption DEF IInv, TypeOK, WorkerTypeOK, Telemetry
  <2>3. w # 0 /\ w <= telemetrySeq /\ sharedPolicy <= w
    BY <2>1 DEF IInv, Contents, InOrder, FramesSound
  <2> QED
    BY <2>2, <2>3, MailboxAssumption DEF Window
<1>2. /\ history' = PushFrame(history, w) /\ sharedPolicy' = w
      /\ worker = "infer" /\ worker' = "loop"
      /\ UNCHANGED <<telemetrySeq, localTelemetry, seen>>
  BY DEF WorkerPublish
<1>3. \A v \in Window : Inferred(v)' = Inferred(v) + (IF v = w THEN 1 ELSE 0)
  BY <1>1, <1>2 DEF Inferred
<1>4. sharedPolicy' <= telemetrySeq' /\ worker' \notin {"infer", "fatal"}
  BY <1>1, <1>2
<1>5. CASE history = <<>>
  <2>1. history' \in Frames /\ \A i \in 1..FrameStack : history'[i] = w
    BY <1>1, <1>2, <1>5, FirstFrame
  <2>2. history' # <<>>
    BY <1>1, <2>1 DEF Frames
  <2>3. \A i \in 2..FrameStack : history'[i - 1] <= history'[i]
    BY <1>1, <2>1 DEF Window
  <2>4. history'[FrameStack] = sharedPolicy' /\ history'[1] = w
    BY <1>1, <1>2, <2>1
  <2>5. ASSUME NEW v \in Window, v > w
        PROVE  Cardinality({i \in 1..FrameStack : history'[i] = v}) = Inferred(v)'
    <3>1. {i \in 1..FrameStack : history'[i] = v} = {}
      BY <1>1, <2>1, <2>5 DEF Window
    <3>2. Inferred(v)' = 0
      BY <1>1, <1>3, <1>5, <2>5 DEF FramesSound, Window
    <3> QED
      BY <3>1, <3>2, FS_EmptySet
  <2>6. FramesAreInferences'
    BY <2>3, <2>4, <2>5 DEF FramesAreInferences
  <2> QED
    BY <1>4, <2>1, <2>2, <2>6 DEF FramesSound
<1>6. CASE history # <<>>
  <2>1. /\ history \in Frames /\ history[FrameStack] = sharedPolicy
        /\ \A i \in 2..FrameStack : history[i - 1] <= history[i]
        /\ \A v \in Window : v > history[1] => Cardinality(Of(history, v)) = Inferred(v)
    BY <1>6 DEF FramesSound, FramesAreInferences, Of
  <2>2. history' \in Frames /\ history'[FrameStack] = w
    BY <1>1, <1>2, <2>1, NextFrame
  <2>3. /\ history'[1] >= history[1]
        /\ \A i \in 2..FrameStack : history'[i - 1] <= history'[i]
        /\ \A v \in Window : v > history'[1] =>
             Cardinality(Of(history', v)) = Cardinality(Of(history, v)) + (IF v = w THEN 1 ELSE 0)
    BY <1>1, <1>2, <2>1, PushCounts
  <2>4. history' # <<>> /\ history'[1] \in Nat /\ history[1] \in Nat
    BY <1>1, <2>1, <2>2 DEF Frames, Window
  <2>5. ASSUME NEW v \in Window, v > history'[1]
        PROVE  Cardinality({i \in 1..FrameStack : history'[i] = v}) = Inferred(v)'
    <3>1. v > history[1]
      BY <2>3, <2>4, <2>5 DEF Window
    <3>2. Cardinality(Of(history', v)) = Inferred(v)'
      BY <1>3, <2>1, <2>3, <2>5, <3>1
    <3> QED
      BY <3>2 DEF Of
  <2>6. FramesAreInferences'
    BY <1>2, <2>2, <2>3, <2>5 DEF FramesAreInferences
  <2> QED
    BY <1>4, <2>2, <2>4, <2>6 DEF FramesSound
<1> QED
  BY <1>5, <1>6

\* Steps that leave the frames alone and infer nothing.
LEMMA OthersKeepFrames ==
  ASSUME FramesSound, UNCHANGED <<history, sharedPolicy>>,
         sharedPolicy' <= telemetrySeq',
         worker' \in {"infer", "fatal"} => sharedPolicy' <= localTelemetry'.window,
         \A w \in Window : Inferred(w)' = Inferred(w)
  PROVE  FramesSound'
BY DEF FramesSound, FramesAreInferences

LEMMA FramesStep == IInv /\ FramesSound /\ [Next]_vars => FramesSound'
<1> SUFFICES ASSUME IInv, FramesSound, [Next]_vars PROVE FramesSound'
  OBVIOUS
<1>1. /\ seen \in [Window -> Nat] /\ telemetrySeq \in Nat /\ sharedPolicy \in Nat
      /\ sharedPolicy <= telemetrySeq
      /\ worker \in {"infer", "fatal"} => sharedPolicy <= localTelemetry.window
  BY DEF IInv, TypeOK, WorkerTypeOK, FramesSound
<1>2. CASE WorkerPublish
  BY <1>2, PublishKeepsFrames
<1>3. CASE WorkerTake
  <2>1. sharedTelemetry.window = telemetrySeq
    BY DEF IInv, Contents
  <2>2. /\ worker = "acquire" /\ worker' = "infer" /\ localTelemetry' = sharedTelemetry
        /\ seen' = [seen EXCEPT ![telemetrySeq] = @ + 1]
        /\ UNCHANGED <<history, sharedPolicy, telemetrySeq>>
    BY <1>3, <2>1 DEF WorkerTake
  <2>3. \A w \in Window : Inferred(w)' = Inferred(w)
    BY <1>1, <2>1, <2>2 DEF Inferred
  <2> QED
    BY <1>1, <2>1, <2>2, <2>3, OthersKeepFrames
<1>4. CASE /\ UNCHANGED <<history, sharedPolicy, seen, localTelemetry>>
           /\ telemetrySeq' \in {telemetrySeq, telemetrySeq + 1}
           /\ worker' \in {"infer", "fatal"} <=> worker \in {"infer", "fatal"}
  <2>1. \A w \in Window : Inferred(w)' = Inferred(w)
    BY <1>4 DEF Inferred
  <2> QED
    BY <1>1, <1>4, <2>1, OthersKeepFrames
<1> QED
  BY <1>2, <1>3, <1>4
     DEF Next, Finished, vars, workerVars, publisherVars, mailboxVars, localVars, countVars,
         WorkerNext, WorkerStep, WorkerLoop, WorkerBreak, WorkerFindsNothing,
         WorkerPark, SpuriousWakeup, InferenceFails, Notify,
         PublisherNext, PublisherStep, PublishWindow, EndSession, RaiseTelemetryFlag,
         NotifyOne, RaiseStopFlag, NotifyAll, JoinAndFlush

(***************************************************************************)
(* Whatever was overwritten, skipped or taken twice, the model sees the    *)
(* windows of its last inferences in their order, the newest of them being *)
(* the one its policy answers.                                             *)
(***************************************************************************)
THEOREM FramesFollowInferences == Spec => []FramesAreInferences
<1>1. FramesSound => FramesAreInferences
  BY DEF FramesSound
<1>2. QED
  BY <1>1, InitFrames, FramesStep, Inductive, PTL DEF Spec

-----------------------------------------------------------------------------
\* Every step of the two threads is a step of the control loop or a stutter.
LEMMA StepMaps == IInv /\ [Next]_vars => [Control!Next]_(Control!vars)
<1> SUFFICES ASSUME IInv, [Next]_vars PROVE [Control!Next]_(Control!vars)
  OBVIOUS
<1> USE DEF Control!None
<1>1. CASE PublishWindow
  <2>1. Control!CloseWindow
    BY <1>1 DEF PublishWindow, Control!CloseWindow, IInv, Contents, localVars
  <2>2. QED
    BY <2>1 DEF Control!Next
<1>2. CASE WorkerTake /\ UNCHANGED publisherVars
  <2>1. Control!Observe
    BY <1>2 DEF WorkerTake, publisherVars, Control!Observe, IInv, Contents
  <2>2. QED
    BY <2>1 DEF Control!Next
<1>3. CASE WorkerPublish /\ UNCHANGED publisherVars
  <2>1. Control!Decide
    BY <1>3 DEF WorkerPublish, publisherVars, Control!Decide, IInv, Contents
  <2>2. QED
    BY <2>1 DEF Control!Next
<1>4. CASE InferenceFails /\ UNCHANGED publisherVars
  BY <1>4 DEF InferenceFails, publisherVars, mailboxVars, localVars, Control!vars
<1>5. CASE /\ UNCHANGED <<mailboxVars, localVars, livePolicy>>
           /\ worker \notin {"infer", "fatal"}
           /\ worker' \notin {"infer", "fatal"}
  BY <1>5 DEF mailboxVars, localVars, Control!vars
<1>6. CASE /\ UNCHANGED <<telemetrySeq, newPolicy, sharedPolicy, worker,
                          localTelemetry, livePolicy>>
  BY <1>6 DEF Control!vars
<1>7. QED
  BY <1>1, <1>2, <1>3, <1>4, <1>5, <1>6
     DEF Next, Finished, vars, workerVars, publisherVars, mailboxVars, localVars,
         WorkerNext, WorkerStep, WorkerLoop, WorkerBreak, WorkerFindsNothing,
         WorkerPark, SpuriousWakeup, Notify,
         PublisherNext, PublisherStep, EndSession, RaiseTelemetryFlag, NotifyOne,
         RaiseStopFlag, NotifyAll, JoinAndFlush

(***************************************************************************)
(* The mailbox, with its flags raised outside the mutex and its missed     *)
(* notifications, implements the latest-value control loop.                *)
(***************************************************************************)
THEOREM Implements == Spec => ImplementsAsyncControl
<1>1. Init => Control!Init
  BY DEF Init, WorkerInit, Control!Init, Control!None
<1>2. QED
  BY <1>1, StepMaps, Inductive, PTL DEF Spec, ImplementsAsyncControl, Control!Spec

(***************************************************************************)
(* The filter never goes back to a policy computed from an older window,   *)
(* although windows are skipped, taken twice and answered late.            *)
(***************************************************************************)
THEOREM PoliciesNeverRegress == Spec => [][livePolicy' >= livePolicy]_vars
<1>1. IInv /\ [Next]_vars => [livePolicy' >= livePolicy]_vars
  <2> SUFFICES ASSUME IInv, Next PROVE livePolicy' >= livePolicy
    BY DEF vars
  <2>1. livePolicy \in Nat /\ (newPolicy => livePolicy <= sharedPolicy)
    BY DEF IInv, TypeOK, InOrder
  <2>2. CASE PublishWindow
    BY <2>1, <2>2 DEF PublishWindow, IInv, TypeOK, WorkerTypeOK
  <2>3. CASE livePolicy' = livePolicy
    BY <2>1, <2>3
  <2>4. QED
    BY <2>2, <2>3
       DEF Next, Finished, vars, WorkerNext, publisherVars, PublisherNext,
           PublisherStep, EndSession, RaiseTelemetryFlag, NotifyOne,
           RaiseStopFlag, NotifyAll, JoinAndFlush
<1>2. QED
  BY <1>1, Inductive, PTL DEF Spec
=============================================================================
