---------------------------- MODULE EthQueueProofs ----------------------------
(***************************************************************************)
(* Frames are printed in order and the front of an empty queue is never    *)
(* touched, for every number of frames.  The inductive invariant adds who  *)
(* holds the lock and what the test of the condition variable established. *)
(***************************************************************************)
EXTENDS EthQueue, SequenceTheorems, TLAPS

\* Who holds gmtxFrm is told by where the threads are.
LockIsHeld ==
    /\ main = "pushing" <=> owner = "main"
    /\ log \in {"check", "sleep", "pop"} <=> owner = "log"

\* A logger that left its wait has a frame, or was asked to end: no other
\* thread takes frames out.
AwakeHasFrame == log = "awake" => frames # << >> \/ stop

\* The first and the last frame of the queue.
First == IF log \in {"poplock", "pop"} THEN shown ELSE shown + 1
Last == IF main \in {"push", "pushing"} THEN got - 1 ELSE got

\* The frame printed last is among those that were pushed.
ShownIsPushed == /\ shown <= Last
                 /\ log \in {"poplock", "pop"} => shown > 0

Inv == TypeOK /\ PrintedInOrder /\ NeverEmptyFront
       /\ LockIsHeld /\ AwakeHasFrame /\ ShownIsPushed

-----------------------------------------------------------------------------
\* The frames from a to b, in order.
Run(a, b) == [i \in 1 .. b + 1 - a |-> a + i - 1]

\* The frames from a to b are a sequence that begins with a.
LEMMA RunIsSequence ==
  ASSUME NEW a \in Nat \ {0}, NEW b \in Nat, a <= b + 1
  PROVE  /\ Run(a, b) \in Seq(a .. b)
         /\ Len(Run(a, b)) = b + 1 - a
         /\ Run(a, b) = << >> <=> a = b + 1
         /\ a <= b => Head(Run(a, b)) = a
  <1> DEFINE n == b + 1 - a
  <1>1. n \in Nat /\ Run(a, b) = [i \in 1 .. n |-> a + i - 1]
    BY DEF Run
  <1>2. \A i \in 1 .. n : a + i - 1 \in a .. b
    OBVIOUS
  <1> HIDE DEF n
  <1>3. Run(a, b) \in Seq(a .. b) /\ Len(Run(a, b)) = n
    BY <1>1, <1>2
  <1>4. Run(a, b) = << >> <=> n = 0
    BY <1>3
  <1>5. n > 0 => Head(Run(a, b)) = a
    BY <1>1
  <1> QED
    BY <1>3, <1>4, <1>5 DEF n

\* A push of the next frame makes the run one longer at its end.
LEMMA PushRun ==
  ASSUME NEW a \in Nat \ {0}, NEW b \in Nat, a <= b + 1
  PROVE  Append(Run(a, b), b + 1) = Run(a, b + 1)
  BY DEF Run

\* A pop makes it one shorter at its front.
LEMMA PopRun ==
  ASSUME NEW a \in Nat \ {0}, NEW b \in Nat, a <= b
  PROVE  Tail(Run(a, b)) = Run(a + 1, b)
  <1>1. Run(a, b) \in Seq(Nat) /\ Len(Run(a, b)) = b + 1 - a /\ Run(a, b) # << >>
    <2>1. Run(a, b) \in Seq(a .. b) /\ Len(Run(a, b)) = b + 1 - a /\ Run(a, b) # << >>
      BY RunIsSequence
    <2> QED
      BY <2>1
  <1>2. /\ Tail(Run(a, b)) \in Seq(Nat) /\ Len(Tail(Run(a, b))) = b - a
        /\ \A i \in 1 .. b - a : Tail(Run(a, b))[i] = Run(a, b)[i + 1]
    BY <1>1, HeadTailProperties
  <1>3. \A i \in 1 .. b - a : Run(a, b)[i + 1] = Run(a + 1, b)[i]
    <2> TAKE i \in 1 .. b - a
    <2>1. Run(a, b)[i + 1] = a + (i + 1) - 1
      BY DEF Run
    <2>2. Run(a + 1, b)[i] = (a + 1) + i - 1
      BY DEF Run
    <2> QED
      BY <2>1, <2>2
  <1>4. Run(a + 1, b) \in Seq(Nat) /\ Len(Run(a + 1, b)) = b - a
    <2>1. Run(a + 1, b) = [i \in 1 .. b - a |-> (a + 1) + i - 1]
      BY DEF Run
    <2>2. \A i \in 1 .. b - a : (a + 1) + i - 1 \in Nat
      OBVIOUS
    <2> QED
      BY <2>1, <2>2
  <1> DEFINE s == Tail(Run(a, b))
             t == Run(a + 1, b)
  <1>5. s \in Seq(Nat) /\ t \in Seq(Nat) /\ Len(s) = Len(t) /\ Len(s) = b - a
    BY <1>2, <1>4
  <1>6. \A i \in 1 .. Len(s) : s[i] = t[i]
    BY <1>2, <1>3
  <1> HIDE DEF s, t
  <1>7. s = t
    BY <1>5, <1>6, SeqEqual
  <1> QED
    BY <1>7 DEF s, t

\* What the property says of the queue, by its first and last frame.
LEMMA QueueIsRun == PrintedInOrder <=> frames = Run(First, Last)
  BY DEF PrintedInOrder, Run, First, Last

-----------------------------------------------------------------------------
\* Before start() the queue is empty and nobody holds the mutex.
LEMMA InitInv == Init => Inv
  <1> SUFFICES ASSUME Init PROVE Inv
    OBVIOUS
  <1>1. stop \in BOOLEAN /\ sleeping \in BOOLEAN
    BY Zenon DEF Init
  <1>2. TypeOK
    BY <1>1, MaxFramesAssumption DEF Init, TypeOK
  <1>3. PrintedInOrder
    BY DEF Init, PrintedInOrder
  <1> QED
    BY <1>2, <1>3
       DEF Init, Inv, NeverEmptyFront, LockIsHeld, AwakeHasFrame, ShownIsPushed, Last

\* Every step of either thread keeps the invariant.
LEMMA NextInv == Inv /\ [Next]_vars => Inv'
  <1> SUFFICES ASSUME Inv, [Next]_vars PROVE Inv'
    OBVIOUS
  <1> USE MaxFramesAssumption
  <1> DEFINE Places == /\ owner \in {"nobody", "main", "log"}
                       /\ main \in {"start", "recv", "push", "pushing", "notify", "stop",
                                     "wake", "join", "joined", "return", "exited", "aborted"}
                       /\ log \in {"loop", "lock", "check", "sleep", "wait", "awake", "show",
                                    "poplock", "pop", "ended"}
  <1>flags. stop' \in BOOLEAN /\ sleeping' \in BOOLEAN
    <2>1. stop \in BOOLEAN /\ sleeping \in BOOLEAN
      BY DEF Inv, TypeOK
    <2> QED
      BY <2>1, Zenon
         DEF Next, Main, Logger, vars, start, Receive, ReceiveFails, PushLock, Push, Notify,
             Stop, Join, Return, LoopTest, Lock, Check, Sleep, SpuriousWake, Wake, BreakTest,
             Show, Pop
  <1>1. /\ got \in 0 .. MaxFrames /\ shown \in 0 .. got
        /\ First \in Nat \ {0} /\ Last \in Nat
        /\ First <= Last + 1 /\ Last <= got
        /\ frames = Run(First, Last)
        /\ frames = << >> <=> First = Last + 1
    <2>1. /\ got \in 0 .. MaxFrames /\ shown \in 0 .. got /\ shown <= Last
          /\ log \in {"poplock", "pop"} => shown > 0
      BY DEF Inv, TypeOK, ShownIsPushed
    <2>2. Last \in Int /\ Last <= got
      BY <2>1 DEF Last
    <2>3. First \in Nat \ {0} /\ Last \in Nat /\ First <= Last + 1
      <3> HIDE DEF Last
      <3> QED
        BY <2>1, <2>2 DEF First
    <2>4. frames = Run(First, Last)
      BY QueueIsRun DEF Inv
    <2> HIDE DEF First, Last
    <2> QED
      BY <2>1, <2>2, <2>3, <2>4, RunIsSequence
  <1>2. ASSUME got' \in 0 .. MaxFrames, shown' \in Nat, frames' = Run(First', Last'),
               Places', NeverEmptyFront', LockIsHeld', AwakeHasFrame', ShownIsPushed'
        PROVE  Inv'
    <2>1. First' \in Nat \ {0} /\ Last' \in Nat /\ First' <= Last' + 1 /\ Last' <= got'
      <3>1. got' \in Nat
        BY <1>2
      <3>2. Last' = got' - 1 \/ Last' = got'
        BY DEF Last
      <3>3. shown' \in Nat /\ shown' <= Last' /\ (log' \in {"poplock", "pop"} => shown' > 0)
        BY <1>2 DEF ShownIsPushed
      <3>4. First' = shown' + 1 \/ (log' \in {"poplock", "pop"} /\ First' = shown')
        BY DEF First
      <3> HIDE DEF First, Last
      <3> QED
        BY <3>1, <3>2, <3>3, <3>4
    <2>2. frames' \in Seq(First' .. Last') /\ Len(frames') = Last' + 1 - First'
      <3> HIDE DEF First, Last
      <3> QED
        BY <1>2, <2>1, RunIsSequence
    <2>3. frames' \in Seq(1 .. MaxFrames)
      BY <1>2, <2>1, <2>2
    <2>4. Len(frames') <= got' - shown' + 1 /\ shown' \in 0 .. got'
      <3>1. shown' <= Last'
        BY <1>2 DEF ShownIsPushed
      <3>2. First' = shown' + 1 \/ First' = shown'
        BY DEF First
      <3>3. shown' \in Nat /\ got' \in Nat
        BY <1>2
      <3>4. Len(frames') = Last' + 1 - First'
        BY <2>2
      <3>5. \A f, l, g, s \in Nat : l <= g /\ s <= l /\ f \in {s, s + 1}
                                    => l + 1 - f <= g - s + 1 /\ s \in 0 .. g
        OBVIOUS
      <3> HIDE DEF First, Last
      <3> QED
        BY <2>1, <3>1, <3>2, <3>3, <3>4, <3>5
    <2>5. TypeOK'
      BY <1>2, <1>flags, <2>3, <2>4 DEF TypeOK
    <2>6. PrintedInOrder'
      BY <1>2 DEF PrintedInOrder, Run, First, Last
    <2> QED
      BY <1>2, <2>5, <2>6 DEF Inv
  <1> USE DEF Inv, TypeOK, NeverEmptyFront, LockIsHeld, AwakeHasFrame, ShownIsPushed, First, Last
  <1>start. CASE start
    BY <1>1, <1>2, <1>start DEF start
  <1>Receive. CASE Receive
    BY <1>1, <1>2, <1>Receive DEF Receive
  <1>ReceiveFails. CASE ReceiveFails
    BY <1>1, <1>2, <1>ReceiveFails DEF ReceiveFails
  <1>PushLock. CASE PushLock
    BY <1>1, <1>2, <1>PushLock DEF PushLock
  <1>Push. CASE Push
    <2>1. got = Last + 1 /\ Last' = got /\ First' = First
      BY <1>1, <1>Push DEF Push
    <2>2. frames' = Run(First', Last')
      <3> HIDE DEF First, Last
      <3> QED
        BY <1>1, <1>Push, <2>1, PushRun DEF Push
    <2>3. frames' # << >>
      BY <1>Push DEF Push
    <2>4. NeverEmptyFront' /\ AwakeHasFrame'
      BY <2>3
    <2>5. got' \in 0 .. MaxFrames /\ shown' \in Nat /\ Places' /\ LockIsHeld' /\ ShownIsPushed'
      BY <1>1, <1>Push DEF Push
    <2> QED
      BY <1>2, <2>2, <2>4, <2>5, Zenon
  <1>Notify. CASE Notify
    BY <1>1, <1>2, <1>Notify DEF Notify
  <1>Stop. CASE Stop
    BY <1>1, <1>2, <1>Stop DEF Stop
  <1>Join. CASE Join
    BY <1>1, <1>2, <1>Join DEF Join
  <1>Return. CASE Return
    BY <1>1, <1>2, <1>Return DEF Return
  <1>LoopTest. CASE LoopTest
    BY <1>1, <1>2, <1>LoopTest DEF LoopTest
  <1>Lock. CASE Lock
    BY <1>1, <1>2, <1>Lock DEF Lock
  <1>Check. CASE Check
    BY <1>1, <1>2, <1>Check DEF Check
  <1>Sleep. CASE Sleep
    BY <1>1, <1>2, <1>Sleep DEF Sleep
  <1>SpuriousWake. CASE SpuriousWake
    BY <1>1, <1>2, <1>SpuriousWake DEF SpuriousWake
  <1>Wake. CASE Wake
    BY <1>1, <1>2, <1>Wake DEF Wake
  <1>BreakTest. CASE BreakTest
    BY <1>1, <1>2, <1>BreakTest DEF BreakTest
  <1>Show. CASE Show
    <2>1. First <= Last /\ Head(frames) = First
      <3>1. frames # << >>
        BY <1>Show DEF Show
      <3> HIDE DEF First, Last, Inv
      <3>2. First <= Last
        BY <1>1, <3>1
      <3> QED
        BY <1>1, <3>2, RunIsSequence
    <2>2. shown' = shown + 1 /\ First' = First /\ Last' = Last
      BY <1>Show, <2>1 DEF Show
    <2> QED
      BY <1>1, <1>2, <1>Show, <2>1, <2>2 DEF Show
  <1>Pop. CASE Pop
    <2>1. First <= Last /\ First' = First + 1 /\ Last' = Last
      BY <1>1, <1>Pop DEF Pop
    <2>2. frames' = Run(First', Last')
      <3> HIDE DEF First, Last
      <3> QED
        BY <1>1, <1>Pop, <2>1, PopRun DEF Pop
    <2> QED
      BY <1>1, <1>2, <1>Pop, <2>1, <2>2 DEF Pop
  <1>Stutter. CASE UNCHANGED vars
    BY <1>1, <1>2, <1>Stutter DEF vars
  <1> QED
    BY <1>start, <1>Receive, <1>ReceiveFails, <1>PushLock, <1>Push, <1>Notify, <1>Stop, <1>Join,
       <1>Return, <1>LoopTest, <1>Lock, <1>Check, <1>Sleep, <1>SpuriousWake, <1>Wake,
       <1>BreakTest, <1>Show, <1>Pop, <1>Stutter DEF Next, Main, Logger

-----------------------------------------------------------------------------
\* The invariant holds in every state of every behaviour.
LEMMA SpecInv == Spec => []Inv
  BY InitInv, NextInv, PTL DEF Spec

\* The queue, the counters and the places of both threads have their types.
THEOREM SpecTypeOK == Spec => []TypeOK
  BY SpecInv, PTL DEF Inv

\* logLoop prints frames in the order recv() delivered them, each once, and
\* what is not printed is in gEthFrames in order, with the lock released
\* between printing and removing and however often the logger is awakened.
THEOREM SpecPrintedInOrder == Spec => []PrintedInOrder
  BY SpecInv, PTL DEF Inv

\* front() and pop() are called on a queue that has a frame, however end(),
\* spurious wake-ups and the test of gStop interleave.
THEOREM SpecNeverEmptyFront == Spec => []NeverEmptyFront
  BY SpecInv, PTL DEF Inv

=============================================================================
