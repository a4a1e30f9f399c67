--------------------------- MODULE SimpleCountProofs ---------------------------
(***************************************************************************)
(* The two threads keep in step for every number of counts.  What keeps    *)
(* them so is not the locks, which guard nothing in common, but the order  *)
(* in which each thread writes the flag it waits for and the flag it sets: *)
(* a thread clears its own flag once in a round, so a flag it finds set    *)
(* was set by a round of the other thread that it did not see before.      *)
(***************************************************************************)
EXTENDS SimpleCount, TLAPS

\* The rounds in which a thread has set the flag of the other one: gIncrement
\* is set by main with its first write, gPrint by lockstep with its second.
MainSet == IF pc["main"] \in {"unlock", "flag1"} THEN count - 1 ELSE count
LockstepSet == IF pc["lockstep"] \in {"unlock", "flag1", "flag2"} THEN printed - 1 ELSE printed

\* The flag main waits for is cleared with its second write: from then on it
\* being set tells that lockstep has set it in as many rounds as main counted.
MainWaits ==
    /\ LockstepSet >= count - 1
    /\ pc["main"] \in {"work", "leave"} => LockstepSet >= count
    /\ pc["main"] \in {"notify", "lock", "test", "wait", "asleep"} /\ print
         => LockstepSet >= count

\* The same of lockstep, which clears its flag with its first write.
LockstepWaits ==
    /\ MainSet >= printed - 1
    /\ pc["lockstep"] \in {"work", "leave"} => MainSet >= printed
    /\ pc["lockstep"] \in {"flag2", "notify", "lock", "test", "wait", "asleep"} /\ increment
         => MainSet >= printed

Inv == TypeOK /\ MainWaits /\ LockstepWaits

-----------------------------------------------------------------------------
\* The types hold at first and after every step of either thread.
LEMMA InitTypeOK == Init => TypeOK
  <1> USE MaxCountAssumption
  <1> SUFFICES ASSUME Init PROVE TypeOK
    OBVIOUS
  <1>1. increment \in BOOLEAN /\ print \in BOOLEAN
    BY Zenon DEF Init
  <1> QED
    BY <1>1 DEF Init, TypeOK, Thread, Nobody

\* Every step of either thread keeps the types.
LEMMA NextTypeOK == TypeOK /\ [Next]_vars => TypeOK'
  <1> USE MaxCountAssumption
  <1> SUFFICES ASSUME TypeOK, [Next]_vars PROVE TypeOK'
    OBVIOUS
  <1>1. increment' \in BOOLEAN /\ print' \in BOOLEAN
    <2>1. increment \in BOOLEAN /\ print \in BOOLEAN
      BY DEF TypeOK
    <2>2. \A t : (t = "main") \in BOOLEAN /\ (t = "lockstep") \in BOOLEAN
      OBVIOUS
    <2> QED
      BY <2>1, <2>2, Zenon DEF Next, vars, Work, Unlock, Flags, SetFlags, Notify, Lock, Test,
                           Wait, Leave, WakeUp
  <1> USE DEF TypeOK, Thread, Nobody, Goto, WorkLock, WaitLock
  <1>2. ASSUME NEW t \in Thread, Work(t) PROVE TypeOK'
    BY <1>1, <1>2 DEF Work
  <1>3. ASSUME NEW t \in Thread, Unlock(t) PROVE TypeOK'
    BY <1>1, <1>3 DEF Unlock
  <1>4. ASSUME NEW t \in Thread, Flags(t) PROVE TypeOK'
    BY <1>1, <1>4 DEF Flags, SetFlags
  <1>5. ASSUME NEW t \in Thread, Notify(t) PROVE TypeOK'
    BY <1>1, <1>5 DEF Notify
  <1>6. ASSUME NEW t \in Thread, Lock(t) PROVE TypeOK'
    BY <1>1, <1>6 DEF Lock
  <1>7. ASSUME NEW t \in Thread, Test(t) PROVE TypeOK'
    BY <1>1, <1>7 DEF Test
  <1>8. ASSUME NEW t \in Thread, Wait(t) PROVE TypeOK'
    BY <1>1, <1>8 DEF Wait
  <1>9. ASSUME NEW t \in Thread, Leave(t) PROVE TypeOK'
    BY <1>1, <1>9 DEF Leave
  <1>10. ASSUME NEW t \in Thread, WakeUp(t) PROVE TypeOK'
    BY <1>1, <1>10 DEF WakeUp
  <1>11. CASE UNCHANGED vars
    BY <1>1, <1>11 DEF vars
  <1> QED
    BY <1>2, <1>3, <1>4, <1>5, <1>6, <1>7, <1>8, <1>9, <1>10, <1>11, Zenon DEF Next

-----------------------------------------------------------------------------
\* At first no number is counted and none printed.
LEMMA InitInv == Init => Inv
  <1> USE MaxCountAssumption
  <1> SUFFICES ASSUME Init PROVE Inv
    OBVIOUS
  <1>1. TypeOK
    BY InitTypeOK
  <1>2. MainWaits /\ LockstepWaits
    BY DEF Init, MainWaits, LockstepWaits, MainSet, LockstepSet, Thread
  <1> QED
    BY <1>1, <1>2 DEF Inv

\* Neither thread sees a flag set that the other has not set since the last
\* round.
LEMMA NextInv == Inv /\ [Next]_vars => Inv'
  <1> USE MaxCountAssumption
  <1> SUFFICES ASSUME Inv, [Next]_vars PROVE MainWaits' /\ LockstepWaits'
    BY NextTypeOK DEF Inv
  <1>1. TypeOK /\ MainWaits /\ LockstepWaits
    BY DEF Inv
  <1> USE DEF TypeOK, MainWaits, LockstepWaits, MainSet, LockstepSet, Goto
  <1>2. ASSUME NEW t \in Thread, Work(t) PROVE MainWaits' /\ LockstepWaits'
    BY <1>1, <1>2 DEF Work, Thread
  <1>3. ASSUME NEW t \in Thread, Unlock(t) PROVE MainWaits' /\ LockstepWaits'
    BY <1>1, <1>3 DEF Unlock, Thread
  <1>4. ASSUME NEW t \in Thread, Flags(t) PROVE MainWaits' /\ LockstepWaits'
    <2>1. UNCHANGED <<count, printed>>
      BY <1>4 DEF Flags
    <2>2. CASE pc[t] = "flag1" /\ Goto(t, "flag2") /\ increment' = (t = "main") /\ UNCHANGED print
      <3>1. CASE t = "main"
        BY <1>1, <2>1, <2>2, <3>1 DEF Thread
      <3>2. CASE t = "lockstep"
        <4>1. ~increment'
          BY <2>2, <3>2
        <4> QED
          BY <1>1, <2>1, <2>2, <3>2, <4>1 DEF Thread
      <3> QED
        BY <3>1, <3>2 DEF Thread
    <2>3. CASE pc[t] = "flag2" /\ Goto(t, "notify") /\ print' = (t = "lockstep")
               /\ UNCHANGED increment
      <3>1. CASE t = "main"
        <4>1. ~print'
          BY <2>3, <3>1
        <4> QED
          BY <1>1, <2>1, <2>3, <3>1, <4>1 DEF Thread
      <3>2. CASE t = "lockstep"
        BY <1>1, <2>1, <2>3, <3>2 DEF Thread
      <3> QED
        BY <3>1, <3>2 DEF Thread
    <2> QED
      BY <1>4, <2>2, <2>3, Zenon DEF Flags, SetFlags
  <1>5. ASSUME NEW t \in Thread, Notify(t) PROVE MainWaits' /\ LockstepWaits'
    BY <1>1, <1>5 DEF Notify, Thread
  <1>6. ASSUME NEW t \in Thread, Lock(t) PROVE MainWaits' /\ LockstepWaits'
    BY <1>1, <1>6 DEF Lock, Thread
  <1>7. ASSUME NEW t \in Thread, Test(t) PROVE MainWaits' /\ LockstepWaits'
    BY <1>1, <1>7 DEF Test, MayGoOn, Thread
  <1>8. ASSUME NEW t \in Thread, Wait(t) PROVE MainWaits' /\ LockstepWaits'
    BY <1>1, <1>8 DEF Wait, Thread
  <1>9. ASSUME NEW t \in Thread, Leave(t) PROVE MainWaits' /\ LockstepWaits'
    BY <1>1, <1>9 DEF Leave, Thread
  <1>10. ASSUME NEW t \in Thread, WakeUp(t) PROVE MainWaits' /\ LockstepWaits'
    BY <1>1, <1>10 DEF WakeUp, Thread
  <1>11. CASE UNCHANGED vars
    BY <1>1, <1>11 DEF vars
  <1> QED
    BY <1>2, <1>3, <1>4, <1>5, <1>6, <1>7, <1>8, <1>9, <1>10, <1>11, Zenon DEF Next

\* The invariant bounds the difference from both sides.
LEMMA InvInStep == Inv => InStep
  BY MaxCountAssumption DEF Inv, TypeOK, MainWaits, LockstepWaits, MainSet, LockstepSet, InStep

-----------------------------------------------------------------------------
\* The invariant holds in every state of every behaviour.
LEMMA SpecInv == Spec => []Inv
  BY InitInv, NextInv, PTL DEF Spec

\* The counters, the flags, the places, the locks and the sleepers have their
\* types.
THEOREM SpecTypeOK == Spec => []TypeOK
  BY SpecInv, PTL DEF Inv

\* gCount and the numbers printed never differ by more than one, wherever the
\* unguarded writes of gIncrement and gPrint fall between the steps of the
\* other thread.
THEOREM SpecInStep == Spec => []InStep
  BY SpecInv, InvInStep, PTL

=============================================================================
