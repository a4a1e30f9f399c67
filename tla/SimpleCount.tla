---------------------------- MODULE SimpleCount -----------------------------
(***************************************************************************)
(* simplecount: main() counts, the thread lockstep() prints, and each      *)
(* waits for the other.  The two flags are read and written without a lock *)
(* that both threads hold, one access at a time here.                      *)
(*                                                                         *)
(* count   gCount                increment  gIncrement      print  gPrint  *)
(* pc      where the two threads are                                       *)
(* owner   who holds gCountLock ("count") and gPrintLock ("print")         *)
(* waiting the threads asleep in wait() of gOnCount and gOnPrint           *)
(* printed how often a number was printed      shown  the last one         *)
(***************************************************************************)
EXTENDS Integers

CONSTANT MaxCount       \* numbers counted

ASSUME MaxCountAssumption == MaxCount \in Nat

VARIABLES count, increment, print, pc, owner, waiting, printed, shown

vars == <<count, increment, print, pc, owner, waiting, printed, shown>>

Thread == {"main", "lockstep"}
Nobody == "nobody"

TypeOK ==
    /\ count \in 0 .. MaxCount /\ printed \in Nat /\ shown \in -1 .. MaxCount
    /\ increment \in BOOLEAN /\ print \in BOOLEAN
    /\ pc \in [Thread -> {"work", "unlock", "flag1", "flag2", "notify", "lock", "test",
                          "wait", "asleep", "leave"}]
    /\ owner \in [{"count", "print"} -> Thread \cup {Nobody}]
    /\ waiting \subseteq Thread

Init ==
    /\ count = 0 /\ printed = 0 /\ shown = -1
    /\ increment = FALSE /\ print = FALSE
    /\ pc = [t \in Thread |-> "work"]
    /\ owner = [l \in {"count", "print"} |-> Nobody]
    /\ waiting = {}

\* The lock a thread works under, and the one it waits under, whose condition
\* variable it waits for.
WorkLock(t) == IF t = "main" THEN "count" ELSE "print"
WaitLock(t) == IF t = "main" THEN "print" ELSE "count"
Other(t) == IF t = "main" THEN "lockstep" ELSE "main"

Goto(t, l) == pc' = [pc EXCEPT ![t] = l]

\* gCount++ or printf, with the lock.
Work(t) ==
    /\ pc[t] = "work" /\ owner[WorkLock(t)] = Nobody
    /\ owner' = [owner EXCEPT ![WorkLock(t)] = t]
    /\ IF t = "main"
       THEN count < MaxCount /\ count' = count + 1 /\ UNCHANGED <<printed, shown>>
       ELSE printed' = printed + 1 /\ shown' = count /\ UNCHANGED count
    /\ Goto(t, "unlock")
    /\ UNCHANGED <<increment, print, waiting>>

Unlock(t) ==
    /\ pc[t] = "unlock"
    /\ owner' = [owner EXCEPT ![WorkLock(t)] = Nobody]
    /\ Goto(t, "flag1")
    /\ UNCHANGED <<count, increment, print, waiting, printed, shown>>

\* Mutant: the thread that counts does not take back what was printed.
SetFlagsKeeps(t) ==
    \/ /\ pc[t] = "flag1" /\ Goto(t, "flag2")
       /\ increment' = (t = "main")
       /\ UNCHANGED print
    \/ /\ pc[t] = "flag2" /\ Goto(t, "notify")
       /\ print' = (print \/ t = "lockstep")
       /\ UNCHANGED increment

\* First gIncrement, then gPrint: TRUE and FALSE in main, the reverse in the
\* other thread.
SetFlags(t) ==
    \/ /\ pc[t] = "flag1" /\ Goto(t, "flag2")
       /\ increment' = (t = "main")
       /\ UNCHANGED print
    \/ /\ pc[t] = "flag2" /\ Goto(t, "notify")
       /\ print' = (t = "lockstep")
       /\ UNCHANGED increment

Flags(t) == SetFlags(t) /\ UNCHANGED <<count, owner, waiting, printed, shown>>

\* notify_all, of the condition variable the other thread waits for.
Notify(t) ==
    /\ pc[t] = "notify"
    /\ waiting' = waiting \ {Other(t)}
    /\ Goto(t, "lock")
    /\ UNCHANGED <<count, increment, print, owner, printed, shown>>

\* lock(), before the test or when wait() returns.
Lock(t) ==
    /\ \/ pc[t] = "lock"
       \/ pc[t] = "asleep" /\ t \notin waiting
    /\ owner[WaitLock(t)] = Nobody
    /\ owner' = [owner EXCEPT ![WaitLock(t)] = t]
    /\ Goto(t, "test")
    /\ UNCHANGED <<count, increment, print, waiting, printed, shown>>

MayGoOn(t) == IF t = "main" THEN print ELSE increment

\* The while loop's test.  The lock is held, but not by the thread that sets
\* the flag and notifies.
Test(t) ==
    /\ pc[t] = "test"
    /\ Goto(t, IF MayGoOn(t) THEN "leave" ELSE "wait")
    /\ UNCHANGED <<count, increment, print, owner, waiting, printed, shown>>

\* wait() lets go of the lock and sleeps.
Wait(t) ==
    /\ pc[t] = "wait"
    /\ owner' = [owner EXCEPT ![WaitLock(t)] = Nobody]
    /\ waiting' = waiting \cup {t}
    /\ Goto(t, "asleep")
    /\ UNCHANGED <<count, increment, print, printed, shown>>

Leave(t) ==
    /\ pc[t] = "leave"
    /\ owner' = [owner EXCEPT ![WaitLock(t)] = Nobody]
    /\ Goto(t, "work")
    /\ UNCHANGED <<count, increment, print, waiting, printed, shown>>

\* A condition variable may wake a thread for no reason.
WakeUp(t) ==
    /\ t \in waiting
    /\ waiting' = waiting \ {t}
    /\ UNCHANGED <<count, increment, print, pc, owner, printed, shown>>

Next == \E t \in Thread :
    Work(t) \/ Unlock(t) \/ Flags(t) \/ Notify(t) \/ Lock(t) \/ Test(t)
    \/ Wait(t) \/ Leave(t) \/ WakeUp(t)

Spec == Init /\ [][Next]_vars

-----------------------------------------------------------------------------
\* What must hold.

\* However the flags are overtaken, neither thread gets two rounds ahead of
\* the other: "Printing waits for the next count to occur and counting waits
\* for the next print to occur" (main.cpp).
InStep == printed - count \in -1 .. 1

=============================================================================
