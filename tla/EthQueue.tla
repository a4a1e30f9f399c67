------------------------------ MODULE EthQueue ------------------------------
(***************************************************************************)
(* The frame queue of ethframe: the main thread receives frames from a raw *)
(* socket and pushes them to gEthFrames, the thread logLoop takes them out *)
(* and prints them; gmtxFrm guards the queue, gcvFrm announces a frame,    *)
(* gStop asks the logger to end.  Frames are numbered as they are received.*)
(*                                                                         *)
(* frames gEthFrames             stop     gStop                            *)
(* owner  who holds gmtxFrm      sleeping logLoop waits on gcvFrm          *)
(* main   where the main thread is        log   where logLoop is           *)
(* got    the last frame received         shown the last frame printed     *)
(***************************************************************************)
EXTENDS Naturals, Sequences

CONSTANT MaxFrames      \* the frames that arrive

ASSUME MaxFramesAssumption == MaxFrames \in Nat

VARIABLES frames, stop, owner, sleeping, main, log, got, shown

vars == <<frames, stop, owner, sleeping, main, log, got, shown>>

Init ==
    /\ frames = << >> /\ stop = FALSE
    /\ owner = "nobody" /\ sleeping = FALSE
    /\ main = "start" /\ log = "loop"
    /\ got = 0 /\ shown = 0

-----------------------------------------------------------------------------
\* The main thread.

\* Opening the raw socket may fail.
start ==
    /\ main = "start"
    /\ main' \in {"recv", "return"}
    /\ UNCHANGED <<frames, stop, owner, sleeping, log, got, shown>>

Receive ==
    /\ main = "recv" /\ got < MaxFrames
    /\ got' = got + 1
    /\ main' = "push"
    /\ UNCHANGED <<frames, stop, owner, sleeping, log, shown>>

\* recv() fails or returns 0: end(), which closes the socket first.
ReceiveFails ==
    /\ main = "recv"
    /\ main' = "stop"
    /\ UNCHANGED <<frames, stop, owner, sleeping, log, got, shown>>

PushLock ==
    /\ main = "push" /\ owner = "nobody"
    /\ owner' = "main" /\ main' = "pushing"
    /\ UNCHANGED <<frames, stop, sleeping, log, got, shown>>

Push ==
    /\ main = "pushing"
    /\ frames' = Append(frames, got)
    /\ owner' = "nobody" /\ main' = "notify"
    /\ UNCHANGED <<stop, sleeping, log, got, shown>>

\* notify_one wakes the logger if it sleeps, and is lost otherwise.
Notify ==
    /\ main \in {"notify", "wake"}
    /\ sleeping' = FALSE
    /\ main' = IF main = "notify" THEN "recv" ELSE "join"
    /\ UNCHANGED <<frames, stop, owner, log, got, shown>>

\* end(): gStop is set without the lock.
Stop ==
    /\ main = "stop"
    /\ stop' = TRUE /\ main' = "wake"
    /\ UNCHANGED <<frames, owner, sleeping, log, got, shown>>

Join ==
    /\ main = "join" /\ log = "ended"
    /\ main' = "joined"
    /\ UNCHANGED <<frames, stop, owner, sleeping, log, got, shown>>

\* main returns; the destructor of a thread not joined ends the process.
Return ==
    /\ main \in {"joined", "return"}
    /\ main' = IF main = "joined" THEN "exited" ELSE "aborted"
    /\ UNCHANGED <<frames, stop, owner, sleeping, log, got, shown>>

Main ==
    \/ start \/ ReceiveFails \/ PushLock \/ Push \/ Notify \/ Stop \/ Join \/ Return

-----------------------------------------------------------------------------
\* The logger, which runs until the process ends.

Alive == main # "aborted"

\* while (!gStop)
LoopTest ==
    /\ log = "loop" /\ Alive
    /\ log' = IF stop THEN "ended" ELSE "lock"
    /\ UNCHANGED <<frames, stop, owner, sleeping, main, got, shown>>

Lock ==
    /\ log \in {"lock", "poplock"} /\ Alive /\ owner = "nobody"
    /\ owner' = "log"
    /\ log' = IF log = "lock" THEN "check" ELSE "pop"
    /\ UNCHANGED <<frames, stop, sleeping, main, got, shown>>

\* Mutant: gStop is not looked at.
CheckNoStop ==
    /\ log = "check" /\ Alive
    /\ IF frames = << >>
       THEN log' = "sleep" /\ UNCHANGED owner
       ELSE log' = "awake" /\ owner' = "nobody"
    /\ UNCHANGED <<frames, stop, sleeping, main, got, shown>>

\* while (gEthFrames.empty() && !gStop)
Check ==
    /\ log = "check" /\ Alive
    /\ IF frames = << >> /\ ~stop
       THEN log' = "sleep" /\ UNCHANGED owner
       ELSE log' = "awake" /\ owner' = "nobody"
    /\ UNCHANGED <<frames, stop, sleeping, main, got, shown>>

\* Mutant: the lock is kept while waiting.
SleepLocked ==
    /\ log = "sleep" /\ Alive
    /\ sleeping' = TRUE /\ log' = "wait"
    /\ UNCHANGED <<frames, stop, owner, main, got, shown>>

\* gcvFrm.wait(lock)
Sleep ==
    /\ log = "sleep" /\ Alive
    /\ sleeping' = TRUE /\ owner' = "nobody" /\ log' = "wait"
    /\ UNCHANGED <<frames, stop, main, got, shown>>

\* Awake again, perhaps for no reason: the lock is taken anew.
SpuriousWake ==
    /\ sleeping /\ Alive
    /\ sleeping' = FALSE
    /\ UNCHANGED <<frames, stop, owner, main, log, got, shown>>

\* Mutant: an awakened logger takes it for granted that a frame is there.
WakeUnchecked ==
    /\ log = "wait" /\ ~sleeping /\ Alive /\ owner = "nobody"
    /\ log' = "awake"
    /\ UNCHANGED <<frames, stop, owner, sleeping, main, got, shown>>

Wake ==
    /\ log = "wait" /\ ~sleeping /\ Alive /\ owner = "nobody"
    /\ owner' = "log" /\ log' = "check"
    /\ UNCHANGED <<frames, stop, sleeping, main, got, shown>>

\* if (gStop) break
BreakTest ==
    /\ log = "awake" /\ Alive
    /\ log' = IF stop THEN "ended" ELSE "show"
    /\ UNCHANGED <<frames, stop, owner, sleeping, main, got, shown>>

\* The frame at the front is printed, without the lock.
Show ==
    /\ log = "show" /\ Alive
    /\ shown' = Head(frames)
    /\ log' = "poplock"
    /\ UNCHANGED <<frames, stop, owner, sleeping, main, got>>

\* Mutant: the last frame is removed.
PopBack ==
    /\ log = "pop" /\ Alive
    /\ frames' = SubSeq(frames, 1, Len(frames) - 1)
    /\ owner' = "nobody" /\ log' = "loop"
    /\ UNCHANGED <<stop, sleeping, main, got, shown>>

Pop ==
    /\ log = "pop" /\ Alive
    /\ frames' = Tail(frames)
    /\ owner' = "nobody" /\ log' = "loop"
    /\ UNCHANGED <<stop, sleeping, main, got, shown>>

Logger ==
    LoopTest \/ Lock \/ Check \/ Sleep \/ Wake \/ BreakTest \/ Show \/ Pop

Next == Main \/ Receive \/ Logger \/ SpuriousWake

\* Both threads run and a lock that is free again and again is got in the
\* end; frames need not arrive and a sleeper need not wake by itself.
Spec ==
    /\ Init /\ [][Next]_vars
    /\ WF_vars(Main /\ main # "recv") /\ SF_vars(PushLock)
    /\ WF_vars(Logger) /\ SF_vars(Lock) /\ SF_vars(Wake)

-----------------------------------------------------------------------------
TypeOK ==
    /\ frames \in Seq(1 .. MaxFrames) /\ Len(frames) <= got - shown + 1
    /\ stop \in BOOLEAN /\ sleeping \in BOOLEAN
    /\ owner \in {"nobody", "main", "log"}
    /\ got \in 0 .. MaxFrames /\ shown \in 0 .. got
    /\ main \in {"start", "recv", "push", "pushing", "notify", "stop", "wake",
                 "join", "joined", "return", "exited", "aborted"}
    /\ log \in {"loop", "lock", "check", "sleep", "wait", "awake", "show",
                "poplock", "pop", "ended"}

\* Frames are printed in the order they came, each once: what is not printed
\* yet is in the queue, in order, behind at most the one just printed, and
\* the one about to be pushed is the only frame that is in neither.
PrintedInOrder ==
    LET first == IF log \in {"poplock", "pop"} THEN shown ELSE shown + 1
        last == IF main \in {"push", "pushing"} THEN got - 1 ELSE got
    IN  frames = [i \in 1 .. last + 1 - first |-> first + i - 1]

\* The logger never prints, and never removes, the front of an empty queue.
NeverEmptyFront == log \in {"show", "poplock", "pop"} => frames # << >>

\* Every frame pushed is printed, unless end() has been called: no
\* notification is lost between the test of the queue and the wait.
FramesArePrinted ==
    \A n \in 1 .. MaxFrames :
        got >= n ~> shown >= n \/ main \in {"stop", "wake", "join", "joined", "exited"}

\* end() returns, provided that the logger is not between its test of gStop
\* and its wait when gStop is announced: the notification would be lost and
\* both threads would wait for good.
EndReturns ==
    main = "wake" /\ log # "sleep" ~> main = "exited"

=============================================================================
