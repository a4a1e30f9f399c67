----------------------------- MODULE ServerOps ------------------------------
(***************************************************************************)
(* The data of class server and the bodies of its methods, as operators on *)
(* a record                                                                *)
(*   sock     mSocket, the listening socket (0 when there is none)         *)
(*   clients  mClients                    users  mUserReadFds              *)
(*   fds      mfdAll                      max    mfdMax                    *)
(* A vector is its memory and its size: erase moves the later elements     *)
(* down and leaves a copy of the last one behind the new end, clear only   *)
(* forgets the size.  A range-for that took its end before an erase reads  *)
(* that memory.  A clientrec is its socket and the socket its mpXfer was   *)
(* given when it connected.                                                *)
(***************************************************************************)
EXTENDS Naturals, Sequences, FiniteSetsExt

CONSTANT Fd         \* file descriptor numbers; 0 is standard input

ASSUME FdAssumption == Fd \subseteq Nat /\ 0 \in Fd /\ IsFiniteSet(Fd)

-----------------------------------------------------------------------------
\* Vectors.

Vectors(S) == {v \in [mem : Seq(S), n : Nat] : v.n <= Len(v.mem)}

NoElements == [mem |-> << >>, n |-> 0]
Elements(v) == {v.mem[i] : i \in 1 .. v.n}

PushBack(v, x) ==
    [mem |-> IF v.n < Len(v.mem) THEN [v.mem EXCEPT ![v.n + 1] = x]
             ELSE Append(v.mem, x),
     n |-> v.n + 1]

\* Mutant: the last element is the one that goes.
EraseLast(v, i) == [v EXCEPT !.n = @ - 1]

Erase(v, i) ==
    [mem |-> [j \in 1 .. Len(v.mem) |->
                IF j >= i /\ j < v.n THEN v.mem[j + 1] ELSE v.mem[j]],
     n |-> v.n - 1]

Clear(v) == [v EXCEPT !.n = 0]

-----------------------------------------------------------------------------
Record(fd) == [sock |-> fd, xfer |-> fd]
Sockets(s) == {r.sock : r \in Elements(s.clients)}

Servers == [sock : Fd, clients : Vectors([sock : Fd, xfer : Fd]), users : Vectors(Fd),
            fds : SUBSET Fd, max : Fd]

Idle == [sock |-> 0, clients |-> NoElements, users |-> NoElements,
         fds |-> {}, max |-> 0]

\* server::init once the socket listens.
Listening(s, fd) == [s EXCEPT !.sock = fd, !.fds = {fd}, !.max = fd]

\* Mutant: only the clients are looked at.
FdMaxClients(s) == Max({0} \cup Sockets(s))

\* updateFdMax: the listening socket and the clients; the user descriptors
\* are not looked at.
FdMax(s) == Max({0, s.sock} \cup Sockets(s))

\* Mutant: mfdMax is not raised.
WatchedNoMax(s, fd) == [s EXCEPT !.fds = @ \cup {fd}]

\* selectProcess, under the lock: the new socket is watched.
Watched(s, fd) ==
    [s EXCEPT !.fds = @ \cup {fd}, !.max = IF fd > @ THEN fd ELSE @]

\* selectProcess, after the lock is released: the record joins the list.
Listed(s, fd) == [s EXCEPT !.clients = PushBack(@, Record(fd))]

\* disconnectClient(pClient), pClient being &mClients[p]: the position its
\* search finds (the one after the last, end(), when it finds none) and what
\* the method leaves.  pClient may point at memory
\* behind the end of the list.
FoundAt(s, p) ==
    LET found == {i \in 1 .. s.clients.n : s.clients.mem[i].sock = s.clients.mem[p].sock}
    IN  IF found = {} THEN s.clients.n + 1 ELSE Min(found)

Unwatched(s, p) ==
    LET old == s.clients.mem[p].sock
        t == [s EXCEPT !.clients.mem[p].sock = 0, !.fds = @ \ {old}]
    IN  IF old = 0 THEN s
        ELSE IF old = s.max THEN [t EXCEPT !.max = FdMax(t)]
        ELSE t

\* Mutant: the descriptor stays watched.
DisconnectedWatched(s, p) == [s EXCEPT !.clients = Erase(@, FoundAt(s, p))]

Disconnected(s, p) ==
    [Unwatched(s, p) EXCEPT !.clients = Erase(@, FoundAt(s, p))]

\* disconnectAllClients: every record is closed and the list forgotten; only
\* the listening socket is watched again.
AllDisconnected(s) ==
    [s EXCEPT !.clients =
                [mem |-> [j \in 1 .. Len(@.mem) |->
                            IF j <= @.n THEN [@.mem[j] EXCEPT !.sock = 0] ELSE @.mem[j]],
                 n |-> 0],
              !.fds = {s.sock},
              !.max = s.sock]

\* captureUserReadFd(fd, true) with addUserReadFd.
Captured(s, fd) ==
    IF fd \in s.fds THEN s
    ELSE [Watched(s, fd) EXCEPT !.users =
            IF fd \in Sockets(s) \cup Elements(@) THEN @ ELSE PushBack(@, fd)]

\* server::term after the clients are gone: the socket, then the rest.
Closed(s) == [s EXCEPT !.sock = 0]
\* Mutant: mfdMax is kept.
ForgottenKeepsMax(s) == [s EXCEPT !.users = Clear(@), !.fds = {}]
Forgotten(s) == [s EXCEPT !.users = Clear(@), !.fds = {}, !.max = 0]
=============================================================================
