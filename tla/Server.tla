------------------------------- MODULE Server -------------------------------
(***************************************************************************)
(* A server at work: serverasync, whose select loop is a thread of its     *)
(* own, or serversync, whose loop runs in the thread that called           *)
(* waitForClients.  In both, the application calls term() from another     *)
(* thread.  The callbacks are those of test/main.cpp: onClientData reads   *)
(* until there is nothing left and disconnects a client that hung up,      *)
(* onClientDisconnect reads what is left, onConsoleInput reads the user's  *)
(* descriptor and sends it to every client.                                *)
(*                                                                         *)
(* srv      the members of class server (ServerOps)                        *)
(* threaded serverasync rather than serversync                             *)
(* locked   the application holds mCliLock                                 *)
(* loop     where selectLoop is         rd    its fd_set, fdrd             *)
(* it, upto the range-for over mClients: the element, the end it took      *)
(* cur      the socket accept() returned                                   *)
(* app      where the application is                                       *)
(* file     what each descriptor of the process is open on                 *)
(* net      each client: its connection, the bytes it sent that are not    *)
(*          read yet, and whether it has closed its end                    *)
(* input    the user's descriptor can be read                              *)
(* raced    a connection was being accepted while term() was at work, or   *)
(*          the behaviour became undefined                                 *)
(***************************************************************************)
EXTENDS ServerOps

CONSTANTS
    Client,             \* the clients that may connect, once each
    UserFd,             \* the descriptor given to captureUserReadFd
    MaxUnread,          \* bytes a client has under way
    AcceptedBlock       \* accept() returns blocking sockets (Linux)

ASSUME ServerAssumption ==
    /\ UserFd \in Fd
    /\ MaxUnread \in Nat \ {0}
    /\ AcceptedBlock \in BOOLEAN
    /\ Client \cap {"free", "listen", "user", "other"} = {}

VARIABLES srv, threaded, locked, loop, rd, it, upto, cur, app, file, net,
          input, raced

vars == <<srv, threaded, locked, loop, rd, it, upto, cur, app, file, net,
          input, raced>>
world == <<file, net, input>>
walk == <<rd, it, upto, cur>>

-----------------------------------------------------------------------------
\* The operating system, as src/ uses it.

FreeFds == {f \in Fd : file[f] = "free"}

Queued == {k \in Client : net[k].at = "queued"}

Readable(f) ==
    \/ file[f] = "listen" /\ Queued # {}
    \/ file[f] = "user" /\ input
    \/ file[f] \in Client /\ (net[file[f]].unread > 0 \/ net[file[f]].hup)

\* Closing sockets: their connections end.
Close(fds) ==
    /\ file' = [f \in Fd |-> IF f \in fds THEN "free" ELSE file[f]]
    /\ net' = [k \in Client |->
                 IF \E f \in fds : file[f] = k \/ (file[f] = "listen" /\ k \in Queued)
                 THEN [net[k] EXCEPT !.at = "gone"] ELSE net[k]]
    /\ UNCHANGED input

Init ==
    /\ srv = Idle
    /\ threaded \in BOOLEAN
    /\ locked = FALSE /\ raced = FALSE
    /\ loop = "off" /\ app = "new"
    /\ rd = {} /\ it = 0 /\ upto = 0 /\ cur = 0
    /\ file = [f \in Fd |-> IF f = UserFd THEN "user" ELSE IF f = 0 THEN "other" ELSE "free"]
    /\ net = [k \in Client |-> [at |-> "away", unread |-> 0, hup |-> FALSE]]
    /\ input = FALSE

Program == <<srv, threaded, locked, loop, walk, app, raced>>

Connect(k) ==
    /\ net[k].at = "away" /\ \E f \in Fd : file[f] = "listen"
    /\ net' = [net EXCEPT ![k].at = "queued"]
    /\ UNCHANGED <<Program, file, input>>

Send(k) ==
    /\ net[k].at \in {"queued", "in"} /\ ~net[k].hup /\ net[k].unread < MaxUnread
    /\ net' = [net EXCEPT ![k].unread = @ + 1]
    /\ UNCHANGED <<Program, file, input>>

Hangup(k) ==
    /\ net[k].at \in {"queued", "in"} /\ ~net[k].hup
    /\ net' = [net EXCEPT ![k].hup = TRUE]
    /\ UNCHANGED <<Program, file, input>>

TypeInput ==
    /\ ~input /\ input' = TRUE
    /\ UNCHANGED <<Program, file, net>>

-----------------------------------------------------------------------------
\* The select loop.

\* selectLoop's first line.
Begin ==
    /\ loop = "begin"
    /\ loop' = IF srv.sock = 0 THEN "returned" ELSE "copy"
    /\ UNCHANGED <<srv, threaded, locked, walk, app, world, raced>>

CopySet ==
    /\ loop = "copy"
    /\ rd' = srv.fds
    /\ loop' = "enter"
    /\ UNCHANGED <<srv, threaded, locked, it, upto, cur, app, world, raced>>

\* select() looks at the descriptors up to mfdMax; one that is not open is an
\* error, and the loop breaks.  (It breaks on any error: there is no other, as
\* the program installs no signal handler and the timeout is a valid one.)
EnterSelect ==
    /\ loop = "enter"
    /\ rd' = {f \in rd : f <= srv.max}
    /\ loop' = IF \E f \in rd' : file[f] = "free" THEN "done" ELSE "select"
    /\ UNCHANGED <<srv, threaded, locked, it, upto, cur, app, world, raced>>

\* It returns all that can be read, or nothing when its time is up.
LeaveSelect ==
    /\ loop = "select"
    /\ rd' = {f \in rd : Readable(f)}
    /\ loop' = IF rd' = {} THEN "test" ELSE "accept"
    /\ UNCHANGED <<srv, threaded, locked, it, upto, cur, app, world, raced>>

\* FD_ISSET(mSocket) and accept().  mSocket may have become 0.
Accept ==
    /\ loop = "accept"
    /\ IF srv.sock \in rd /\ file[srv.sock] = "listen" /\ Queued # {} /\ FreeFds # {}
       THEN \E k \in Queued :
              /\ cur' = Min(FreeFds)
              /\ file' = [file EXCEPT ![cur'] = k]
              /\ net' = [net EXCEPT ![k].at = "in"]
              /\ loop' = "register"
              /\ raced' = (raced \/ app \notin {"new", "inited", "serving"})
              /\ UNCHANGED <<it, upto>>
       ELSE /\ loop' = "clients" /\ it' = 1 /\ upto' = srv.clients.n
            /\ UNCHANGED <<cur, file, net, raced>>
    /\ UNCHANGED <<srv, threaded, locked, rd, app, input>>

\* serverasync takes the lock, serversync does not.  The OnClientConnect
\* callback gives the record its transfer class.
Register ==
    /\ loop = "register" /\ (threaded => ~locked)
    /\ srv' = Watched(srv, cur)
    /\ loop' = "push"
    /\ UNCHANGED <<threaded, locked, walk, app, world, raced>>

\* mClients.push_back after the lock is released.  When the application is
\* going through the list meanwhile, the behaviour is undefined.
Push ==
    /\ loop = "push"
    /\ IF locked
       THEN loop' = "undefined" /\ raced' = TRUE /\ UNCHANGED <<srv, it, upto, cur>>
       ELSE /\ srv' = Listed(srv, cur)
            /\ loop' = "clients" /\ it' = 1 /\ upto' = srv'.clients.n /\ cur' = 0
            /\ UNCHANGED raced
    /\ UNCHANGED <<threaded, locked, rd, app, world>>

Visited == srv.clients.mem[it]

\* The range-for over mClients, without the lock.
SkipClient ==
    /\ loop = "clients" /\ it <= upto /\ Visited.sock \notin rd
    /\ it' = it + 1
    /\ UNCHANGED <<srv, threaded, locked, loop, rd, upto, cur, app, world, raced>>

CallData ==
    /\ loop = "clients" /\ it <= upto /\ Visited.sock \in rd
    /\ loop' = "data"
    /\ UNCHANGED <<srv, threaded, locked, walk, app, world, raced>>

\* onClientData: nothing to do for a record without a socket, or whose
\* transfer class holds a closed one, or (unless it blocks) nothing to read.
DataNothing ==
    /\ loop = "data"
    /\ \/ Visited.sock = 0 \/ file[Visited.xfer] \notin Client
       \/ ~AcceptedBlock /\ ~Readable(Visited.xfer)
    /\ loop' = "clients" /\ it' = it + 1
    /\ UNCHANGED <<srv, threaded, locked, rd, upto, cur, app, world, raced>>

\* What was sent is read; when it fills the region, recv() is called again.
DataRead ==
    /\ loop = "data" /\ Visited.sock # 0 /\ file[Visited.xfer] \in Client
    /\ net[file[Visited.xfer]].unread > 0
    /\ net' = [net EXCEPT ![file[Visited.xfer]].unread = 0]
    /\ \/ loop' = "clients" /\ it' = it + 1
       \/ UNCHANGED <<loop, it>>
    /\ UNCHANGED <<srv, threaded, locked, rd, upto, cur, app, file, input, raced>>

\* Mutant: a client that hung up is let go of before it was read.
DataHangupEarly ==
    /\ loop = "data" /\ Visited.sock # 0 /\ file[Visited.xfer] \in Client
    /\ net[file[Visited.xfer]].hup
    /\ loop' = "disconnect"
    /\ UNCHANGED <<srv, threaded, locked, walk, app, world, raced>>

\* recv() says the peer hung up.
DataHangup ==
    /\ loop = "data" /\ Visited.sock # 0 /\ file[Visited.xfer] \in Client
    /\ net[file[Visited.xfer]].unread = 0 /\ net[file[Visited.xfer]].hup
    /\ loop' = "disconnect"
    /\ UNCHANGED <<srv, threaded, locked, walk, app, world, raced>>

\* disconnectClient(&cli).  A record that is no longer in the list makes it
\* erase end().
DisconnectClient ==
    /\ loop = "disconnect" /\ ~locked
    /\ IF FoundAt(srv, it) > srv.clients.n
       THEN /\ loop' = "undefined" /\ raced' = TRUE
            /\ UNCHANGED <<srv, it, file, net, input>>
       ELSE /\ srv' = Disconnected(srv, it)
            /\ Close({Visited.sock} \ {0})
            /\ loop' = "clients" /\ it' = it + 1
            /\ UNCHANGED raced
    /\ UNCHANGED <<threaded, locked, rd, upto, cur, app>>

\* The end of the list, then the user's descriptors: the callback is any
\* application's that reads its input and leaves the server alone.
CallUser ==
    /\ loop = "clients" /\ it > upto
    /\ input' = (input /\ ~(UserFd \in Elements(srv.users) \cap rd))
    /\ loop' = "test"
    /\ UNCHANGED <<srv, threaded, locked, walk, app, file, net, raced>>

\* while (mfdMax > 0)
Test ==
    /\ loop = "test"
    /\ loop' = IF srv.max > 0 THEN "copy" ELSE "done"
    /\ UNCHANGED <<srv, threaded, locked, walk, app, world, raced>>

Loop ==
    \/ Begin \/ CopySet \/ EnterSelect \/ LeaveSelect \/ Accept \/ Register
    \/ Push \/ SkipClient \/ CallData \/ DataNothing \/ DataRead \/ DataHangup
    \/ DisconnectClient \/ CallUser \/ Test

-----------------------------------------------------------------------------
\* The application: init, captureUserReadFd, waitForClients, later term.

\* (init returns false when there is no descriptor for its socket.)
init ==
    /\ app = "new" /\ FreeFds # {}
    /\ srv' = Captured(Listening(srv, Min(FreeFds)), UserFd)
    /\ file' = [file EXCEPT ![Min(FreeFds)] = "listen"]
    /\ app' = "inited"
    /\ UNCHANGED <<threaded, locked, loop, walk, net, input, raced>>

waitForClients ==
    /\ app = "inited"
    /\ loop' = "begin" /\ app' = "serving"
    /\ UNCHANGED <<srv, threaded, locked, walk, world, raced>>

\* term: disconnectAllClients takes the lock ...
LockClients ==
    /\ app = "serving" /\ loop # "undefined"
    /\ locked' = TRUE /\ app' = "dropping"
    /\ raced' = (loop \in {"register", "push"})
    /\ UNCHANGED <<srv, threaded, loop, walk, world>>

\* Mutant: the list is cleared and the sockets stay open.
DisconnectAllClientsOpen ==
    /\ app = "dropping" /\ loop # "undefined"
    /\ srv' = AllDisconnected(srv)
    /\ locked' = FALSE /\ app' = "closing"
    /\ UNCHANGED <<threaded, loop, walk, world, raced>>

\* ... calls onClientDisconnect for each record, which reads until there is
\* nothing left to read, and closes them.
DisconnectAllClients ==
    /\ app = "dropping" /\ loop # "undefined"
    /\ AcceptedBlock => \A f \in Sockets(srv) : file[f] \in Client => net[file[f]].hup
    /\ srv' = AllDisconnected(srv)
    /\ Close(Sockets(srv) \ {0})
    /\ locked' = FALSE /\ app' = "closing"
    /\ UNCHANGED <<threaded, loop, walk, raced>>

\* The listening socket is closed; when close() fails the rest is skipped.
CloseListener(ok) ==
    /\ app = "closing" /\ loop # "undefined"
    /\ srv' = Closed(srv)
    /\ Close({srv.sock})
    /\ app' = IF ok THEN "forgetting" ELSE "joining"
    /\ UNCHANGED <<threaded, locked, loop, walk, raced>>

Forget ==
    /\ app = "forgetting" /\ loop # "undefined"
    /\ srv' = Forgotten(srv)
    /\ app' = "joining"
    /\ UNCHANGED <<threaded, locked, loop, walk, world, raced>>

\* serverasync joins its thread; serversync waits for sessionStop, which a
\* loop that returned at its first line has not set.
Join ==
    /\ app = "joining"
    /\ loop = "done" \/ (threaded /\ loop = "returned")
    /\ app' = "terminated"
    /\ UNCHANGED <<srv, threaded, locked, loop, walk, world, raced>>

Term ==
    \/ LockClients \/ DisconnectAllClients \/ Forget \/ Join
    \/ \E ok \in BOOLEAN : CloseListener(ok)

Next ==
    \/ Loop \/ init \/ waitForClients \/ Term \/ TypeInput
    \/ \E k \in Client : Connect(k) \/ Send(k) \/ Hangup(k)

\* select() is always given a timeout, so the loop never waits for good in it;
\* a term() that was called goes on.  Nobody has to connect, send or call.
Spec ==
    /\ Init /\ [][Next]_vars
    /\ WF_vars(Loop)
    /\ WF_vars(Term /\ app # "serving")

-----------------------------------------------------------------------------
TypeOK ==
    /\ srv \in Servers /\ rd \subseteq Fd /\ cur \in Fd
    /\ it \in Nat /\ upto \in 0 .. Len(srv.clients.mem)
    /\ loop \in {"clients", "data", "disconnect"} => it > 0
    /\ loop \in {"data", "disconnect"} => it <= upto
    /\ loop \in {"off", "begin", "returned", "copy", "enter", "select", "accept",
                 "register", "push", "clients", "data", "disconnect", "test",
                 "done", "undefined"}
    /\ app \in {"new", "inited", "serving", "dropping", "closing", "forgetting", "joining",
                "terminated"}
    /\ file \in [Fd -> {"free", "listen", "user", "other"} \cup Client]
    /\ net \in [Client -> [at : {"away", "queued", "in", "gone"},
                            unread : 0 .. MaxUnread, hup : BOOLEAN]]
    /\ threaded \in BOOLEAN /\ locked \in BOOLEAN /\ input \in BOOLEAN /\ raced \in BOOLEAN

\* While the server serves, the records are exactly the connections it holds,
\* but for the one it is accepting: none twice, none forgotten (accept ..
\* push_back, disconnectClient's erase).
RecordsAreConnections ==
    app = "serving" =>
        LET held == {f \in Fd : file[f] \in Client}
        IN  /\ Sockets(srv) = held \ {cur}
            /\ Cardinality(Sockets(srv)) = srv.clients.n

\* While the server serves, select() is told of every connection, up to the
\* largest descriptor, and of no descriptor that is closed (an error that
\* would end the loop).
WatchedAreOpen ==
    app = "serving" =>
        /\ \A r \in Elements(srv.clients) : r.sock \in srv.fds /\ r.sock <= srv.max
        /\ \A f \in srv.fds : file[f] # "free"

\* The loop ends only once term() has been called.
LoopEndsAtTerm == loop \in {"done", "returned"} => app # "serving"

\* While the server serves, it closes only connections whose client has hung
\* up, and only when all the client sent was read: neither a slot left behind
\* by an erase nor a record moved by one makes it drop somebody else.
OnlyFinishedAreDropped ==
    [][app = "serving" =>
         \A k \in Client :
            net[k].at = "in" /\ net'[k].at = "gone" => net[k].hup /\ net[k].unread = 0]_vars

\* readme.txt's rule for callbacks, kept: onClientData returns each time.  (It
\* does not when recv() blocks on a socket with nothing to read.)
CallbacksReturn == []<>(loop # "data")

\* As long as its callbacks return, a server that serves accepts everyone who
\* connects, reads what they send and lets go of those who hang up, unless
\* term() is called.
Serves ==
    CallbacksReturn =>
      \A k \in Client :
        /\ net[k].at = "queued" ~> net[k].at # "queued" \/ app # "serving"
        /\ net[k].at = "in" /\ (net[k].unread > 0 \/ net[k].hup)
             ~> \/ net[k].unread = 0 /\ (net[k].hup => net[k].at = "gone")
                \/ app # "serving"

\* No client stays connected for good.
ClientsLeave == \A k \in Client : []<>(net[k].at = "in" => net[k].hup)

\* term() returns, provided that no client stays connected for good (accepted
\* sockets block, and term reads each to its end), that nobody is accepted and
\* nothing undefined happens meanwhile, and that the loop of a serversync had
\* begun.
TermReturns ==
    ClientsLeave =>
      (app = "dropping" ~>
         \/ app = "terminated"
         \/ raced
         \/ ~threaded /\ loop = "returned")

\* A term() that nobody raced leaves no client connected and no socket open.
NothingLeft ==
    app = "terminated" /\ ~raced =>
        \A f \in Fd : file[f] \in {"free", "user", "other"}

-----------------------------------------------------------------------------
\* What the documents say and the code does not keep (README, "Findings").

\* serverasync.cpp, on the accepting thread: "It should finish because the
\* socket was closed".
ThreadFinishes ==
    threaded /\ app = "dropping" ~> app = "terminated" \/ loop = "undefined"

=============================================================================
