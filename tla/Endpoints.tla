----------------------------- MODULE Endpoints ------------------------------
(***************************************************************************)
(* How a client and a server of tcplib come by their sockets and let go of *)
(* them: setLocal, init, connect and term of class client, init, term and  *)
(* captureUserReadFd of class server, with what serverasync and serversync *)
(* add.  The program calls the methods in any order, and every system call *)
(* may fail.  What the server does with its clients is in module Server.   *)
(*                                                                         *)
(* fdt    the sockets that are open: family and state                      *)
(* cli    mSocket, mNetAddr, mLocal; `given` when mAddress and mPort are   *)
(* srv    the server's record of ServerOps: mSocket, mUserReadFds, mfdAll  *)
(* svr    its mNetAddr and mAddress; whether a port is given; the class;   *)
(*        whether call_once has run, and the loop's thread is joinable     *)
(* last   the last call and whether it returned true                       *)
(* strayed  a captured descriptor may be unwatched (see CaptureUserReadFd)  *)
(* aborted  std::terminate                                                 *)
(***************************************************************************)
EXTENDS ServerOps, NetAddress

CONSTANTS
    Resolved,       \* what getaddrinfo may return: sequences of families
    UserFd          \* numbers the application passes to captureUserReadFd

ASSUME EndpointsAssumption == UserFd \subseteq Fd /\ <<>> \notin Resolved

VARIABLES fdt, cli, srv, svr, last, strayed, aborted

vars == <<fdt, cli, srv, svr, last, strayed, aborted>>

\* The constructor does not clear mfdAll: it holds anything until init or term.
Init ==
    /\ fdt = <<>>
    /\ \E given \in BOOLEAN :
         cli = [sock |-> 0, net |-> NoInfo, local |-> NoInfo, given |-> given]
    /\ \E noise \in SUBSET UserFd : srv = [Idle EXCEPT !.fds = noise]
    /\ \E port, async \in BOOLEAN, name \in {"", "name"} :
         svr = [net |-> NoInfo, address |-> name, port |-> port, async |-> async,
                once |-> FALSE, joinable |-> FALSE]
    /\ last = [call |-> "none", ok |-> TRUE]
    /\ strayed = FALSE /\ aborted = FALSE

-----------------------------------------------------------------------------
\* Sockets.  0, 1 and 2 are open in every process.  The application opens and
\* closes descriptors of its own, so that socket() may return any other.

FreeFds(t) == {fd \in Fd : fd > 2 /\ fd \notin DOMAIN t}

Opened(t, fd, family, state) ==
    [f \in DOMAIN t \cup {fd} |->
        IF f = fd THEN [family |-> family, state |-> state] ELSE t[f]]

\* Mutant: a socket that is of no use is left open.
ClosedLater(t, fd) == t

\* close(): the descriptor is gone, also when the call fails.
ClosedFd(t, fd) == [f \in DOMAIN t \ {fd} |-> t[f]]

Returns(call, ok) == last' = [call |-> call, ok |-> ok]

\* Mutant: a socket that is there already is not looked at.
MayInitAgain(given, sock) == given

\* The first tests of both init()s.
MayInit(given, sock) == given /\ sock = 0

-----------------------------------------------------------------------------
\* client

\* setLocal, before init: the addresses the socket is to be bound to.
SetLocal ==
    \E list \in Resolved \cup {<<>>} :
        /\ cli' = [cli EXCEPT !.local = NewInfo(list)]
        /\ Returns("setLocal", list # <<>>)
        /\ UNCHANGED <<fdt, srv, svr, strayed, aborted>>

\* The search for a server address in client::init.  It opens a socket for
\* the first address and closes it again; it looks at mSocket, which is 0,
\* for the failure, so that it never tries the second.
ServerAddress(a) == SelectInfo(a, 1)

\* bindToLocal: the first address of mLocal that bind() accepts, if any.
BindToLocal(state, local) == IF local.info = <<>> THEN {state} ELSE {state, "bound"}

\* Mutant: the address is kept when no socket can be opened for it.
ClientFailedKeepsAddress(c, net) == [c EXCEPT !.net = net]

\* client::init when it has no socket in the end.
ClientFailed(c, net) == [c EXCEPT !.net = DelInfo(net)]

ClientInit ==
    /\ \/ /\ ~MayInit(cli.given, cli.sock)
          /\ Returns("clientInit", FALSE)
          /\ UNCHANGED <<fdt, cli>>
       \/ /\ MayInit(cli.given, cli.sock)       \* getaddrinfo fails
          /\ cli' = [cli EXCEPT !.net = NoInfo]
          /\ Returns("clientInit", FALSE)
          /\ UNCHANGED fdt
       \/ /\ MayInit(cli.given, cli.sock)
          /\ \E list \in Resolved, opened \in BOOLEAN :
               LET net == ServerAddress(NewInfo(list))
               IN IF opened
                  THEN \E fd \in FreeFds(fdt), state \in BindToLocal("open", cli.local) :
                         /\ fdt' = Opened(fdt, fd, Active(net), state)
                         /\ cli' = [cli EXCEPT !.net = net, !.sock = fd]
                         /\ Returns("clientInit", TRUE)
                  ELSE /\ cli' = ClientFailed(cli, net)
                       /\ Returns("clientInit", FALSE)
                       /\ UNCHANGED fdt
    /\ UNCHANGED <<srv, svr, strayed, aborted>>

Connect ==
    /\ \/ /\ cli.sock # 0 /\ fdt[cli.sock].state \in {"open", "bound"}
          /\ fdt' = [fdt EXCEPT ![cli.sock].state = "connected"]
          /\ Returns("connect", TRUE)
       \/ /\ Returns("connect", FALSE)
          /\ UNCHANGED fdt
    /\ UNCHANGED <<cli, srv, svr, strayed, aborted>>

\* client::term, also from the destructor.
ClientTerm ==
    /\ fdt' = IF cli.sock > 0 THEN ClosedFd(fdt, cli.sock) ELSE fdt
    /\ cli' = [cli EXCEPT !.local = DelInfo(@), !.net = DelInfo(@), !.sock = 0]
    /\ \E closed \in BOOLEAN :
         /\ ~closed => cli.sock > 0
         /\ Returns("clientTerm", closed)
    /\ UNCHANGED <<srv, svr, strayed, aborted>>

-----------------------------------------------------------------------------
\* server

\* server::term, when close() succeeds or fails: what failed keeps its set.
TermServer(s, closed) ==
    IF s.sock > 0 /\ ~closed THEN Closed(AllDisconnected(s))
    ELSE Forgotten(Closed(AllDisconnected(s)))

\* The steps of init in their order; the one that fails, or "none".
Steps == {"resolve", "socket", "address", "bind", "listen", "fcntl", "none"}

\* init of serverasync and serversync, when it gets to the addresses: both call
\* server::init and make the socket non-blocking.  mAddress keeps the text of
\* the address that was tried, whatever becomes of the socket.
TryInit(list, failing, closed, fd) ==
    LET net == NewInfo(list)
        tried == failing \notin {"resolve", "socket"}
        t == Opened(fdt, fd, Active(net), "listening")
    IN /\ IF tried THEN fd \in FreeFds(fdt) /\ (failing = "address" <=> Text(net) = "")
                   ELSE fd = 0
       /\ ~closed => failing = "fcntl"
       /\ svr' = [svr EXCEPT !.net = IF failing = "none" THEN net ELSE NoInfo,
                             !.address = IF tried THEN Text(net) ELSE @]
       /\ fdt' = IF failing = "none" THEN t ELSE IF tried THEN ClosedFd(t, fd) ELSE fdt
       /\ srv' = IF failing = "none" THEN Listening(srv, fd)
                 ELSE IF failing = "fcntl" THEN TermServer(Listening(srv, fd), closed)
                 ELSE srv
       /\ strayed' = IF failing = "fcntl" THEN ~closed ELSE strayed
       /\ Returns("serverInit", failing = "none")

ServerInit ==
    /\ \/ /\ ~MayInit(svr.port, srv.sock)
          /\ Returns("serverInit", FALSE)
          /\ UNCHANGED <<fdt, srv, svr, strayed>>
       \/ /\ MayInit(svr.port, srv.sock)
          /\ \E list \in Resolved, failing \in Steps, closed \in BOOLEAN, fd \in Fd :
               TryInit(list, failing, closed, fd)
    /\ UNCHANGED <<cli, aborted>>

\* serverasync::waitForClients: once in the life of the object.
WaitForClients ==
    /\ svr.async
    /\ svr' = IF svr.once THEN svr ELSE [svr EXCEPT !.once = TRUE, !.joinable = TRUE]
    /\ Returns("waitForClients", TRUE)
    /\ UNCHANGED <<fdt, cli, srv, strayed, aborted>>

\* captureUserReadFd(fd, true), of any descriptor and at any time.  What is
\* captured with no listening socket strays: init clears the set, not the
\* vector.
CaptureUserReadFd ==
    /\ \E fd \in UserFd : srv' = Captured(srv, fd)
    /\ strayed' = (strayed \/ srv.sock = 0)
    /\ Returns("capture", TRUE)
    /\ UNCHANGED <<fdt, cli, svr, aborted>>

DelUserReadFd(users, fd) ==
    LET at == {i \in 1 .. users.n : users.mem[i] = fd}
    IN IF at = {} THEN users ELSE Erase(users, Min(at))

\* Mutant: mfdMax is kept.
ReleasedKeepsMax(s, fd) == [s EXCEPT !.fds = @ \ {fd}, !.users = DelUserReadFd(@, fd)]

\* captureUserReadFd(fd, false)
Released(s, fd) ==
    LET t == [s EXCEPT !.fds = @ \ {fd}]
    IN [t EXCEPT !.max = IF fd = s.max THEN FdMax(t) ELSE @,
                 !.users = DelUserReadFd(@, fd)]

\* A number the listening socket has got, in case the application passes it,
\* takes the socket out of the set.
ReleaseUserReadFd ==
    /\ \E fd \in UserFd : srv' = Released(srv, fd) /\ strayed' = (strayed \/ fd = srv.sock)
    /\ Returns("release", TRUE)
    /\ UNCHANGED <<fdt, cli, svr, aborted>>

\* term() of the two classes, also from their destructors.  serverasync joins
\* its thread; when there is none to join the exception ends the process.
\* serversync waits for sessionStop, for ever without a loop; that wait is left
\* out, and more calls may follow here than in the program.
ServerTerm ==
    \E closed \in BOOLEAN :
        /\ ~closed => srv.sock > 0
        /\ svr' = [svr EXCEPT !.net = DelInfo(@), !.joinable = FALSE]
        /\ fdt' = IF srv.sock > 0 THEN ClosedFd(fdt, srv.sock) ELSE fdt
        /\ srv' = TermServer(srv, closed)
        /\ strayed' = ~closed
        /\ aborted' = (svr.async /\ ~svr.joinable)
        /\ Returns("serverTerm", closed)
        /\ UNCHANGED cli

Next ==
    /\ ~aborted
    /\ \/ SetLocal \/ ClientInit \/ Connect \/ ClientTerm
       \/ ServerInit \/ WaitForClients \/ CaptureUserReadFd \/ ReleaseUserReadFd
       \/ ServerTerm

Spec == Init /\ [][Next]_vars

-----------------------------------------------------------------------------
\* What must hold.

\* A netaddress holds nothing or a list that getaddrinfo returned.
Infos == {NoInfo} \cup {NewInfo(list) : list \in Resolved}

TypeOK ==
    /\ DOMAIN fdt \subseteq Fd
    /\ fdt \in [DOMAIN fdt -> [family : {list[1] : list \in Resolved},
                              state : {"open", "bound", "connected", "listening"}]]
    /\ cli \in [sock : Fd, net : Infos, local : Infos, given : BOOLEAN]
    /\ srv \in Servers
    /\ svr \in [net : Infos, address : {"", "name", "ipv4", "ipv6"}, port : BOOLEAN,
                async : BOOLEAN, once : BOOLEAN, joinable : BOOLEAN]
    /\ last.ok \in BOOLEAN /\ strayed \in BOOLEAN /\ aborted \in BOOLEAN

\* Whatever call failed, every open socket is the mSocket of one object, and
\* a socket an object has is open.
NoSocketLost ==
    /\ DOMAIN fdt = {cli.sock, srv.sock} \ {0}
    /\ cli.sock # 0 => cli.sock # srv.sock

\* An object has an address exactly as long as it has a socket, so that
\* connect() never follows a null address; the socket is of that address's
\* family, and a server that has one listens at the address it names.
SocketHasAddress ==
    /\ cli.sock # 0 <=> cli.net.info # <<>>
    /\ srv.sock # 0 <=> svr.net.info # <<>>
    /\ cli.sock # 0 => fdt[cli.sock].family = Active(cli.net)
    /\ srv.sock # 0 =>
         /\ fdt[srv.sock].state = "listening"
         /\ fdt[srv.sock].family = Active(svr.net) /\ svr.address = Active(svr.net)

\* Over all its lives, whatever descriptors are captured and released and when,
\* a server that listens watches nothing but its socket and the descriptors in
\* its vector, and mfdMax is one of these and not below the socket.  It watches
\* all of them, and without a socket has none, unless a descriptor was captured
\* with no socket, its socket's number was released, or term() stopped half
\* way because the socket's close() failed.
WatchesWhatItHas ==
    LET has == {srv.sock} \cup Elements(srv.users)
    IN /\ srv.sock # 0 => srv.fds \subseteq has /\ srv.max \in has /\ srv.sock <= srv.max
       /\ ~strayed => IF srv.sock = 0 THEN Elements(srv.users) = {} ELSE srv.fds = has

\* An init that returns false leaves every socket as it was: a connection or
\* a server that is up already, and no new socket.
FailedInitHasNoEffect ==
    [][last'.call \in {"clientInit", "serverInit"} /\ ~last'.ok
         => fdt' = fdt /\ cli'.sock = cli.sock /\ srv'.sock = srv.sock]_vars

=============================================================================
