--------------------------- MODULE EndpointsProofs ---------------------------
(***************************************************************************)
(* However the methods of a client and a server are called and whichever   *)
(* system call fails, no socket is lost, addresses go with sockets, and    *)
(* the server watches what it was asked to: for all descriptors, for all   *)
(* that getaddrinfo may return and for all user descriptors.               *)
(***************************************************************************)
EXTENDS Endpoints, OpsProofs

\* The values of fdt, cli and svr.
Families == {list[1] : list \in Resolved}
States == {"open", "bound", "connected", "listening"}
SockType == [family : Families, state : States]
FdTable(t) == t \in [DOMAIN t -> SockType]
CliType == [sock : Fd, net : Infos, local : Infos, given : BOOLEAN]
SvrType == [net : Infos, address : {"", "name", "ipv4", "ipv6"}, port : BOOLEAN,
            async : BOOLEAN, once : BOOLEAN, joinable : BOOLEAN]

DistinctUsers(users) == \A i, j \in 1 .. users.n : users.mem[i] = users.mem[j] => i = j

\* The sockets are those of the two objects, above standard error.
SocketsAreFds ==
    /\ cli.sock # 0 => cli.sock > 2
    /\ srv.sock # 0 => srv.sock > 2

\* No client is ever in the list here, and the user descriptors are listed
\* once.
UsersListed ==
    /\ srv.clients.n = 0
    /\ DistinctUsers(srv.users) /\ Elements(srv.users) \subseteq UserFd

Inv == TypeOK /\ NoSocketLost /\ SocketHasAddress /\ WatchesWhatItHas
       /\ SocketsAreFds /\ UsersListed

-----------------------------------------------------------------------------
\* Addresses.

\* What a name resolves to is an address of the first family.
LEMMA NewInfoActive ==
  ASSUME NEW list \in Resolved
  PROVE  /\ NewInfo(list) \in Infos /\ ServerAddress(NewInfo(list)) = NewInfo(list)
         /\ NewInfo(list).info # <<>> /\ Active(NewInfo(list)) = list[1]
         /\ NewInfo(list).active # Null
  <1>1. list # <<>>
    BY EndpointsAssumption
  <1>2. NewInfo(list) = [info |-> list, active |-> 1, idx |-> 0]
    BY <1>1 DEF NewInfo
  <1>3. ServerAddress(NewInfo(list)) = NewInfo(list)
    <2>1. 1 - 1 = 0
      OBVIOUS
    <2>2. ServerAddress(NewInfo(list)) \in {NewInfo(list), [NewInfo(list) EXCEPT !.active = 1, !.idx = 0]}
      BY <2>1 DEF ServerAddress, SelectInfo
    <2>3. [NewInfo(list) EXCEPT !.active = 1, !.idx = 0] = NewInfo(list)
      <3> DEFINE a == NewInfo(list)
      <3>1. a \in [info : {list}, active : Nat, idx : Nat] /\ a.active = 1 /\ a.idx = 0
        BY <1>2
      <3> HIDE DEF a
      <3>2. [a EXCEPT !.active = 1, !.idx = 0] = a
        BY <3>1
      <3> QED
        BY <3>2 DEF a
    <2> QED
      BY <2>2, <2>3
  <1> QED
    BY <1>1, <1>2, <1>3 DEF Infos, Active, Null

\* An address that is let go of is none.
LEMMA DelInfoNone ==
  ASSUME NEW a \in Infos
  PROVE  DelInfo(a) \in Infos /\ DelInfo(a).info = <<>>
  BY DEF DelInfo, NoInfo, Infos

\* newinfo makes an address of what getaddrinfo returned, or none.
LEMMA NewInfoType ==
  ASSUME NEW list \in Resolved \cup {<<>>}
  PROVE  NewInfo(list) \in Infos
  BY DEF NewInfo, NoInfo, Infos

\* The text of an address is that of its first entry, if it has one.
LEMMA TextOfAddress ==
  ASSUME NEW list \in Resolved
  PROVE  /\ Text(NewInfo(list)) \in {"", "ipv4", "ipv6"}
         /\ Text(NewInfo(list)) # "" => Text(NewInfo(list)) = list[1]
  BY NewInfoActive DEF Text

-----------------------------------------------------------------------------
\* Descriptors.

\* The descriptor socket() returns was not open and is above standard error.
LEMMA FreeFdIsFree ==
  ASSUME NEW t, NEW fd \in FreeFds(t)
  PROVE  fd \in Fd /\ fd > 2 /\ fd \notin DOMAIN t /\ fd > 0 /\ fd # 0
  BY FdAssumption DEF FreeFds

\* Opened and closed again, it never was.
LEMMA OpenedThenClosed ==
  ASSUME NEW t, FdTable(t), NEW fd, fd \notin DOMAIN t,
         NEW family \in Families, NEW state \in States
  PROVE  ClosedFd(Opened(t, fd, family, state), fd) = t
  <1> DEFINE D == DOMAIN t
             u == Opened(t, fd, family, state)
  <1>1. u = [f \in D \cup {fd} |-> IF f = fd THEN [family |-> family, state |-> state] ELSE t[f]]
    BY DEF Opened
  <1>2. (D \cup {fd}) \ {fd} = D
    OBVIOUS
  <1>3. ClosedFd(u, fd) = [f \in D |-> u[f]]
    BY <1>1, <1>2 DEF ClosedFd
  <1>4. \A f \in D : u[f] = t[f]
    BY <1>1
  <1> QED
    BY <1>3, <1>4 DEF FdTable

\* close() takes its descriptor out of the table and no other.
LEMMA ClosedFdDomain ==
  ASSUME NEW t, NEW fd
  PROVE  /\ DOMAIN ClosedFd(t, fd) = DOMAIN t \ {fd}
         /\ \A f \in DOMAIN t \ {fd} : ClosedFd(t, fd)[f] = t[f]
  BY DEF ClosedFd

-----------------------------------------------------------------------------
\* The user descriptors.

\* delUserReadFd takes the descriptor out of the vector, wherever it is.
LEMMA DelUser ==
  ASSUME NEW v \in Vectors(Fd), DistinctUsers(v), NEW fd \in Fd
  PROVE  /\ DelUserReadFd(v, fd) \in Vectors(Fd)
         /\ Elements(DelUserReadFd(v, fd)) = Elements(v) \ {fd}
         /\ DistinctUsers(DelUserReadFd(v, fd))
  <1> DEFINE at == {i \in 1 .. v.n : v.mem[i] = fd}
             q == Min(at)
             w == Erase(v, q)
  <1>1. v.n \in Nat /\ v.n <= Len(v.mem) /\ Len(v.mem) \in Nat
    BY DEF Vectors
  <1>2. CASE at = {}
    BY <1>2 DEF DelUserReadFd, Elements
  <1>3. CASE at # {}
    <2>1. DelUserReadFd(v, fd) = w
      BY <1>3 DEF DelUserReadFd
    <2>2. q \in at
      <3>1. at \in SUBSET Nat
        OBVIOUS
      <3> HIDE DEF at
      <3> QED
        BY <1>3, <3>1, MinOfNat
    <2>3. q \in 1 .. v.n /\ v.mem[q] = fd
      BY <2>2
    <2> HIDE DEF q
    <2>4. /\ w \in Vectors(Fd) /\ w.n = v.n - 1
          /\ \A j \in 1 .. Len(v.mem) :
                w.mem[j] = IF j >= q /\ j < v.n THEN v.mem[j + 1] ELSE v.mem[j]
          /\ Elements(w) = {v.mem[j] : j \in (1 .. v.n) \ {q}}
      BY <2>3, EraseVector
    <2> HIDE DEF w
    <2>5. Elements(w) = Elements(v) \ {fd}
      <3>1. \A j \in (1 .. v.n) \ {q} : v.mem[j] # fd
        BY <2>3 DEF DistinctUsers
      <3> QED
        BY <2>3, <2>4, <3>1 DEF Elements
    <2>6. ASSUME NEW i \in 1 .. w.n, NEW j \in 1 .. w.n, w.mem[i] = w.mem[j] PROVE i = j
      <3> DEFINE At(l) == IF l >= q THEN l + 1 ELSE l
      <3>1. q \in Nat /\ i \in Nat /\ j \in Nat
        BY <2>3
      <3>2. At(i) \in 1 .. v.n /\ At(j) \in 1 .. v.n
        BY <1>1, <2>4, <3>1
      <3>3. w.mem[i] = v.mem[At(i)] /\ w.mem[j] = v.mem[At(j)]
        <4>1. i \in 1 .. Len(v.mem) /\ i < v.n /\ j \in 1 .. Len(v.mem) /\ j < v.n
          BY <1>1, <2>4
        <4>2. w.mem[i] = IF i >= q THEN v.mem[i + 1] ELSE v.mem[i]
          BY <2>4, <4>1
        <4>3. w.mem[j] = IF j >= q THEN v.mem[j + 1] ELSE v.mem[j]
          BY <2>4, <4>1
        <4> QED
          BY <4>2, <4>3
      <3>4. At(i) = At(j)
        BY <2>6, <3>2, <3>3 DEF DistinctUsers
      <3> QED
        BY <3>1, <3>4
    <2> QED
      BY <2>1, <2>4, <2>5, <2>6 DEF DistinctUsers
  <1> QED
    BY <1>2, <1>3

\* addUserReadFd does not list a descriptor twice.
LEMMA PushUser ==
  ASSUME NEW v \in Vectors(Fd), DistinctUsers(v), NEW fd \in Fd, fd \notin Elements(v)
  PROVE  DistinctUsers(PushBack(v, fd))
  <1> DEFINE w == PushBack(v, fd)
  <1>1. v.n \in Nat
    BY DEF Vectors
  <1>2. /\ w \in Vectors(Fd) /\ w.n = v.n + 1
        /\ \A i \in 1 .. Len(w.mem) : w.mem[i] = IF i = v.n + 1 THEN fd ELSE v.mem[i]
    <2>1. /\ w \in Vectors(Fd) /\ w.n = v.n + 1
          /\ \A i \in 1 .. Len(PushBack(v, fd).mem) :
                PushBack(v, fd).mem[i] = IF i = v.n + 1 THEN fd ELSE v.mem[i]
      BY PushBackVector
    <2> QED
      BY <2>1
  <1>3. w.n <= Len(w.mem) /\ Len(w.mem) \in Nat
    BY <1>2 DEF Vectors
  <1> HIDE DEF w
  <1>4. ASSUME NEW i \in 1 .. w.n, NEW j \in 1 .. w.n, w.mem[i] = w.mem[j] PROVE i = j
    <2>1. i \in 1 .. Len(w.mem) /\ j \in 1 .. Len(w.mem)
      BY <1>1, <1>2, <1>3
    <2>2. (i = v.n + 1 \/ i \in 1 .. v.n) /\ (j = v.n + 1 \/ j \in 1 .. v.n)
      BY <1>1, <1>2
    <2>3. \A l \in 1 .. v.n : v.mem[l] # fd
      BY DEF Elements
    <2> QED
      BY <1>1, <1>2, <1>4, <2>1, <2>2, <2>3 DEF DistinctUsers
  <1> QED
    BY <1>4 DEF DistinctUsers, w

\* captureUserReadFd(fd, false): neither watched nor listed.
LEMMA ReleasedServer ==
  ASSUME NEW s \in Servers, NEW fd \in Fd, DistinctUsers(s.users)
  PROVE  LET r == Released(s, fd)
         IN  /\ r \in Servers /\ r.sock = s.sock /\ r.clients = s.clients
             /\ r.fds = s.fds \ {fd} /\ DistinctUsers(r.users)
             /\ Elements(r.users) = Elements(s.users) \ {fd}
             /\ Sockets(s) = {} => r.max = IF fd = s.max THEN s.sock ELSE s.max
  <1> DEFINE F == s.fds \ {fd}
             t == [s EXCEPT !.fds = F]
             m == IF fd = s.max THEN FdMax(t) ELSE s.max
             u == DelUserReadFd(s.users, fd)
  <1>1. s.fds \subseteq Fd /\ s.max \in Fd /\ s.users \in Vectors(Fd)
    BY ServersType
  <1>2. F \in SUBSET Fd
    BY <1>1
  <1>3. /\ u \in Vectors(Fd) /\ Elements(u) = Elements(s.users) \ {fd} /\ DistinctUsers(u)
    BY <1>1, DelUser
  <1> HIDE DEF F, u
  <1>4. /\ t \in Servers /\ t.sock = s.sock /\ t.clients = s.clients /\ t.fds = F
        /\ t.max = s.max /\ t.users = s.users
    BY <1>2 DEF Servers
  <1>5. m \in Fd /\ (Sockets(s) = {} => m = IF fd = s.max THEN s.sock ELSE s.max)
    <2>1. Sockets(t) = Sockets(s)
      BY <1>4 DEF Sockets
    <2> QED
      BY <1>1, <1>4, <2>1, FdMaxBounds
  <1>6. Released(s, fd) = [t EXCEPT !.max = m, !.users = u]
    BY <1>4 DEF Released, F, u
  <1> HIDE DEF t, m
  <1>7. /\ Released(s, fd) \in Servers /\ Released(s, fd).sock = t.sock
        /\ Released(s, fd).clients = t.clients /\ Released(s, fd).fds = t.fds
        /\ Released(s, fd).users = u /\ Released(s, fd).max = m
    BY <1>4, <1>5, <1>6, <1>3 DEF Servers
  <1> QED
    BY <1>3, <1>4, <1>5, <1>7 DEF F

\* term(): the socket is gone, and with it the rest unless close() failed.
LEMMA TermedServer ==
  ASSUME NEW s \in Servers, NEW closed \in BOOLEAN, ~closed => s.sock > 0
  PROVE  LET t == TermServer(s, closed)
         IN  /\ t \in Servers /\ t.sock = 0 /\ t.clients.n = 0
             /\ closed => t.fds = {} /\ Elements(t.users) = {} /\ t.users.n = 0
             /\ ~closed => t.users = s.users
  <1> DEFINE a == AllDisconnected(s)
             c == Closed(a)
             f == Forgotten(c)
  <1>1. a \in Servers /\ a.clients.n = 0 /\ a.users = s.users
    BY AllDisconnectedServer
  <1> HIDE DEF a
  <1>2. c \in Servers /\ c.sock = 0 /\ c.clients.n = 0 /\ c.users = s.users
    BY <1>1, ClosedServer
  <1> HIDE DEF c
  <1>3. /\ f \in Servers /\ f.sock = 0 /\ f.clients.n = 0 /\ f.fds = {} /\ Elements(f.users) = {}
        /\ f.users.n = 0
    BY <1>2, ForgottenServer
  <1> HIDE DEF f
  <1>4. TermServer(s, closed) = IF s.sock > 0 /\ ~closed THEN c ELSE f
    BY DEF TermServer, a, c, f
  <1> QED
    BY <1>2, <1>3, <1>4

-----------------------------------------------------------------------------
\* The objects that were just constructed satisfy the invariant.
LEMMA InitInv == Init => Inv
  <1> SUFFICES ASSUME Init PROVE Inv
    OBVIOUS
  <1>1. last.ok \in BOOLEAN /\ strayed \in BOOLEAN /\ aborted \in BOOLEAN
    <2>1. last.ok = TRUE /\ strayed = FALSE /\ aborted = FALSE
      BY DEF Init
    <2>2. TRUE \in BOOLEAN /\ FALSE \in BOOLEAN
      OBVIOUS
    <2> QED
      BY Zenon, <2>1, <2>2
  <1>2. /\ cli \in [sock : Fd, net : Infos, local : Infos, given : BOOLEAN]
        /\ cli.sock = 0 /\ cli.net = NoInfo
    <2>1. PICK given \in BOOLEAN :
             cli = [sock |-> 0, net |-> NoInfo, local |-> NoInfo, given |-> given]
      BY Zenon DEF Init
    <2>2. NoInfo \in Infos
      BY DEF Infos
    <2> QED
      BY <2>1, <2>2, FdAssumption
  <1>3. /\ svr \in [net : Infos, address : {"", "name", "ipv4", "ipv6"}, port : BOOLEAN,
                     async : BOOLEAN, once : BOOLEAN, joinable : BOOLEAN]
        /\ svr.net = NoInfo
    <2>1. PICK port \in BOOLEAN, async \in BOOLEAN, name \in {"", "name"} :
             svr = [net |-> NoInfo, address |-> name, port |-> port, async |-> async,
                    once |-> FALSE, joinable |-> FALSE]
      BY Zenon DEF Init
    <2>2. NoInfo \in Infos /\ FALSE \in BOOLEAN
      BY DEF Infos
    <2> QED
      BY <2>1, <2>2
  <1>4. /\ srv \in Servers /\ srv.sock = 0 /\ srv.clients.n = 0
        /\ Elements(srv.users) = {} /\ srv.users.n = 0
    <2>1. PICK noise \in SUBSET UserFd : srv = [Idle EXCEPT !.fds = noise]
      BY DEF Init
    <2>2. noise \in SUBSET Fd
      BY EndpointsAssumption
    <2>3. /\ Idle \in Servers /\ Idle.sock = 0 /\ Idle.clients.n = 0
          /\ Elements(Idle.users) = {} /\ Idle.users.n = 0
      BY IdleServer DEF Idle, NoElements
    <2> QED
      BY <2>1, <2>2, <2>3 DEF Servers
  <1>5. DOMAIN fdt = {} /\ fdt = [f \in {} |-> fdt[f]]
    <2>1. fdt = <<>>
      BY DEF Init
    <2>2. DOMAIN <<>> = {}
      OBVIOUS
    <2> QED
      BY <2>1, <2>2
  <1>6. TypeOK
    BY <1>1, <1>2, <1>3, <1>4, <1>5 DEF TypeOK
  <1>7. NoInfo.info = <<>>
    BY DEF NoInfo
  <1>8. NoSocketLost /\ SocketHasAddress /\ WatchesWhatItHas
    BY <1>2, <1>3, <1>4, <1>5, <1>7 DEF NoSocketLost, SocketHasAddress, WatchesWhatItHas
  <1> QED
    BY <1>2, <1>4, <1>6, <1>8 DEF Inv, SocketsAreFds, UsersListed, DistinctUsers

\* Every call of a method, whichever of its system calls fails, keeps it.
LEMMA NextInv == Inv /\ [Next]_vars => Inv'
  <1> SUFFICES ASSUME Inv, [Next]_vars PROVE Inv'
    OBVIOUS
  <1> DEFINE Flags == last.ok \in BOOLEAN /\ strayed \in BOOLEAN /\ aborted \in BOOLEAN
  <1>1. /\ fdt \in [DOMAIN fdt -> SockType] /\ DOMAIN fdt \subseteq Fd
        /\ cli \in CliType /\ srv \in Servers /\ svr \in SvrType /\ Flags
        /\ NoSocketLost /\ SocketHasAddress /\ WatchesWhatItHas /\ SocketsAreFds /\ UsersListed
        /\ srv.sock \in Fd /\ srv.users \in Vectors(Fd) /\ Sockets(srv) = {}
    <2>1. TypeOK /\ srv \in Servers
      BY DEF Inv, TypeOK
    <2>2. Sockets(srv) = {}
      BY <2>1, SocketsByPosition DEF Inv, UsersListed
    <2> QED
      BY <2>1, <2>2, ServersType DEF Inv, TypeOK, SockType, Families, States, CliType, SvrType
  <1>2. ASSUME fdt' \in [DOMAIN fdt' -> SockType], cli' \in CliType, srv' \in Servers,
               svr' \in SvrType, Flags', NoSocketLost', SocketHasAddress', WatchesWhatItHas',
               SocketsAreFds', UsersListed'
        PROVE  Inv'
    <2>1. DOMAIN fdt' \subseteq Fd
      <3>1. cli'.sock \in Fd /\ srv'.sock \in Fd
        BY <1>2, ServersType DEF CliType
      <3> QED
        BY <1>2, <3>1 DEF NoSocketLost
    <2> QED
      BY <1>2, <2>1 DEF Inv, TypeOK, SockType, Families, States, CliType, SvrType
  <1>3. 0 \in Fd /\ Fd \subseteq Nat /\ UserFd \subseteq Fd
    BY FdAssumption, EndpointsAssumption
  <1>SetLocal. CASE SetLocal
    <2>1. PICK list \in Resolved \cup {<<>>} :
            /\ cli' = [cli EXCEPT !.local = NewInfo(list)]
            /\ Returns("setLocal", list # <<>>)
            /\ UNCHANGED <<fdt, srv, svr, strayed, aborted>>
      BY Zenon, <1>SetLocal DEF SetLocal
    <2>2. cli' \in CliType /\ cli'.sock = cli.sock /\ cli'.net = cli.net
      BY <1>1, <2>1, NewInfoType DEF CliType
    <2>3. Flags'
      BY <1>1, <2>1 DEF Returns
    <2>4. /\ NoSocketLost' /\ SocketHasAddress' /\ WatchesWhatItHas' /\ SocketsAreFds'
          /\ UsersListed'
      BY <1>1, <2>1, <2>2 DEF NoSocketLost, SocketHasAddress, WatchesWhatItHas, SocketsAreFds,
                              UsersListed
    <2> QED
      BY <1>1, <1>2, <2>1, <2>2, <2>3, <2>4
  <1>ClientTerm. CASE ClientTerm
    <2>1. PICK closed \in BOOLEAN : Returns("clientTerm", closed)
      BY <1>ClientTerm DEF ClientTerm
    <2>2. /\ cli' = [cli EXCEPT !.local = DelInfo(@), !.net = DelInfo(@), !.sock = 0]
          /\ fdt' = IF cli.sock > 0 THEN ClosedFd(fdt, cli.sock) ELSE fdt
          /\ UNCHANGED <<srv, svr, strayed, aborted>>
      BY <1>ClientTerm DEF ClientTerm
    <2>3. /\ cli' \in CliType /\ cli'.sock = 0 /\ cli'.net = DelInfo(cli.net)
          /\ cli'.net.info = <<>>
      BY <1>1, <1>3, <2>2, DelInfoNone DEF CliType
    <2>4. Flags'
      BY <1>1, <2>1, <2>2 DEF Returns
    <2>5. /\ DOMAIN fdt' = DOMAIN fdt \ {cli.sock}
          /\ \A f \in DOMAIN fdt' : fdt'[f] = fdt[f]
          /\ fdt' \in [DOMAIN fdt' -> SockType]
      <3>1. CASE cli.sock > 0
        BY <1>1, <2>2, <3>1, ClosedFdDomain DEF ClosedFd
      <3>2. CASE ~(cli.sock > 0)
        <4>1. cli.sock = 0
          BY <1>1, <1>3, <3>2 DEF CliType
        <4> QED
          BY <1>1, <2>2, <3>2, <4>1 DEF NoSocketLost
      <3> QED
        BY <3>1, <3>2
    <2>6. NoSocketLost'
      BY <1>1, <2>2, <2>3, <2>5 DEF NoSocketLost
    <2>7. /\ SocketHasAddress' /\ WatchesWhatItHas' /\ SocketsAreFds' /\ UsersListed'
      <3>1. srv.sock # 0 => srv.sock \in DOMAIN fdt'
        BY <2>2, <2>6 DEF NoSocketLost
      <3> QED
        BY <1>1, <2>2, <2>3, <2>5, <3>1
           DEF SocketHasAddress, WatchesWhatItHas, SocketsAreFds, UsersListed
    <2> QED
      BY <1>1, <1>2, <2>2, <2>3, <2>4, <2>5, <2>6, <2>7
  <1>ClientInit. CASE ClientInit
    <2>1. UNCHANGED <<srv, svr, strayed, aborted>>
      BY <1>ClientInit DEF ClientInit
    <2>2. ASSUME UNCHANGED fdt, Returns("clientInit", FALSE), cli' \in CliType,
                 cli'.sock = cli.sock, cli'.sock # 0 <=> cli'.net.info # <<>>,
                 cli'.sock # 0 => cli'.net = cli.net
          PROVE  Inv'
      <3>1. Flags'
        BY <1>1, <2>1, <2>2 DEF Returns
      <3>2. /\ NoSocketLost' /\ SocketHasAddress' /\ WatchesWhatItHas' /\ SocketsAreFds'
            /\ UsersListed'
        BY <1>1, <2>1, <2>2 DEF NoSocketLost, SocketHasAddress, WatchesWhatItHas,
                                SocketsAreFds, UsersListed
      <3> QED
        BY <1>1, <1>2, <2>1, <2>2, <3>1, <3>2
    <2>3. CASE UNCHANGED cli /\ UNCHANGED fdt /\ Returns("clientInit", FALSE)
      BY <1>1, <2>2, <2>3 DEF SocketHasAddress
    <2>4. CASE /\ MayInit(cli.given, cli.sock) /\ cli' = [cli EXCEPT !.net = NoInfo]
               /\ UNCHANGED fdt /\ Returns("clientInit", FALSE)
      <3>1. cli' \in CliType /\ cli'.sock = 0 /\ cli.sock = 0 /\ cli'.net.info = <<>>
        BY <1>1, <2>4 DEF CliType, MayInit, Infos, NoInfo
      <3> QED
        BY <2>2, <2>4, <3>1
    <2>5. ASSUME MayInit(cli.given, cli.sock), NEW list \in Resolved,
                 cli' = ClientFailed(cli, NewInfo(list)), UNCHANGED fdt,
                 Returns("clientInit", FALSE)
          PROVE  Inv'
      <3>1. cli' \in CliType /\ cli'.sock = 0 /\ cli.sock = 0 /\ cli'.net.info = <<>>
        BY <1>1, <2>5, NewInfoActive, DelInfoNone DEF CliType, MayInit, ClientFailed
      <3> QED
        BY <2>2, <2>5, <3>1
    <2>6. ASSUME MayInit(cli.given, cli.sock), NEW list \in Resolved, NEW fd \in FreeFds(fdt),
                 NEW state \in {"open", "bound"}, Returns("clientInit", TRUE),
                 fdt' = Opened(fdt, fd, Active(NewInfo(list)), state),
                 cli' = [cli EXCEPT !.net = NewInfo(list), !.sock = fd]
          PROVE  Inv'
      <3>1. fd \in Fd /\ fd > 2 /\ fd \notin DOMAIN fdt /\ fd # 0
        BY FreeFdIsFree
      <3>2. /\ cli' \in CliType /\ cli'.sock = fd /\ cli.sock = 0 /\ cli'.net = NewInfo(list)
            /\ cli'.net.info # <<>> /\ Active(cli'.net) = list[1]
        BY <1>1, <2>6, <3>1, NewInfoActive DEF CliType, MayInit
      <3>3. /\ DOMAIN fdt' = DOMAIN fdt \cup {fd} /\ fdt' \in [DOMAIN fdt' -> SockType]
            /\ fdt'[fd].family = list[1] /\ fdt'[fd].state = state
            /\ \A f \in DOMAIN fdt : fdt'[f] = fdt[f]
        <4>1. /\ fdt' = Opened(fdt, fd, list[1], state)
              /\ fdt \in [DOMAIN fdt -> SockType]
          BY <1>1, <2>6, NewInfoActive
        <4>2. list[1] \in Families /\ state \in States
          BY <2>6 DEF Families, States
        <4> DEFINE u == fdt'
        <4>3. /\ DOMAIN u = DOMAIN fdt \cup {fd} /\ FdTable(u)
              /\ u[fd].family = list[1] /\ u[fd].state = state
              /\ \A f \in DOMAIN fdt : u[f] = fdt[f]
          <5>1. u = [f \in DOMAIN fdt \cup {fd} |->
                       IF f = fd THEN [family |-> list[1], state |-> state] ELSE fdt[f]]
            BY <4>1 DEF Opened
          <5>2. FdTable(fdt)
            BY <4>1 DEF FdTable
          <5> HIDE DEF u
          <5> QED
            BY <5>1, <5>2, <4>2, <3>1 DEF FdTable, SockType
        <4> QED
          BY <4>3 DEF FdTable
      <3>5. Flags'
        BY <1>1, <2>1, <2>6 DEF Returns
      <3>6. srv.sock # 0 => srv.sock \in DOMAIN fdt
        BY <1>1 DEF NoSocketLost
      <3>7. NoSocketLost'
        BY <1>1, <2>1, <3>1, <3>2, <3>3, <3>6 DEF NoSocketLost
      <3>8. SocketHasAddress'
        BY <1>1, <2>1, <3>1, <3>2, <3>3, <3>6 DEF SocketHasAddress
      <3>9. WatchesWhatItHas' /\ SocketsAreFds' /\ UsersListed'
        BY <1>1, <2>1, <3>1, <3>2 DEF WatchesWhatItHas, SocketsAreFds, UsersListed
      <3> QED
        BY <1>1, <1>2, <2>1, <3>2, <3>3, <3>5, <3>7, <3>8, <3>9
    <2> QED
      <3>1. BindToLocal("open", cli.local) \subseteq {"open", "bound"}
        BY DEF BindToLocal
      <3>2. \A list \in Resolved : ServerAddress(NewInfo(list)) = NewInfo(list)
        BY NewInfoActive
      <3> QED
        BY <1>ClientInit, <2>3, <2>4, <2>5, <2>6, <3>1, <3>2 DEF ClientInit
  <1>Connect. CASE Connect
    <2>1. UNCHANGED <<cli, srv, svr, strayed, aborted>>
      BY <1>Connect DEF Connect
    <2>2. Flags'
      <3>1. PICK ok \in BOOLEAN : last' = [call |-> "connect", ok |-> ok]
        BY <1>Connect DEF Connect, Returns
      <3> QED
        BY <1>1, <2>1, <3>1
    <2>3. /\ DOMAIN fdt' = DOMAIN fdt /\ fdt' \in [DOMAIN fdt' -> SockType]
          /\ \A f \in DOMAIN fdt :
                /\ fdt'[f].family = fdt[f].family
                /\ fdt'[f].state = fdt[f].state \/ f = cli.sock
      <3>1. CASE UNCHANGED fdt
        BY <1>1, <3>1
      <3>2. CASE cli.sock # 0 /\ fdt' = [fdt EXCEPT ![cli.sock].state = "connected"]
        <4>1. cli.sock \in DOMAIN fdt
          BY <1>1, <3>2 DEF NoSocketLost
        <4> QED
          BY <1>1, <3>2, <4>1 DEF SockType, States
      <3> QED
        BY <1>Connect, <3>1, <3>2 DEF Connect
    <2>4. NoSocketLost'
      BY <1>1, <2>1, <2>3 DEF NoSocketLost
    <2>5. /\ SocketHasAddress' /\ WatchesWhatItHas' /\ SocketsAreFds' /\ UsersListed'
      <3>1. /\ cli.sock # 0 => cli.sock \in DOMAIN fdt
            /\ srv.sock # 0 => srv.sock \in DOMAIN fdt /\ srv.sock # cli.sock
        BY <1>1 DEF NoSocketLost
      <3> QED
        BY <1>1, <2>1, <2>3, <3>1
           DEF SocketHasAddress, WatchesWhatItHas, SocketsAreFds, UsersListed
    <2> QED
      BY <1>1, <1>2, <2>1, <2>2, <2>3, <2>4, <2>5
  <1>WaitForClients. CASE WaitForClients
    <2>1. /\ UNCHANGED <<fdt, cli, srv, strayed, aborted>> /\ Returns("waitForClients", TRUE)
          /\ \/ svr' = svr
             \/ svr' = [svr EXCEPT !.once = TRUE, !.joinable = TRUE]
      BY <1>WaitForClients DEF WaitForClients
    <2>2. svr' \in SvrType /\ svr'.net = svr.net /\ svr'.address = svr.address
      BY <1>1, <2>1 DEF SvrType
    <2>3. Flags'
      BY <1>1, <2>1 DEF Returns
    <2>4. /\ NoSocketLost' /\ SocketHasAddress' /\ WatchesWhatItHas' /\ SocketsAreFds'
          /\ UsersListed'
      BY <1>1, <2>1, <2>2 DEF NoSocketLost, SocketHasAddress, WatchesWhatItHas, SocketsAreFds,
                              UsersListed
    <2> QED
      BY <1>1, <1>2, <2>1, <2>2, <2>3, <2>4
  <1>4. ASSUME srv' \in Servers, srv'.sock = srv.sock, srv'.clients = srv.clients,
               DistinctUsers(srv'.users), Elements(srv'.users) \subseteq UserFd,
               NEW flag \in BOOLEAN, strayed' = flag, WatchesWhatItHas',
               UNCHANGED <<fdt, cli, svr, aborted>>, last'.ok = TRUE
        PROVE  Inv'
    <2>1. Flags'
      <3>1. strayed' \in BOOLEAN
        BY Zenon, <1>4
      <3> QED
        BY <1>1, <1>4, <3>1
    <2>2. NoSocketLost' /\ SocketHasAddress' /\ SocketsAreFds' /\ UsersListed'
      BY <1>1, <1>4 DEF NoSocketLost, SocketHasAddress, SocketsAreFds, UsersListed
    <2> QED
      BY <1>1, <1>2, <1>4, <2>1, <2>2
  <1>Capture. CASE CaptureUserReadFd
    <2>1. PICK fd \in UserFd : srv' = Captured(srv, fd)
      BY <1>Capture DEF CaptureUserReadFd
    <2>2. last'.ok = TRUE /\ UNCHANGED <<fdt, cli, svr, aborted>>
      BY <1>Capture DEF CaptureUserReadFd, Returns
    <2>3. PICK flag \in BOOLEAN : strayed' = flag /\ (~flag => ~strayed /\ srv.sock # 0)
      <3>1. (strayed \/ srv.sock = 0) \in BOOLEAN
        OBVIOUS
      <3> QED
        BY Zenon, <1>Capture, <3>1 DEF CaptureUserReadFd
    <2> DEFINE users == srv.users
               has == {srv.sock} \cup Elements(users)
    <2>4. /\ fd \in Fd /\ users \in Vectors(Fd) /\ DistinctUsers(users)
          /\ Elements(users) \subseteq UserFd /\ users = srv.users
      BY <1>1, <1>3 DEF UsersListed
    <2>5. /\ srv' \in Servers /\ srv'.sock = srv.sock /\ srv'.clients = srv.clients
          /\ srv'.fds = srv.fds \cup {fd}
          /\ srv.max <= srv'.max /\ srv'.max \in {fd, srv.max}
          /\ srv'.users = IF fd \in srv.fds \cup Elements(users) THEN users
                          ELSE PushBack(users, fd)
      BY <1>1, <2>1, <2>4, CapturedServer
    <2> HIDE DEF users
    <2>6. /\ fd \notin Elements(users) => DistinctUsers(PushBack(users, fd))
          /\ Elements(PushBack(users, fd)) = Elements(users) \cup {fd}
      BY <2>4, PushUser, PushBackVector
    <2>7. DistinctUsers(srv'.users) /\ Elements(srv'.users) \subseteq UserFd
      BY <2>4, <2>5, <2>6
    <2>8. /\ srv.sock # 0 => /\ srv'.fds \subseteq {srv'.sock} \cup Elements(srv'.users)
                              /\ srv'.max \in {srv'.sock} \cup Elements(srv'.users)
                              /\ srv'.sock <= srv'.max
          /\ ~strayed /\ srv.sock # 0 => srv'.fds = {srv'.sock} \cup Elements(srv'.users)
      <3>1. /\ srv.sock # 0 => srv.fds \subseteq has /\ srv.max \in has /\ srv.sock <= srv.max
            /\ ~strayed /\ srv.sock # 0 => srv.fds = has
        BY <1>1, <2>4 DEF WatchesWhatItHas
      <3>2. srv.sock # 0 => {srv'.sock} \cup Elements(srv'.users) = has \cup {fd}
        BY <2>5, <2>6, <3>1
      <3>3. srv.sock \in Nat /\ srv.max \in Nat /\ srv'.max \in Nat
        BY <1>1, <1>3, <2>5, ServersType
      <3>4. srv.sock # 0 => srv'.sock <= srv'.max
        BY <2>5, <3>1, <3>3
      <3> HIDE DEF has
      <3> QED
        BY <2>5, <3>1, <3>2, <3>4
    <2>9. WatchesWhatItHas'
      <3>1. ~strayed' => ~strayed /\ srv.sock # 0
        BY Zenon, <2>3
      <3> QED
        BY <2>5, <2>8, <3>1 DEF WatchesWhatItHas
    <2> QED
      BY <1>4, <2>2, <2>3, <2>5, <2>7, <2>9
  <1>Release. CASE ReleaseUserReadFd
    <2>1. PICK fd \in UserFd : srv' = Released(srv, fd) /\ strayed' = (strayed \/ fd = srv.sock)
      BY <1>Release DEF ReleaseUserReadFd
    <2>2. last'.ok = TRUE /\ UNCHANGED <<fdt, cli, svr, aborted>>
      BY <1>Release DEF ReleaseUserReadFd, Returns
    <2>3. PICK flag \in BOOLEAN : strayed' = flag /\ (~flag => ~strayed /\ fd # srv.sock)
      <3>1. (strayed \/ fd = srv.sock) \in BOOLEAN
        OBVIOUS
      <3> QED
        BY Zenon, <2>1, <3>1
    <2>4. /\ srv' \in Servers /\ srv'.sock = srv.sock /\ srv'.clients = srv.clients
          /\ srv'.fds = srv.fds \ {fd} /\ DistinctUsers(srv'.users)
          /\ Elements(srv'.users) = Elements(srv.users) \ {fd}
          /\ srv'.max = IF fd = srv.max THEN srv.sock ELSE srv.max
      BY <1>1, <1>3, <2>1, ReleasedServer DEF UsersListed
    <2>5. Elements(srv'.users) \subseteq UserFd
      BY <1>1, <2>4 DEF UsersListed
    <2>6. WatchesWhatItHas'
      <3>1. srv.sock \in Nat
        BY <1>1, <1>3
      <3>2. srv.sock # 0 => /\ srv'.fds \subseteq {srv'.sock} \cup Elements(srv'.users)
                            /\ srv'.max \in {srv'.sock} \cup Elements(srv'.users)
                            /\ srv'.sock <= srv'.max
        BY <1>1, <2>4, <3>1 DEF WatchesWhatItHas
      <3>3. ~flag => IF srv'.sock = 0 THEN Elements(srv'.users) = {}
                     ELSE srv'.fds = {srv'.sock} \cup Elements(srv'.users)
        BY <1>1, <2>3, <2>4 DEF WatchesWhatItHas
      <3>4. ~strayed' => ~flag
        BY Zenon, <2>3
      <3> QED
        BY <2>4, <3>2, <3>3, <3>4 DEF WatchesWhatItHas
    <2> QED
      BY <1>4, <2>2, <2>3, <2>4, <2>5, <2>6
  <1>5. ASSUME cli' = cli, aborted' \in BOOLEAN, NEW closed \in BOOLEAN, NEW ok \in BOOLEAN,
               NEW s \in Servers, ~closed => s.sock > 0, srv' = TermServer(s, closed),
               strayed' = ~closed, last'.ok = ok, s.users = srv.users,
               DOMAIN fdt' = {cli.sock} \ {0}, \A f \in DOMAIN fdt' : fdt'[f] = fdt[f],
               fdt' \in [DOMAIN fdt' -> SockType], svr' \in SvrType, svr'.net.info = <<>>
        PROVE  Inv'
    <2>1. /\ srv' \in Servers /\ srv'.sock = 0 /\ srv'.clients.n = 0
          /\ closed => srv'.fds = {} /\ Elements(srv'.users) = {} /\ srv'.users.n = 0
          /\ ~closed => srv'.users = srv.users
      BY <1>5, TermedServer
    <2>2. Flags'
      <3>1. (~closed) \in BOOLEAN
        OBVIOUS
      <3>2. strayed' \in BOOLEAN
        BY Zenon, <1>5, <3>1
      <3> QED
        BY <1>5, <3>2
    <2>3. ~strayed' => closed
      BY <1>5
    <2>4. NoSocketLost' /\ WatchesWhatItHas' /\ SocketsAreFds'
      BY <1>1, <1>5, <2>1, <2>3 DEF NoSocketLost, WatchesWhatItHas, SocketsAreFds
    <2>5. SocketHasAddress'
      BY <1>1, <1>5, <2>1 DEF SocketHasAddress
    <2>6. UsersListed'
      BY <1>1, <2>1, <2>3 DEF UsersListed, DistinctUsers
    <2> QED
      BY <1>1, <1>2, <1>5, <2>1, <2>2, <2>4, <2>5, <2>6
  <1>ServerTerm. CASE ServerTerm
    <2>1. PICK closed \in BOOLEAN :
            /\ ~closed => srv.sock > 0
            /\ svr' = [svr EXCEPT !.net = DelInfo(@), !.joinable = FALSE]
            /\ fdt' = IF srv.sock > 0 THEN ClosedFd(fdt, srv.sock) ELSE fdt
            /\ srv' = TermServer(srv, closed)
            /\ strayed' = ~closed
            /\ aborted' = (svr.async /\ ~svr.joinable)
            /\ Returns("serverTerm", closed)
            /\ UNCHANGED cli
      BY Zenon, <1>ServerTerm DEF ServerTerm
    <2>2. aborted' \in BOOLEAN
      <3>1. (svr.async /\ ~svr.joinable) \in BOOLEAN
        OBVIOUS
      <3> QED
        BY Zenon, <2>1, <3>1
    <2>3. svr' \in SvrType /\ svr'.net.info = <<>>
      BY <1>1, <2>1, DelInfoNone DEF SvrType
    <2>4. /\ DOMAIN fdt' = DOMAIN fdt \ {srv.sock}
          /\ \A f \in DOMAIN fdt' : fdt'[f] = fdt[f]
          /\ fdt' \in [DOMAIN fdt' -> SockType]
      <3>1. CASE srv.sock > 0
        BY <1>1, <2>1, <3>1, ClosedFdDomain DEF ClosedFd
      <3>2. CASE ~(srv.sock > 0)
        BY <1>1, <1>3, <2>1, <3>2 DEF NoSocketLost
      <3> QED
        BY <3>1, <3>2
    <2>5. DOMAIN fdt' = {cli.sock} \ {0}
      BY <1>1, <2>4 DEF NoSocketLost
    <2>6. last'.ok = closed
      BY <2>1 DEF Returns
    <2> QED
      BY <1>1, <1>5, <2>1, <2>2, <2>3, <2>4, <2>5, <2>6
  <1>ServerInit. CASE ServerInit
    <2>1. UNCHANGED <<cli, aborted>>
      BY <1>ServerInit DEF ServerInit
    <2>2. ASSUME UNCHANGED <<fdt, srv, strayed>>, Returns("serverInit", FALSE), svr' \in SvrType,
                 svr' = svr \/ (srv.sock = 0 /\ svr'.net.info = <<>>)
          PROVE  Inv'
      <3>1. Flags'
        BY <1>1, <2>1, <2>2 DEF Returns
      <3>2. /\ NoSocketLost' /\ WatchesWhatItHas' /\ SocketsAreFds' /\ UsersListed'
        BY <1>1, <2>1, <2>2 DEF NoSocketLost, WatchesWhatItHas, SocketsAreFds, UsersListed
      <3>3. SocketHasAddress'
        BY <1>1, <2>1, <2>2 DEF SocketHasAddress
      <3> QED
        BY <1>1, <1>2, <2>1, <2>2, <3>1, <3>2, <3>3
    <2>3. CASE UNCHANGED <<fdt, srv, svr, strayed>> /\ Returns("serverInit", FALSE)
      BY <1>1, <2>2, <2>3
    <2>4. ASSUME MayInit(svr.port, srv.sock), NEW list \in Resolved, NEW failing \in Steps,
                 NEW closed \in BOOLEAN, NEW fd \in Fd, TryInit(list, failing, closed, fd)
          PROVE  Inv'
      <3> DEFINE tried == failing \notin {"resolve", "socket"}
                 net == NewInfo(list)
      <3>0. /\ tried => fd \in FreeFds(fdt) /\ (failing = "address" <=> Text(NewInfo(list)) = "")
            /\ ~closed => failing = "fcntl"
            /\ svr' = [svr EXCEPT !.net = IF failing = "none" THEN NewInfo(list) ELSE NoInfo,
                                  !.address = IF tried THEN Text(NewInfo(list)) ELSE @]
            /\ fdt' = LET t == Opened(fdt, fd, Active(NewInfo(list)), "listening")
                      IN IF failing = "none" THEN t ELSE IF tried THEN ClosedFd(t, fd) ELSE fdt
            /\ srv' = IF failing = "none" THEN Listening(srv, fd)
                      ELSE IF failing = "fcntl" THEN TermServer(Listening(srv, fd), closed)
                      ELSE srv
            /\ Returns("serverInit", failing = "none")
        BY <2>4 DEF TryInit
      <3>s. /\ failing = "fcntl" => strayed' = ~closed
            /\ failing # "fcntl" => strayed' = strayed
        BY Zenon, <2>4 DEF TryInit
      <3>u. PICK u : u = Opened(fdt, fd, list[1], "listening")
        OBVIOUS
      <3>1. /\ srv.sock = 0 /\ net \in Infos /\ net.info # <<>> /\ Active(net) = list[1]
            /\ NoInfo \in Infos /\ NoInfo.info = <<>>
            /\ Text(net) \in {"", "name", "ipv4", "ipv6"}
            /\ Text(net) # "" => Text(net) = list[1]
        BY <2>4, <3>0, NewInfoActive, TextOfAddress DEF MayInit, Infos, NoInfo
      <3>2. tried => fd \in Fd /\ fd > 2 /\ fd \notin DOMAIN fdt /\ fd > 0 /\ fd # 0
        <4>1. tried => fd \in FreeFds(fdt)
          BY <2>4, <3>0
        <4> QED
          BY <4>1, FreeFdIsFree
      <3>3. /\ tried => /\ DOMAIN u = DOMAIN fdt \cup {fd} /\ u \in [DOMAIN u -> SockType]
                        /\ u[fd].family = list[1] /\ u[fd].state = "listening"
                        /\ \A f \in DOMAIN fdt : u[f] = fdt[f]
                        /\ ClosedFd(u, fd) = fdt
        <4>1. FdTable(fdt) /\ list[1] \in Families /\ "listening" \in States
          BY <1>1, <2>4, <3>0 DEF Families, States, FdTable
        <4>2. ASSUME fd \notin DOMAIN fdt
              PROVE  /\ DOMAIN u = DOMAIN fdt \cup {fd} /\ FdTable(u)
                     /\ u[fd].family = list[1] /\ u[fd].state = "listening"
                     /\ \A f \in DOMAIN fdt : u[f] = fdt[f]
                     /\ ClosedFd(u, fd) = fdt
          <5>1. PICK family \in Families, state \in States :
                   u = Opened(fdt, fd, family, state) /\ family = list[1] /\ state = "listening"
            BY <3>u, <4>1
          <5>2. /\ DOMAIN u = DOMAIN fdt \cup {fd} /\ FdTable(u)
                /\ u[fd].family = family /\ u[fd].state = state
                /\ \A f \in DOMAIN fdt : u[f] = fdt[f]
            <6>1. u = [f \in DOMAIN fdt \cup {fd} |->
                         IF f = fd THEN [family |-> family, state |-> state] ELSE fdt[f]]
              BY <5>1 DEF Opened
            <6> QED
              BY <4>1, <4>2, <6>1 DEF FdTable, SockType
          <5>3. ClosedFd(u, fd) = fdt
            BY <4>1, <4>2, <5>1, OpenedThenClosed
          <5> QED
            BY <5>1, <5>2, <5>3
        <4> QED
          BY <3>2, <4>2 DEF FdTable
      <3>4. /\ fdt' = IF failing = "none" THEN u ELSE IF tried THEN ClosedFd(u, fd) ELSE fdt
            /\ srv' = IF failing = "none" THEN Listening(srv, fd)
                      ELSE IF failing = "fcntl" THEN TermServer(Listening(srv, fd), closed)
                      ELSE srv
        BY <2>4, <3>0, <3>1, <3>u
      <3>5. /\ svr' \in SvrType /\ svr'.net = IF failing = "none" THEN net ELSE NoInfo
            /\ svr'.address = IF tried THEN Text(net) ELSE svr.address
        BY <1>1, <2>4, <3>0, <3>1 DEF SvrType
      <3>6. tried => /\ Listening(srv, fd) \in Servers /\ Listening(srv, fd).sock = fd
                     /\ Listening(srv, fd).users = srv.users
                     /\ Listening(srv, fd).clients = srv.clients
                     /\ Listening(srv, fd).fds = {fd} /\ Listening(srv, fd).max = fd
        BY <1>1, <3>2, ListeningServer
      <3> HIDE DEF net
      <3>7. CASE failing \in Steps \ {"none", "fcntl"}
        <4>1. fdt' = fdt /\ srv' = srv /\ svr'.net.info = <<>>
          BY <2>4, <3>0, <3>1, <3>3, <3>4, <3>5, <3>7 DEF Steps
        <4>2. strayed' = strayed
          BY <3>s, <3>7
        <4>3. Returns("serverInit", FALSE)
          BY <2>4, <3>0, <3>7 DEF Returns
        <4> QED
          BY <2>2, <3>1, <3>5, <4>1, <4>2, <4>3
      <3>8. CASE failing = "fcntl"
        <4>1. tried /\ fdt' = fdt /\ srv' = TermServer(Listening(srv, fd), closed)
          BY <2>4, <3>0, <3>3, <3>4, <3>8
        <4>2. last'.ok = FALSE /\ svr'.net.info = <<>>
          BY <2>4, <3>0, <3>1, <3>5, <3>8 DEF Returns
        <4>3. DOMAIN fdt' = {cli.sock} \ {0} /\ fdt' \in [DOMAIN fdt' -> SockType]
          BY <1>1, <3>1, <4>1 DEF NoSocketLost
        <4>4. Listening(srv, fd).sock > 0 /\ Listening(srv, fd) \in Servers
          <5>1. Listening(srv, fd).sock = fd /\ Listening(srv, fd) \in Servers
            BY <3>6, <4>1
          <5>2. fd > 0
            BY <3>2, <4>1
          <5> QED
            BY <5>1, <5>2
        <4>5. FALSE \in BOOLEAN
          OBVIOUS
        <4>6. strayed' = ~closed
          BY Zenon, <3>s, <3>8
        <4> QED
          BY <1>1, <1>5, <2>1, <2>4, <4>6, <3>5, <3>6, <4>1, <4>2, <4>3, <4>4, <4>5
      <3>9. CASE failing = "none"
        <4>1. tried /\ fdt' = u /\ srv' = Listening(srv, fd) /\ svr'.net = net
          BY <2>4, <3>0, <3>4, <3>5, <3>9
        <4>2. closed = TRUE /\ last'.ok = TRUE /\ svr'.address = list[1]
          BY <2>4, <3>0, <3>1, <3>5, <3>9, <4>1 DEF Returns, net
        <4>3. strayed' = strayed
          BY <3>s, <3>9
        <4>4. Flags'
          BY <1>1, <2>1, <4>2, <4>3
        <4>5. fdt' \in [DOMAIN fdt' -> SockType]
          BY <3>3, <4>1
        <4>6. cli.sock # 0 => cli.sock \in DOMAIN fdt
          BY <1>1 DEF NoSocketLost
        <4>7. NoSocketLost'
          BY <1>1, <2>1, <3>1, <3>2, <3>3, <3>6, <4>1, <4>6 DEF NoSocketLost
        <4>8. SocketHasAddress'
          BY <1>1, <2>1, <3>1, <3>2, <3>3, <3>6, <4>1, <4>2, <4>6 DEF SocketHasAddress
        <4>9. SocketsAreFds' /\ UsersListed'
          BY <1>1, <2>1, <3>1, <3>2, <3>6, <4>1 DEF SocketsAreFds, UsersListed
        <4>10. WatchesWhatItHas'
          <5>1. srv'.sock = fd /\ srv'.fds = {fd} /\ srv'.max = fd /\ srv'.users = srv.users
            BY <3>6, <4>1
          <5>2. fd # 0 /\ fd <= fd
            BY <1>3, <3>2, <4>1
          <5>3. ~strayed => Elements(srv.users) = {}
            BY <1>1, <3>1 DEF WatchesWhatItHas
          <5> QED
            BY <4>3, <5>1, <5>2, <5>3 DEF WatchesWhatItHas
        <4> QED
          BY <1>1, <1>2, <2>1, <3>5, <3>6, <4>1, <4>4, <4>5, <4>7, <4>8, <4>9, <4>10
      <3> QED
        BY <3>7, <3>8, <3>9
    <2> QED
      BY <1>ServerInit, <2>3, <2>4 DEF ServerInit
  <1>Stutter. CASE UNCHANGED vars
    <2>1. fdt' = fdt /\ cli' = cli /\ srv' = srv /\ svr' = svr /\ last' = last
          /\ strayed' = strayed /\ aborted' = aborted
      BY <1>Stutter DEF vars
    <2> QED
      BY <1>1, <1>2, <2>1 DEF NoSocketLost, SocketHasAddress, WatchesWhatItHas, SocketsAreFds,
                              UsersListed
  <1> QED
    BY <1>SetLocal, <1>ClientInit, <1>Connect, <1>ClientTerm, <1>ServerInit, <1>WaitForClients,
       <1>Capture, <1>Release, <1>ServerTerm, <1>Stutter DEF Next

-----------------------------------------------------------------------------
\* The invariant holds in every state of every behaviour.
LEMMA SpecInv == Spec => []Inv
  BY InitInv, NextInv, PTL DEF Spec

\* The objects and the table of sockets keep their types; above all, every
\* address an object holds is none or what getaddrinfo returned.
THEOREM SpecTypeOK == Spec => []TypeOK
  <1>1. Inv => TypeOK
    BY DEF Inv
  <1> QED
    BY <1>1, SpecInv, PTL

\* Whichever call failed, every open socket is the mSocket of one object.
THEOREM SpecNoSocketLost == Spec => []NoSocketLost
  <1>1. Inv => NoSocketLost
    BY DEF Inv
  <1> QED
    BY <1>1, SpecInv, PTL

\* An object has an address exactly as long as it has a socket, of the
\* socket's family; a server listens at the address it names.
THEOREM SpecSocketHasAddress == Spec => []SocketHasAddress
  <1>1. Inv => SocketHasAddress
    BY DEF Inv
  <1> QED
    BY <1>1, SpecInv, PTL

\* Whatever numbers are captured and released, a server that listens watches
\* nothing but its socket and its vector, up to its mfdMax; it watches all of
\* them, and has none without a socket, unless a descriptor strayed.
THEOREM SpecWatchesWhatItHas == Spec => []WatchesWhatItHas
  <1>1. Inv => WatchesWhatItHas
    BY DEF Inv
  <1> QED
    BY <1>1, SpecInv, PTL

\* An init that returns false leaves every socket as it was: what it opened is
\* closed again, and what the objects had before the call they still have.
THEOREM SpecFailedInitHasNoEffect == Spec => FailedInitHasNoEffect
  <1> DEFINE A == last'.call \in {"clientInit", "serverInit"} /\ ~last'.ok
                  => fdt' = fdt /\ cli'.sock = cli.sock /\ srv'.sock = srv.sock
  <1>1. Inv /\ [Next]_vars => [A]_vars
    <2> SUFFICES ASSUME Inv, Next, last'.call \in {"clientInit", "serverInit"}, ~last'.ok
                 PROVE  fdt' = fdt /\ cli'.sock = cli.sock /\ srv'.sock = srv.sock
      OBVIOUS
    <2>1. fdt \in [DOMAIN fdt -> SockType] /\ srv \in Servers /\ cli \in CliType
      BY DEF Inv, TypeOK, SockType, Families, States, CliType
    <2>2. CASE ClientInit
      <3>1. UNCHANGED srv
        BY <2>2 DEF ClientInit
      <3>2. CASE UNCHANGED <<fdt, cli>>
        BY <3>1, <3>2
      <3>3. CASE cli' = [cli EXCEPT !.net = NoInfo] /\ UNCHANGED fdt
        BY <2>1, <3>1, <3>3 DEF CliType
      <3>4. CASE \E net : cli' = ClientFailed(cli, net) /\ UNCHANGED fdt
        BY <2>1, <3>1, <3>4 DEF CliType, ClientFailed
      <3>5. ~Returns("clientInit", TRUE)
        BY DEF Returns
      <3> QED
        BY <2>2, <3>2, <3>3, <3>4, <3>5 DEF ClientInit
    <2>3. CASE ServerInit
      <3>1. UNCHANGED cli
        BY <2>3 DEF ServerInit
      <3>2. CASE UNCHANGED <<fdt, srv>>
        BY <3>1, <3>2
      <3>3. ASSUME srv.sock = 0, NEW list \in Resolved, NEW failing \in Steps,
                   NEW closed \in BOOLEAN, NEW fd \in Fd, TryInit(list, failing, closed, fd)
            PROVE  fdt' = fdt /\ srv'.sock = srv.sock
        <4>0. /\ failing \notin {"resolve", "socket"} => fd \in FreeFds(fdt)
              /\ fdt' = LET t == Opened(fdt, fd, Active(NewInfo(list)), "listening")
                        IN IF failing = "none" THEN t
                           ELSE IF failing \notin {"resolve", "socket"} THEN ClosedFd(t, fd)
                           ELSE fdt
              /\ srv' = IF failing = "none" THEN Listening(srv, fd)
                        ELSE IF failing = "fcntl" THEN TermServer(Listening(srv, fd), closed)
                        ELSE srv
              /\ Returns("serverInit", failing = "none")
          BY <3>3 DEF TryInit
        <4>1. failing # "none"
          BY <4>0 DEF Returns
        <4>2. CASE failing \in {"resolve", "socket"}
          BY <3>3, <4>0, <4>2
        <4>3. CASE failing \notin {"resolve", "socket"}
          <5>1. fd \in Fd /\ fd > 2 /\ fd \notin DOMAIN fdt
            <6>1. fd \in FreeFds(fdt)
              BY <3>3, <4>0, <4>3
            <6> QED
              BY <6>1, FreeFdIsFree
          <5>2. fdt' = ClosedFd(Opened(fdt, fd, list[1], "listening"), fd)
            BY <3>3, <4>0, <4>1, <4>3, NewInfoActive
          <5>3. list[1] \in Families /\ "listening" \in States /\ FdTable(fdt)
            BY <2>1, <3>3 DEF Families, States, FdTable
          <5>4. srv' = srv \/ srv' = TermServer(Listening(srv, fd), closed)
            BY <3>3, <4>0, <4>1
          <5>5. \A f \in Fd : f > 2 => f > 0
            BY FdAssumption
          <5>6. fdt' = fdt
            BY <5>1, <5>2, <5>3, OpenedThenClosed
          <5>7. TermServer(Listening(srv, fd), closed).sock = 0
            <6> DEFINE s == Listening(srv, fd)
            <6>1. s \in Servers /\ s.sock > 0
              BY <2>1, <5>1, <5>5, ListeningServer
            <6> HIDE DEF s
            <6>2. TermServer(s, closed).sock = 0
              BY <6>1, TermedServer
            <6> QED
              BY <6>2 DEF s
          <5> QED
            BY <3>3, <4>0, <5>4, <5>6, <5>7
        <4> QED
          BY <4>2, <4>3
      <3> QED
        BY <2>3, <3>1, <3>2, <3>3 DEF ServerInit, MayInit
    <2>4. ~(SetLocal \/ Connect \/ ClientTerm \/ WaitForClients \/ CaptureUserReadFd
            \/ ReleaseUserReadFd \/ ServerTerm)
      BY DEF SetLocal, Connect, ClientTerm, WaitForClients, CaptureUserReadFd,
             ReleaseUserReadFd, ServerTerm, Returns
    <2> QED
      BY <2>2, <2>3, <2>4 DEF Next
  <1> QED
    BY <1>1, SpecInv, PTL DEF Spec, FailedInitHasNoEffect

=============================================================================
