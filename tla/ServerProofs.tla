---------------------------- MODULE ServerProofs -----------------------------
(***************************************************************************)
(* The server at work, for every set of descriptors and of clients and in  *)
(* both classes: its list is the connections it holds, select() watches    *)
(* them and nothing closed, the loop ends at term() only, it closes only   *)
(* what is finished, and a term() nobody raced leaves nothing open.        *)
(***************************************************************************)
EXTENDS Server, OpsProofs

\* The descriptors that are connections.
Held == {f \in Fd : file[f] \in Client}

\* How far the application is, and what it does with the lock.
Phase ==
    /\ app \in {"new", "inited", "serving"} => ~raced /\ ~locked
    /\ app \in {"new", "inited"} => loop = "off"
    /\ app = "new" => srv = Idle
    /\ app = "dropping" => locked
    /\ loop = "undefined" => raced

\* One socket listens, from init to term, and the descriptors that were open
\* before the server stay open.
Listens ==
    /\ \A f \in Fd : file[f] = "listen" =>
          f = srv.sock /\ app \in {"inited", "serving", "dropping", "closing"}
    /\ app \in {"inited", "serving", "dropping", "closing"} => file[srv.sock] = "listen"
    /\ file[0] \in {"user", "other"} /\ file[UserFd] = "user"

\* The list is the connections until term() lets go of them, and then there
\* are none.
Lists ==
    IF app \in {"new", "inited", "serving", "dropping"}
    THEN Sockets(srv) = Held \ {cur} /\ Distinct(srv)
    ELSE Held = {} /\ srv.clients.n = 0

\* A connection is accepted and not listed between accept() and push_back
\* only.
Accepting ==
    IF loop \in {"register", "push"} THEN app = "serving" /\ cur \in Held ELSE cur = 0

\* What select() will be given, or was given, is open.
Watches ==
    app \in {"inited", "serving"} =>
        /\ \A f \in srv.fds : file[f] # "free"
        /\ \A f \in Sockets(srv) : f \in srv.fds /\ f <= srv.max
        /\ srv.sock <= srv.max
        /\ loop = "push" => cur \in srv.fds /\ cur <= srv.max
        /\ loop = "enter" => \A f \in rd : file[f] # "free"

\* A client that is about to be disconnected has hung up and has been read.
HungUp ==
    app = "serving" /\ loop = "disconnect" =>
        Visited.sock \in Held /\ net[file[Visited.sock]].hup /\ net[file[Visited.sock]].unread = 0

Unraced == Listens /\ Lists /\ Accepting /\ Watches /\ HungUp

Inv == TypeOK /\ Agree(srv) /\ Phase /\ LoopEndsAtTerm /\ (~raced => Unraced)

-----------------------------------------------------------------------------
\* Types.

NetTypes == [at : {"away", "queued", "in", "gone"}, unread : 0 .. MaxUnread, hup : BOOLEAN]
FileTypes == {"free", "listen", "user", "other"} \cup Client

\* The types hold at first.
LEMMA InitTypeOK == Init => TypeOK
  <1> SUFFICES ASSUME Init PROVE TypeOK
    OBVIOUS
  <1>1. threaded \in BOOLEAN /\ locked \in BOOLEAN /\ input \in BOOLEAN /\ raced \in BOOLEAN
    BY Zenon DEF Init
  <1>2. [at |-> "away", unread |-> 0, hup |-> FALSE] \in NetTypes
    BY ServerAssumption DEF NetTypes
  <1>3. net \in [Client -> NetTypes]
    BY <1>2 DEF Init
  <1>4. srv \in Servers /\ upto \in 0 .. Len(srv.clients.mem)
    <2>1. srv \in Servers /\ upto = 0
      BY IdleServer DEF Init
    <2> QED
      BY <2>1, ServersType
  <1>5. file \in [Fd -> FileTypes]
    BY DEF Init, FileTypes
  <1> QED
    BY <1>1, <1>3, <1>4, <1>5, FdAssumption DEF Init, TypeOK, NetTypes, FileTypes

\* The descriptor socket() and accept() return is the lowest that is free.
LEMMA FreeFd ==
  ASSUME FreeFds # {}
  PROVE  Min(FreeFds) \in Fd /\ file[Min(FreeFds)] = "free"
  <1>1. FreeFds \in SUBSET Nat
    BY FdAssumption DEF FreeFds
  <1>2. Min(FreeFds) \in FreeFds
    BY <1>1, MinOfNat
  <1> QED
    BY <1>2 DEF FreeFds

\* What close() does to the process and to the clients.
LEMMA CloseType ==
  ASSUME TypeOK, NEW fds, Close(fds)
  PROVE  /\ file' \in [Fd -> FileTypes] /\ net' \in [Client -> NetTypes]
         /\ \A f \in Fd : file'[f] = IF f \in fds THEN "free" ELSE file[f]
         /\ input' = input
  <1>1. file \in [Fd -> FileTypes] /\ net \in [Client -> NetTypes]
    BY DEF TypeOK, FileTypes, NetTypes
  <1>2. file' \in [Fd -> FileTypes]
    BY <1>1 DEF Close, FileTypes
  <1>3. \A k \in Client : [net[k] EXCEPT !.at = "gone"] \in NetTypes
    BY <1>1 DEF NetTypes
  <1>4. net' \in [Client -> NetTypes]
    BY <1>1, <1>3 DEF Close
  <1> QED
    BY <1>2, <1>4 DEF Close

\* A position of the range-for is one of the vector's memory.
LEMMA VisitedType ==
  ASSUME TypeOK, loop \in {"data", "disconnect"} \/ (loop = "clients" /\ it <= upto)
  PROVE  it \in 1 .. Len(srv.clients.mem) /\ Visited \in ClientRecords
  <1>1. it \in 1 .. Len(srv.clients.mem)
    <2>1. Len(srv.clients.mem) \in Nat
      BY ServersType DEF TypeOK
    <2> QED
      BY <2>1 DEF TypeOK
  <1> QED
    BY <1>1, ServersType DEF TypeOK, Visited

\* Every step of the loop, of the application and of the world keeps them.
LEMMA NextTypeOK == TypeOK /\ [Next]_vars => TypeOK'
  <1> SUFFICES ASSUME TypeOK, [Next]_vars PROVE TypeOK'
    OBVIOUS
  <1> DEFINE Typed == /\ srv' \in Servers /\ upto' \in 0 .. Len(srv'.clients.mem) /\ it' \in Nat
                      /\ rd' \subseteq Fd /\ cur' \in Fd
                      /\ file' \in [Fd -> FileTypes] /\ net' \in [Client -> NetTypes]
             Places == /\ loop' \in {"clients", "data", "disconnect"} => it' > 0
                       /\ loop' \in {"data", "disconnect"} => it' <= upto'
                       /\ loop' \in {"off", "begin", "returned", "copy", "enter", "select",
                                     "accept", "register", "push", "clients", "data",
                                     "disconnect", "test", "done", "undefined"}
                       /\ app' \in {"new", "inited", "serving", "dropping", "closing",
                                    "forgetting", "joining", "terminated"}
             Flags == /\ threaded' \in BOOLEAN /\ locked' \in BOOLEAN
                      /\ input' \in BOOLEAN /\ raced' \in BOOLEAN
  <1>1. ASSUME Typed, Places, Flags PROVE TypeOK'
    BY <1>1 DEF TypeOK, FileTypes, NetTypes
  <1>2. /\ srv \in Servers /\ upto \in 0 .. Len(srv.clients.mem) /\ it \in Nat
        /\ rd \subseteq Fd /\ cur \in Fd
        /\ file \in [Fd -> FileTypes] /\ net \in [Client -> NetTypes]
        /\ Len(srv.clients.mem) \in Nat /\ srv.clients.n \in 0 .. Len(srv.clients.mem)
        /\ srv.sock \in Fd
    BY ServersType DEF TypeOK, FileTypes, NetTypes
  <1>3. Flags
    <2>1. threaded \in BOOLEAN /\ locked \in BOOLEAN /\ input \in BOOLEAN /\ raced \in BOOLEAN
      BY DEF TypeOK
    <2>2. /\ (raced \/ app \notin {"new", "inited", "serving"}) \in BOOLEAN
          /\ (loop \in {"register", "push"}) \in BOOLEAN
      OBVIOUS
    <2>3. threaded' = threaded
      BY Zenon DEF Next, Loop, Term, vars, Program, walk, world, Close, Begin, CopySet, EnterSelect, LeaveSelect,
             Accept, Register, Push, SkipClient, CallData, DataNothing, DataRead, DataHangup,
             DisconnectClient, CallUser, Test, init, waitForClients, LockClients,
             DisconnectAllClients, CloseListener, Forget, Join, TypeInput, Connect, Send, Hangup
    <2>4. locked' \in {TRUE, FALSE, locked}
      BY Zenon DEF Next, Loop, Term, vars, Program, walk, world, Close, Begin, CopySet, EnterSelect, LeaveSelect,
             Accept, Register, Push, SkipClient, CallData, DataNothing, DataRead, DataHangup,
             DisconnectClient, CallUser, Test, init, waitForClients, LockClients,
             DisconnectAllClients, CloseListener, Forget, Join, TypeInput, Connect, Send, Hangup
    <2>5. input' \in BOOLEAN
      BY <2>1, <2>2, Zenon
         DEF Next, Loop, Term, vars, Program, walk, world, Close, Begin, CopySet, EnterSelect, LeaveSelect,
             Accept, Register, Push, SkipClient, CallData, DataNothing, DataRead, DataHangup,
             DisconnectClient, CallUser, Test, init, waitForClients, LockClients,
             DisconnectAllClients, CloseListener, Forget, Join, TypeInput, Connect, Send, Hangup
    <2>6. raced' \in BOOLEAN
      BY <2>1, <2>2, Zenon
         DEF Next, Loop, Term, vars, Program, walk, world, Close, Begin, CopySet, EnterSelect, LeaveSelect,
             Accept, Register, Push, SkipClient, CallData, DataNothing, DataRead, DataHangup,
             DisconnectClient, CallUser, Test, init, waitForClients, LockClients,
             DisconnectAllClients, CloseListener, Forget, Join, TypeInput, Connect, Send, Hangup
    <2> QED
      BY <2>1, <2>3, <2>4, <2>5, <2>6, Zenon
  <1>Begin. CASE Begin
    BY <1>1, <1>2, <1>3, <1>Begin DEF Begin, walk, world, TypeOK
  <1>CopySet. CASE CopySet
    BY <1>1, <1>2, <1>3, <1>CopySet, ServersType DEF CopySet, world, TypeOK
  <1>EnterSelect. CASE EnterSelect
    BY <1>1, <1>2, <1>3, <1>EnterSelect DEF EnterSelect, world, TypeOK
  <1>LeaveSelect. CASE LeaveSelect
    BY <1>1, <1>2, <1>3, <1>LeaveSelect DEF LeaveSelect, world, TypeOK
  <1>Accept. CASE Accept
    <2>1. CASE srv.sock \in rd /\ file[srv.sock] = "listen" /\ Queued # {} /\ FreeFds # {}
      <3>1. PICK k \in Queued : /\ cur' = Min(FreeFds)
                                /\ file' = [file EXCEPT ![cur'] = k]
                                /\ net' = [net EXCEPT ![k].at = "in"]
                                /\ loop' = "register"
                                /\ UNCHANGED <<it, upto, srv, rd, app>>
        BY <1>Accept, <2>1 DEF Accept
      <3>2. k \in Client /\ net' \in [Client -> NetTypes]
        BY <1>2, <3>1 DEF Queued, NetTypes
      <3>3. cur' \in Fd /\ file' \in [Fd -> FileTypes]
        BY <1>2, <2>1, <3>1, <3>2, FreeFd DEF FileTypes
      <3> QED
        BY <1>1, <1>2, <1>3, <3>1, <3>2, <3>3 DEF TypeOK
    <2>2. CASE ~(srv.sock \in rd /\ file[srv.sock] = "listen" /\ Queued # {} /\ FreeFds # {})
      BY <1>1, <1>2, <1>3, <1>Accept, <2>2 DEF Accept, TypeOK
    <2> QED
      BY <2>1, <2>2
  <1>Register. CASE Register
    BY <1>1, <1>2, <1>3, <1>Register, WatchedServer DEF Register, walk, world, TypeOK
  <1>Push. CASE Push
    <2>1. CASE locked
      BY <1>1, <1>2, <1>3, <1>Push, <2>1 DEF Push, world, TypeOK
    <2>2. CASE ~locked
      <3>1. srv' = Listed(srv, cur) /\ loop' = "clients" /\ it' = 1 /\ upto' = srv'.clients.n /\ cur' = 0
            /\ UNCHANGED <<rd, app, file, net>>
        BY <1>Push, <2>2 DEF Push, world
      <3>2. srv' \in Servers
        BY <1>2, <3>1, ListedServer
      <3>3. upto' \in 0 .. Len(srv'.clients.mem)
        BY <3>1, <3>2, ServersType
      <3> QED
        BY <1>1, <1>2, <1>3, <3>1, <3>2, <3>3, FdAssumption DEF TypeOK
    <2> QED
      BY <2>1, <2>2
  <1>SkipClient. CASE SkipClient
    BY <1>1, <1>2, <1>3, <1>SkipClient DEF SkipClient, world, TypeOK
  <1>CallData. CASE CallData
    BY <1>1, <1>2, <1>3, <1>CallData DEF CallData, walk, world, TypeOK
  <1>DataNothing. CASE DataNothing
    BY <1>1, <1>2, <1>3, <1>DataNothing DEF DataNothing, world, TypeOK
  <1>DataRead. CASE DataRead
    <2>1. [net[file[Visited.xfer]] EXCEPT !.unread = 0] \in NetTypes
      BY <1>2, <1>DataRead, ServerAssumption DEF DataRead, NetTypes
    <2>2. net' \in [Client -> NetTypes]
      BY <1>2, <1>DataRead, <2>1 DEF DataRead
    <2> QED
      BY <1>1, <1>2, <1>3, <1>DataRead, <2>2 DEF DataRead, TypeOK
  <1>DataHangup. CASE DataHangup
    BY <1>1, <1>2, <1>3, <1>DataHangup DEF DataHangup, walk, world, TypeOK
  <1>DisconnectClient. CASE DisconnectClient
    <2>1. CASE FoundAt(srv, it) > srv.clients.n
      BY <1>1, <1>2, <1>3, <1>DisconnectClient, <2>1 DEF DisconnectClient, TypeOK
    <2>2. CASE ~(FoundAt(srv, it) > srv.clients.n)
      <3>1. /\ srv' = Disconnected(srv, it) /\ Close({Visited.sock} \ {0})
            /\ loop' = "clients" /\ it' = it + 1 /\ UNCHANGED <<rd, upto, cur, app>>
        BY <1>DisconnectClient, <2>2 DEF DisconnectClient
      <3>2. it \in 1 .. Len(srv.clients.mem)
        BY <1>DisconnectClient, VisitedType DEF DisconnectClient
      <3>3. FoundAt(srv, it) <= srv.clients.n
        BY <1>2, <2>2, <3>2, FoundAtPosition
      <3>4. srv' \in Servers /\ Len(srv'.clients.mem) = Len(srv.clients.mem)
        BY <1>2, <3>1, <3>2, <3>3, DisconnectedServer
      <3>5. file' \in [Fd -> FileTypes] /\ net' \in [Client -> NetTypes]
        BY <3>1, CloseType
      <3> QED
        BY <1>1, <1>2, <1>3, <3>1, <3>4, <3>5 DEF TypeOK
    <2> QED
      BY <2>1, <2>2
  <1>CallUser. CASE CallUser
    BY <1>1, <1>2, <1>3, <1>CallUser DEF CallUser, walk, TypeOK
  <1>Test. CASE Test
    BY <1>1, <1>2, <1>3, <1>Test DEF Test, walk, world, TypeOK
  <1>init. CASE init
    <2>1. Min(FreeFds) \in Fd /\ UserFd \in Fd
      BY <1>init, FreeFd, ServerAssumption DEF init
    <2>2. Listening(srv, Min(FreeFds)) \in Servers /\ Listening(srv, Min(FreeFds)).clients = srv.clients
      BY <1>2, <2>1, ListeningServer
    <2>3. srv' \in Servers /\ srv'.clients = srv.clients
      BY <1>init, <2>1, <2>2, CapturedServer DEF init
    <2>4. file' \in [Fd -> FileTypes]
      BY <1>2, <1>init, <2>1 DEF init, FileTypes
    <2> QED
      BY <1>1, <1>2, <1>3, <1>init, <2>3, <2>4 DEF init, walk, TypeOK
  <1>waitForClients. CASE waitForClients
    BY <1>1, <1>2, <1>3, <1>waitForClients DEF waitForClients, walk, world, TypeOK
  <1>LockClients. CASE LockClients
    BY <1>1, <1>2, <1>3, <1>LockClients DEF LockClients, walk, world, TypeOK
  <1>DisconnectAllClients. CASE DisconnectAllClients
    <2>1. srv' \in Servers /\ Len(srv'.clients.mem) = Len(srv.clients.mem)
      BY <1>2, <1>DisconnectAllClients, AllDisconnectedServer DEF DisconnectAllClients
    <2>2. file' \in [Fd -> FileTypes] /\ net' \in [Client -> NetTypes]
      BY <1>DisconnectAllClients, CloseType DEF DisconnectAllClients
    <2> QED
      BY <1>1, <1>2, <1>3, <1>DisconnectAllClients, <2>1, <2>2 DEF DisconnectAllClients, walk, TypeOK
  <1>CloseListener. ASSUME NEW ok \in BOOLEAN, CloseListener(ok) PROVE TypeOK'
    <2>1. srv' \in Servers /\ srv'.clients = srv.clients
      BY <1>2, <1>CloseListener, ClosedServer DEF CloseListener
    <2>2. file' \in [Fd -> FileTypes] /\ net' \in [Client -> NetTypes]
      BY <1>CloseListener, CloseType DEF CloseListener
    <2> QED
      BY <1>1, <1>2, <1>3, <1>CloseListener, <2>1, <2>2 DEF CloseListener, walk, TypeOK
  <1>Forget. CASE Forget
    BY <1>1, <1>2, <1>3, <1>Forget, ForgottenServer DEF Forget, walk, world, TypeOK
  <1>Join. CASE Join
    BY <1>1, <1>2, <1>3, <1>Join DEF Join, walk, world, TypeOK
  <1>TypeInput. CASE TypeInput
    BY <1>1, <1>2, <1>3, <1>TypeInput DEF TypeInput, Program, walk, TypeOK
  <1>Connect. ASSUME NEW k \in Client, Connect(k) PROVE TypeOK'
    <2>1. net' \in [Client -> NetTypes]
      BY <1>2, <1>Connect DEF Connect, NetTypes
    <2> QED
      BY <1>1, <1>2, <1>3, <1>Connect, <2>1 DEF Connect, Program, walk, TypeOK
  <1>Send. ASSUME NEW k \in Client, Send(k) PROVE TypeOK'
    <2>1. net' \in [Client -> NetTypes]
      BY <1>2, <1>Send, ServerAssumption DEF Send, NetTypes
    <2> QED
      BY <1>1, <1>2, <1>3, <1>Send, <2>1 DEF Send, Program, walk, TypeOK
  <1>Hangup. ASSUME NEW k \in Client, Hangup(k) PROVE TypeOK'
    <2>1. net' \in [Client -> NetTypes]
      BY <1>2, <1>Hangup DEF Hangup, NetTypes
    <2> QED
      BY <1>1, <1>2, <1>3, <1>Hangup, <2>1 DEF Hangup, Program, walk, TypeOK
  <1>Stutter. CASE UNCHANGED vars
    BY <1>1, <1>2, <1>3, <1>Stutter DEF vars, TypeOK
  <1> QED
    BY <1>Begin, <1>CopySet, <1>EnterSelect, <1>LeaveSelect, <1>Accept, <1>Register, <1>Push,
       <1>SkipClient, <1>CallData, <1>DataNothing, <1>DataRead, <1>DataHangup,
       <1>DisconnectClient, <1>CallUser, <1>Test, <1>init, <1>waitForClients, <1>LockClients,
       <1>DisconnectAllClients, <1>CloseListener, <1>Forget, <1>Join, <1>TypeInput,
       <1>Connect, <1>Send, <1>Hangup, <1>Stutter, Zenon
    DEF Next, Loop, Term

-----------------------------------------------------------------------------
\* Before init() nothing listens and nobody is connected.
LEMMA InitInv == Init => Inv
  <1> SUFFICES ASSUME Init PROVE Inv
    OBVIOUS
  <1>1. srv = Idle /\ app = "new" /\ loop = "off" /\ cur = 0
        /\ ~raced /\ ~locked
    BY DEF Init
  <1>2. \A f \in Fd : file[f] \in {"user", "other", "free"}
    BY DEF Init
  <1>3. Held = {}
    BY <1>2, ServerAssumption DEF Held
  <1>4. Listens
    BY <1>1, <1>2, FdAssumption, ServerAssumption DEF Init, Listens
  <1>5. Lists /\ Agree(srv)
    BY <1>1, <1>3, IdleServer DEF Lists
  <1>6. Accepting /\ Watches /\ HungUp /\ Phase /\ LoopEndsAtTerm
    BY <1>1 DEF Accepting, Watches, HungUp, Phase, LoopEndsAtTerm
  <1> QED
    BY <1>4, <1>5, <1>6, InitTypeOK DEF Inv, Unraced

\* Every step keeps the invariant, those of term() beside the loop included.
LEMMA NextInv == Inv /\ [Next]_vars => Inv'
  <1> SUFFICES ASSUME Inv, [Next]_vars
               PROVE  Agree(srv)' /\ Phase' /\ LoopEndsAtTerm' /\ (~raced' => Unraced')
    BY NextTypeOK DEF Inv
  <1> DEFINE Goal == Agree(srv)' /\ Phase' /\ LoopEndsAtTerm' /\ (~raced' => Unraced')
  <1>1. TypeOK /\ Agree(srv) /\ Phase /\ LoopEndsAtTerm /\ (~raced => Unraced)
    BY DEF Inv
  <1> USE DEF Unraced, Phase, Listens, Lists, Accepting, Watches, HungUp, LoopEndsAtTerm, Held
  <1>Begin. CASE Begin
    BY <1>1, <1>Begin DEF Begin, walk, world, TypeOK, Visited
  <1>CopySet. CASE CopySet
    BY <1>1, <1>CopySet DEF CopySet, world, TypeOK, Visited
  <1>EnterSelect. CASE EnterSelect
    BY <1>1, <1>EnterSelect DEF EnterSelect, world, TypeOK, Visited
  <1>LeaveSelect. CASE LeaveSelect
    BY <1>1, <1>LeaveSelect DEF LeaveSelect, world, TypeOK, Visited
  <1>SkipClient. CASE SkipClient
    BY <1>1, <1>SkipClient DEF SkipClient, world, TypeOK, Visited
  <1>CallData. CASE CallData
    BY <1>1, <1>CallData DEF CallData, walk, world, TypeOK, Visited
  <1>DataNothing. CASE DataNothing
    BY <1>1, <1>DataNothing DEF DataNothing, world, TypeOK, Visited
  <1>DataRead. CASE DataRead
    BY <1>1, <1>DataRead DEF DataRead, TypeOK, Visited
  <1>CallUser. CASE CallUser
    BY <1>1, <1>CallUser DEF CallUser, walk, TypeOK, Visited
  <1>Test. CASE Test
    <2>1. app = "serving" => srv.max > 0
      <3>1. app = "serving" => file[srv.sock] = "listen" /\ srv.sock # 0 /\ srv.sock <= srv.max
        BY <1>1
      <3>2. srv.sock \in Nat /\ srv.max \in Nat
        BY <1>1, ServersType, FdAssumption DEF TypeOK
      <3> QED
        BY <3>1, <3>2
    <2> QED
      BY <1>1, <1>Test, <2>1 DEF Test, walk, world, TypeOK, Visited
  <1>Accept. CASE Accept
    <2>1. CASE srv.sock \in rd /\ file[srv.sock] = "listen" /\ Queued # {} /\ FreeFds # {}
      <3>1. PICK k \in Queued : /\ cur' = Min(FreeFds)
                                /\ file' = [file EXCEPT ![cur'] = k]
                                /\ loop' = "register" /\ loop = "accept"
                                /\ raced' = (raced \/ app \notin {"new", "inited", "serving"})
                                /\ UNCHANGED <<srv, locked, rd, app>>
        BY <1>Accept, <2>1 DEF Accept
      <3>2. /\ k \in Client /\ k \notin {"free", "listen", "user", "other"}
            /\ cur' \in Fd /\ file[cur'] = "free"
            /\ file' = [f \in Fd |-> IF f = cur' THEN k ELSE file[f]]
        BY <1>1, <2>1, <3>1, FreeFd, ServerAssumption DEF Queued, TypeOK
      <3>3. CASE raced \/ app \notin {"new", "inited", "serving"}
        <4>1. raced'
          BY <3>1, <3>3
        <4> QED
          BY <1>1, <3>1, <3>3, <4>1
      <3>4. CASE ~raced /\ app = "serving"
        <4>1. cur = 0 /\ 0 \notin Held /\ Sockets(srv) = Held /\ cur' \notin Held
          BY <1>1, <3>1, <3>2, <3>4, ServerAssumption
        <4>2. Held' = Held \cup {cur'}
          BY <3>2
        <4>3. Listens' /\ Watches' /\ HungUp'
          <5>1. \A f \in Fd : file'[f] = "listen" <=> file[f] = "listen"
            BY <3>2
          <5>2. \A f \in Fd : file[f] # "free" => file'[f] = file[f]
            BY <3>2
          <5>3. srv.sock \in Fd /\ srv.fds \subseteq Fd /\ UserFd \in Fd /\ 0 \in Fd
            BY <1>1, ServersType, FdAssumption, ServerAssumption DEF TypeOK
          <5> QED
            BY <1>1, <3>1, <3>4, <5>1, <5>2, <5>3
        <4>4. Lists' /\ Accepting'
          BY <1>1, <3>1, <3>4, <4>1, <4>2
        <4> QED
          BY <1>1, <3>1, <3>4, <4>3, <4>4
      <3>5. ~(app \in {"new", "inited"})
        BY <1>1, <3>1
      <3> QED
        BY <3>3, <3>4, <3>5
    <2>2. CASE ~(srv.sock \in rd /\ file[srv.sock] = "listen" /\ Queued # {} /\ FreeFds # {})
      BY <1>1, <1>Accept, <2>2 DEF Accept, TypeOK, Visited
    <2> QED
      BY <2>1, <2>2
  <1>Register. CASE Register
    <2>1. /\ srv'.clients = srv.clients /\ srv'.sock = srv.sock /\ srv'.fds = srv.fds \cup {cur}
          /\ cur <= srv'.max /\ srv.max <= srv'.max /\ srv' \in Servers
      BY <1>1, <1>Register, WatchedServer DEF Register, TypeOK
    <2>2. Sockets(srv') = Sockets(srv) /\ Distinct(srv') = Distinct(srv) /\ Agree(srv') = Agree(srv)
      BY <2>1, AgreeClients
    <2>3. srv.max \in Nat /\ srv'.max \in Nat /\ srv.sock \in Nat /\ Sockets(srv) \subseteq Nat
      BY <1>1, <2>1, ServersType, FdAssumption DEF TypeOK
    <2>4. \A f \in Nat : f <= srv.max => f <= srv'.max
      BY <2>1, <2>3
    <2>5. /\ loop = "register" /\ loop' = "push"
          /\ UNCHANGED <<file, net, app, locked, raced, cur, it, rd>>
      BY <1>Register DEF Register, walk, world
    <2>6. CASE raced
      BY <1>1, <2>2, <2>5, <2>6
    <2>7. CASE ~raced
      <3>1. app = "serving" /\ cur \in Held
        BY <1>1, <2>5, <2>7
      <3>2. Watches'
        BY <1>1, <2>1, <2>2, <2>3, <2>4, <2>5, <2>7, <3>1, ServerAssumption
      <3> QED
        BY <1>1, <2>1, <2>2, <2>5, <2>7, <3>1, <3>2
    <2> QED
      BY <2>6, <2>7
  <1>Push. CASE Push
    <2>1. CASE locked
      <3>1. loop' = "undefined" /\ raced' /\ UNCHANGED <<srv, app, locked>>
        BY <1>Push, <2>1 DEF Push
      <3> QED
        BY <1>1, <2>1, <3>1
    <2>2. CASE ~locked
      <3>1. /\ loop = "push" /\ srv' = Listed(srv, cur) /\ loop' = "clients" /\ cur' = 0
            /\ UNCHANGED <<rd, app, file, net, locked, raced>>
        BY <1>Push, <2>2 DEF Push, world
      <3>2. /\ srv'.sock = srv.sock /\ srv'.fds = srv.fds /\ srv'.max = srv.max
            /\ Sockets(srv') = Sockets(srv) \cup {cur}
            /\ Distinct(srv) /\ cur \notin Sockets(srv) => Distinct(srv')
            /\ Agree(srv')
        BY <1>1, <3>1, ListedServer DEF TypeOK
      <3>3. CASE raced
        BY <1>1, <3>1, <3>2, <3>3
      <3>4. CASE ~raced
        <4>1. app = "serving" /\ cur \in Held /\ Held' = Held /\ 0 \notin Held
              /\ Sockets(srv) = Held \ {cur}
          BY <1>1, <3>1, <3>4, ServerAssumption
        <4>2. Lists'
          BY <1>1, <3>1, <3>2, <3>4, <4>1
        <4>3. Watches'
          BY <1>1, <3>1, <3>2, <3>4, <4>1
        <4> QED
          BY <1>1, <3>1, <3>2, <3>4, <4>1, <4>2, <4>3
      <3> QED
        BY <3>3, <3>4
    <2> QED
      BY <2>1, <2>2
  <1>DataHangup. CASE DataHangup
    <2>1. it \in 1 .. Len(srv.clients.mem) /\ Visited \in ClientRecords
      BY <1>1, <1>DataHangup, VisitedType DEF DataHangup
    <2>2. Visited.sock = Visited.xfer
      BY <1>1, <1>DataHangup, <2>1 DEF DataHangup, Agree, Visited
    <2>3. Visited.sock \in Held
      BY <1>DataHangup, <2>1, <2>2 DEF DataHangup, ClientRecords
    <2>4. /\ net[file[Visited.sock]].hup /\ net[file[Visited.sock]].unread = 0 /\ Visited' = Visited
          /\ UNCHANGED <<srv, file, net, app, locked, raced, cur, it, rd>>
          /\ loop = "data" /\ loop' = "disconnect"
      BY <1>DataHangup, <2>2 DEF DataHangup, walk, world, Visited
    <2> QED
      BY <1>1, <2>3, <2>4
  <1>DisconnectClient. CASE DisconnectClient
    <2> DEFINE old == Visited.sock
    <2>1. it \in 1 .. Len(srv.clients.mem) /\ Visited \in ClientRecords /\ Visited = srv.clients.mem[it]
      BY <1>1, <1>DisconnectClient, VisitedType DEF DisconnectClient, Visited
    <2>2. CASE FoundAt(srv, it) > srv.clients.n
      <3>1. loop' = "undefined" /\ raced' /\ UNCHANGED <<srv, app, locked>> /\ ~locked
            /\ loop = "disconnect"
        BY <1>DisconnectClient, <2>2 DEF DisconnectClient
      <3>2. app # "serving"
        <4> SUFFICES ASSUME app = "serving" PROVE FALSE
          OBVIOUS
        <4>1. old \in Sockets(srv)
          BY <1>1, <3>1, ServerAssumption
        <4>2. FoundAt(srv, it) <= srv.clients.n /\ FoundAt(srv, it) \in Nat /\ srv.clients.n \in Nat
          BY <1>1, <2>1, <4>1, FoundAtPosition, ServersType DEF TypeOK
        <4> QED
          BY <2>2, <4>2
      <3> QED
        BY <1>1, <3>1, <3>2
    <2>3. CASE ~(FoundAt(srv, it) > srv.clients.n)
      <3>1. /\ srv' = Disconnected(srv, it) /\ Close({old} \ {0})
            /\ loop = "disconnect" /\ loop' = "clients" /\ ~locked
            /\ UNCHANGED <<app, locked, raced, cur, rd>>
        BY <1>DisconnectClient, <2>3 DEF DisconnectClient
      <3>2. FoundAt(srv, it) <= srv.clients.n /\ srv.clients.n # 0
        BY <1>1, <2>1, <2>3, FoundAtPosition, ServersType DEF TypeOK
      <3>3. /\ srv'.sock = srv.sock /\ Agree(srv')
            /\ old # 0 => srv'.fds = srv.fds \ {old}
            /\ Distinct(srv) /\ old # 0 => Sockets(srv') = Sockets(srv) \ {old} /\ Distinct(srv')
            /\ srv.sock <= srv.max => srv'.sock <= srv'.max
            /\ (\A f \in Sockets(srv) : f <= srv.max) => \A f \in Sockets(srv') : f <= srv'.max
        BY <1>1, <2>1, <3>1, <3>2, DisconnectedServer DEF TypeOK
      <3>4. CASE raced
        BY <1>1, <3>1, <3>3, <3>4
      <3>5. CASE ~raced
        <4>1. app = "serving"
          <5>1. app \notin {"closing", "forgetting", "joining", "terminated"}
            BY <1>1, <3>2, <3>5
          <5> QED
            BY <1>1, <3>1, <5>1 DEF TypeOK
        <4>2. /\ cur = 0 /\ old \in Held /\ old # 0 /\ Sockets(srv) = Held \ {0} /\ Distinct(srv)
              /\ file[old] # "user" /\ file[old] # "listen"
          BY <1>1, <3>1, <3>5, <4>1, ServerAssumption
        <4>3. \A f \in Fd : file'[f] = IF f = old THEN "free" ELSE file[f]
          BY <1>1, <3>1, <4>2, CloseType
        <4>4. Held' = Held \ {old}
          BY <4>3, ServerAssumption
        <4>5. Lists' /\ Accepting' /\ HungUp'
          BY <1>1, <3>1, <3>3, <3>5, <4>1, <4>2, <4>4
        <4>6. Listens'
          <5>1. srv.sock \in Fd /\ UserFd \in Fd /\ 0 \in Fd
            BY <1>1, ServersType, FdAssumption, ServerAssumption DEF TypeOK
          <5> QED
            BY <1>1, <3>1, <3>3, <3>5, <4>1, <4>2, <4>3, <5>1
        <4>7. Watches'
          <5>1. srv.fds \subseteq Fd
            BY <1>1, ServersType DEF TypeOK
          <5> QED
            BY <1>1, <3>1, <3>3, <3>5, <4>1, <4>2, <4>3, <5>1
        <4> QED
          BY <1>1, <3>1, <3>3, <4>1, <4>5, <4>6, <4>7
      <3> QED
        BY <3>4, <3>5
    <2> QED
      BY <2>2, <2>3
  <1>init. CASE init
    <2> DEFINE fd == Min(FreeFds)
               t == Listening(srv, fd)
    <2>1. /\ fd \in Fd /\ file[fd] = "free" /\ UserFd \in Fd /\ 0 \in Fd
          /\ srv = Idle /\ srv \in Servers /\ app = "new" /\ ~raced /\ loop = "off" /\ ~locked
      BY <1>1, <1>init, FreeFd, ServerAssumption, FdAssumption DEF init, TypeOK
    <2>2. /\ srv' = Captured(t, UserFd) /\ file' = [file EXCEPT ![fd] = "listen"] /\ app' = "inited"
          /\ UNCHANGED <<locked, loop, rd, it, upto, cur, net, raced>>
      BY <1>init DEF init, walk
    <2> HIDE DEF fd
    <2>3. /\ t \in Servers /\ t.clients = srv.clients /\ t.sock = fd /\ t.fds = {fd} /\ t.max = fd
      BY <2>1, ListeningServer
    <2> HIDE DEF t
    <2>4. /\ srv' \in Servers /\ srv'.clients = srv.clients /\ srv'.sock = fd
          /\ srv'.fds = {fd} \cup {UserFd} /\ fd <= srv'.max
      <3>1. t \in Servers /\ UserFd \in Fd
        BY <2>1, <2>3
      <3>2. /\ Captured(t, UserFd) \in Servers
            /\ Captured(t, UserFd).clients = t.clients /\ Captured(t, UserFd).sock = t.sock
            /\ Captured(t, UserFd).fds = t.fds \cup {UserFd}
            /\ t.max <= Captured(t, UserFd).max
        BY <3>1, CapturedServer
      <3> QED
        BY <2>2, <2>3, <3>2
    <2>5. Sockets(srv') = {} /\ Sockets(srv) = {} /\ Distinct(srv') /\ Agree(srv')
      BY <2>1, <2>4, IdleServer, AgreeClients
    <2>6. \A f \in Fd : file'[f] = IF f = fd THEN "listen" ELSE file[f]
      BY <1>1, <2>2 DEF TypeOK
    <2>7. Held' = Held
      BY <2>1, <2>6, ServerAssumption
    <2>8. fd # 0 /\ fd # UserFd
      BY <1>1, <2>1
    <2>9. Listens'
      BY <1>1, <2>1, <2>2, <2>4, <2>6, <2>8
    <2>10. Watches'
      BY <1>1, <2>1, <2>2, <2>4, <2>5, <2>6, <2>8
    <2> QED
      BY <1>1, <2>1, <2>2, <2>5, <2>7, <2>9, <2>10
  <1>waitForClients. CASE waitForClients
    BY <1>1, <1>waitForClients DEF waitForClients, walk, world, TypeOK, Visited
  <1>LockClients. CASE LockClients
    <2>1. /\ app = "serving" /\ app' = "dropping" /\ locked' /\ loop # "undefined"
          /\ raced' = (loop \in {"register", "push"}) /\ ~raced
          /\ UNCHANGED <<srv, loop, rd, it, cur, file, net>>
      BY <1>1, <1>LockClients DEF LockClients, walk, world
    <2>2. CASE loop \in {"register", "push"}
      BY <1>1, <2>1, <2>2
    <2>3. CASE loop \notin {"register", "push"}
      BY <1>1, <2>1, <2>3
    <2> QED
      BY <2>2, <2>3
  <1>DisconnectAllClients. CASE DisconnectAllClients
    <2>1. /\ app = "dropping" /\ app' = "closing" /\ loop # "undefined"
          /\ srv' = AllDisconnected(srv) /\ Close(Sockets(srv) \ {0})
          /\ UNCHANGED <<loop, rd, it, cur, raced>>
      BY <1>DisconnectAllClients DEF DisconnectAllClients, walk
    <2>2. srv'.sock = srv.sock /\ srv'.clients.n = 0 /\ Agree(srv')
      BY <1>1, <2>1, AllDisconnectedServer DEF TypeOK
    <2>3. CASE raced
      BY <1>1, <2>1, <2>2, <2>3
    <2>4. CASE ~raced
      <3>1. cur = 0 /\ 0 \notin Held /\ Sockets(srv) = Held
        BY <1>1, <2>1, <2>4, ServerAssumption
      <3>2. \A f \in Fd : file'[f] = IF f \in Held THEN "free" ELSE file[f]
        BY <1>1, <2>1, <3>1, CloseType
      <3>3. Held' = {}
        BY <3>2, ServerAssumption
      <3>4. Listens'
        <4>1. srv.sock \in Fd /\ UserFd \in Fd /\ 0 \in Fd
          BY <1>1, ServersType, FdAssumption, ServerAssumption DEF TypeOK
        <4> QED
          BY <1>1, <2>1, <2>2, <2>4, <3>2, <4>1, ServerAssumption
      <3> QED
        BY <1>1, <2>1, <2>2, <2>4, <3>3, <3>4
    <2> QED
      BY <2>3, <2>4
  <1>CloseListener. ASSUME NEW ok \in BOOLEAN, CloseListener(ok) PROVE Goal
    <2>1. /\ app = "closing" /\ app' \in {"forgetting", "joining"} /\ loop # "undefined"
          /\ srv' = Closed(srv) /\ Close({srv.sock})
          /\ UNCHANGED <<loop, rd, it, cur, raced>>
      BY <1>CloseListener DEF CloseListener, walk
    <2>2. srv'.clients = srv.clients /\ Agree(srv')
      BY <1>1, <2>1, ClosedServer, AgreeClients DEF TypeOK
    <2>3. CASE raced
      BY <1>1, <2>1, <2>2, <2>3
    <2>4. CASE ~raced
      <3>1. \A f \in Fd : file'[f] = IF f = srv.sock THEN "free" ELSE file[f]
        BY <1>1, <2>1, CloseType
      <3>2. Held' = {}
        BY <1>1, <2>1, <2>4, <3>1, ServerAssumption
      <3>3. Listens'
        <4>1. UserFd \in Fd /\ 0 \in Fd
          BY FdAssumption, ServerAssumption
        <4> QED
          BY <1>1, <2>1, <2>4, <3>1, <4>1
      <3> QED
        BY <1>1, <2>1, <2>2, <2>4, <3>2, <3>3
    <2> QED
      BY <2>3, <2>4
  <1>Forget. CASE Forget
    <2>1. srv'.clients = srv.clients /\ Agree(srv') /\ srv'.sock = srv.sock
      BY <1>1, <1>Forget, ForgottenServer, AgreeClients DEF Forget, TypeOK
    <2> QED
      BY <1>1, <1>Forget, <2>1 DEF Forget, walk, world
  <1>Join. CASE Join
    BY <1>1, <1>Join DEF Join, walk, world, Visited
  <1>TypeInput. CASE TypeInput
    BY <1>1, <1>TypeInput DEF TypeInput, Program, walk, Visited
  <1>Connect. ASSUME NEW k \in Client, Connect(k) PROVE Goal
    <2>1. UNCHANGED <<srv, locked, loop, rd, it, cur, app, raced, file>>
      BY <1>Connect DEF Connect, Program, walk
    <2>2. ASSUME NEW j \in Client PROVE net'[j].hup = net[j].hup /\ net'[j].unread = net[j].unread
      BY <1>1, <1>Connect DEF Connect, TypeOK, NetTypes
    <2>3. HungUp => HungUp'
      BY <2>1, <2>2 DEF Visited
    <2> QED
      BY <1>1, <2>1, <2>3 DEF Visited
  <1>Send. ASSUME NEW k \in Client, Send(k) PROVE Goal
    BY <1>1, <1>Send DEF Send, Program, walk, Visited, TypeOK
  <1>Hangup. ASSUME NEW k \in Client, Hangup(k) PROVE Goal
    BY <1>1, <1>Hangup DEF Hangup, Program, walk, Visited, TypeOK
  <1>Stutter. CASE UNCHANGED vars
    BY <1>1, <1>Stutter DEF vars, Visited
  <1> QED
    BY <1>Begin, <1>CopySet, <1>EnterSelect, <1>LeaveSelect, <1>Accept, <1>Register, <1>Push,
       <1>SkipClient, <1>CallData, <1>DataNothing, <1>DataRead, <1>DataHangup,
       <1>DisconnectClient, <1>CallUser, <1>Test, <1>init, <1>waitForClients, <1>LockClients,
       <1>DisconnectAllClients, <1>CloseListener, <1>Forget, <1>Join, <1>TypeInput,
       <1>Connect, <1>Send, <1>Hangup, <1>Stutter, Zenon
    DEF Next, Loop, Term

-----------------------------------------------------------------------------
\* The invariant holds in every state of every behaviour.
LEMMA SpecInv == Spec => []Inv
  BY InitInv, NextInv, PTL DEF Spec

\* Distinct records are as many as the connections they are for.
LEMMA InvRecordsAreConnections == Inv => RecordsAreConnections
  <1> SUFFICES ASSUME Inv, app = "serving"
               PROVE  Sockets(srv) = Held \ {cur} /\ Cardinality(Sockets(srv)) = srv.clients.n
    BY DEF RecordsAreConnections, Held
  <1>1. Sockets(srv) = Held \ {cur} /\ Distinct(srv)
    BY DEF Inv, Phase, Unraced, Lists
  <1> QED
    BY <1>1, DistinctCounts DEF Inv, TypeOK

\* What select() watches is what Watches says while the server serves.
LEMMA InvWatchedAreOpen == Inv => WatchedAreOpen
  BY DEF Inv, Phase, Unraced, Watches, WatchedAreOpen, Sockets

\* After term() nothing is held and nothing listens.
LEMMA InvNothingLeft == Inv => NothingLeft
  <1> SUFFICES ASSUME Inv, app = "terminated", ~raced, NEW f \in Fd
               PROVE  file[f] \in {"free", "user", "other"}
    BY DEF NothingLeft
  <1>1. file[f] \in FileTypes
    BY DEF Inv, TypeOK, FileTypes
  <1>2. file[f] # "listen" /\ file[f] \notin Client
    BY DEF Inv, Unraced, Listens, Lists, Held
  <1> QED
    BY <1>1, <1>2 DEF FileTypes

\* Of the steps a server that serves can take, disconnectClient alone ends
\* connections, and only that of the record it was called for.
LEMMA NextOnlyFinished ==
  ASSUME Inv, Next, app = "serving", NEW k \in Client, net[k].at = "in", net'[k].at = "gone"
  PROVE  net[k].hup /\ net[k].unread = 0
  <1>1. TypeOK /\ ~raced /\ Lists /\ Accepting /\ HungUp
    BY DEF Inv, Phase, Unraced
  <1>2. net \in [Client -> NetTypes]
    BY <1>1 DEF TypeOK, NetTypes
  <1>3. ASSUME net'[k] = net[k] PROVE FALSE
    BY <1>3
  <1>Accept. CASE Accept
    <2>1. net' = net \/ \E q \in Queued : net' = [net EXCEPT ![q].at = "in"]
      BY <1>Accept DEF Accept
    <2> QED
      BY <1>2, <2>1 DEF Queued, NetTypes
  <1>DataRead. CASE DataRead
    BY <1>2, <1>DataRead DEF DataRead, NetTypes
  <1>DisconnectClient. CASE DisconnectClient
    <2>1. Close({Visited.sock} \ {0}) /\ loop = "disconnect"
      BY <1>3, <1>DisconnectClient DEF DisconnectClient
    <2>2. Visited.sock \in Held /\ net[file[Visited.sock]].hup /\ net[file[Visited.sock]].unread = 0
      BY <1>1, <2>1 DEF HungUp
    <2>3. file[Visited.sock] = k
      <3>1. \E f \in {Visited.sock} \ {0} : file[f] = k \/ (file[f] = "listen" /\ k \in Queued)
        BY <1>2, <2>1 DEF Close
      <3>2. file[Visited.sock] # "listen"
        BY <2>2, ServerAssumption DEF Held
      <3> QED
        BY <3>1, <3>2
    <2> QED
      BY <2>2, <2>3
  <1>Connect. ASSUME NEW q \in Client, Connect(q) PROVE FALSE
    BY <1>2, <1>Connect DEF Connect, NetTypes
  <1>Send. ASSUME NEW q \in Client, Send(q) PROVE FALSE
    BY <1>2, <1>Send DEF Send, NetTypes
  <1>Hangup. ASSUME NEW q \in Client, Hangup(q) PROVE FALSE
    BY <1>2, <1>Hangup DEF Hangup, NetTypes
  <1>Others. ASSUME \/ Begin \/ CopySet \/ EnterSelect \/ LeaveSelect \/ Register \/ Push
                    \/ SkipClient \/ CallData \/ DataNothing \/ DataHangup \/ CallUser \/ Test
                    \/ init \/ waitForClients \/ Term \/ TypeInput
             PROVE  FALSE
    <2>1. net' = net
      BY <1>Others, Zenon
      DEF Begin, CopySet, EnterSelect, LeaveSelect, Register, Push, SkipClient, CallData,
          DataNothing, DataHangup, CallUser, Test, init, waitForClients, Term, LockClients,
          DisconnectAllClients, CloseListener, Forget, Join, TypeInput, Program, world
    <2> QED
      BY <1>3, <2>1
  <1> QED
    BY <1>Accept, <1>DataRead, <1>DisconnectClient, <1>Connect, <1>Send, <1>Hangup, <1>Others,
       Zenon DEF Next, Loop

-----------------------------------------------------------------------------
\* The members of class server, the loop's walk, the descriptors and the
\* clients have their types, in the behaviours the code leaves undefined too.
THEOREM SpecTypeOK == Spec => []TypeOK
  BY SpecInv, PTL DEF Inv

\* accept, push_back and the erase of disconnectClient keep the list of a
\* server that serves equal to the connections it holds, each once.
THEOREM SpecRecordsAreConnections == Spec => []RecordsAreConnections
  BY SpecInv, InvRecordsAreConnections, PTL

\* updateFdMax and the updates of mfdAll keep select() told of every
\* connection and of nothing closed.
THEOREM SpecWatchedAreOpen == Spec => []WatchedAreOpen
  BY SpecInv, InvWatchedAreOpen, PTL

\* selectLoop neither fails in select() nor finds mfdMax 0 before term() is
\* called.
THEOREM SpecLoopEndsAtTerm == Spec => []LoopEndsAtTerm
  BY SpecInv, PTL DEF Inv

\* A term() that did not meet an accept has closed every connection and the
\* listening socket when it returns.
THEOREM SpecNothingLeft == Spec => []NothingLeft
  BY SpecInv, InvNothingLeft, PTL

\* The range-for over a list that shrinks under it never makes the callback
\* close a connection whose client has not hung up or has not been read.
THEOREM SpecOnlyFinishedAreDropped == Spec => OnlyFinishedAreDropped
  <1>1. Inv /\ [Next]_vars =>
          [app = "serving" =>
             \A k \in Client :
                net[k].at = "in" /\ net'[k].at = "gone" => net[k].hup /\ net[k].unread = 0]_vars
    BY NextOnlyFinished
  <1> QED
    BY SpecInv, <1>1, PTL DEF Spec, OnlyFinishedAreDropped

-----------------------------------------------------------------------------
(***************************************************************************)
(* The timeout of the select loop, in the instance Wait of Algorithms: it  *)
(* grows to the limit and stays there, for every limit in one of the two   *)
(* units.  What Algorithms assumes of Limits is a hypothesis of the result.*)
(***************************************************************************)
CONSTANTS MaxNumber, Keys, Limits
VARIABLES task, number, key, tv, limit

Wait == INSTANCE Algorithms

\* Times that are doubled to half a second exactly, and then to a second
\* that is no part of one.  A timer that starts from zero never comes to them.
Halves == {15625, 31250, 62500, 125000, 250000, 500000}

\* What a loop's timeout t may be with the limit l.
Waits(t, l) ==
    /\ t \in [sec : Nat, usec : 0 .. Wait!Second - 1]
    /\ t.sec > 0 => t.usec = 0
    /\ l.sec > 0 => t.sec <= l.sec
    /\ l.sec = 0 /\ l.usec > 0 => t.sec = 0 /\ t.usec <= l.usec
    /\ l.usec = 0 => t.usec \notin Halves

\* Limits in seconds, or in microseconds and less than a second.
OneUnit == {l \in [sec : Nat, usec : 0 .. Wait!Second - 1] : l.sec = 0 \/ l.usec = 0}

\* A loop that runs with such a limit has one of these timeouts.
WaitInv ==
    task = "timeout" =>
        limit \in [sec : Nat, usec : Nat] /\ (limit \in OneUnit => Waits(tv, limit))

\* What WaitGrowsToTheLimit says of the timeout t and the limit l.
Grows(t, l) ==
    LET next == Wait!Doubletime(t, l.sec, l.usec)
    IN /\ next.usec \in 0 .. Wait!Second - 1
       /\ \/ Wait!Shorter(t, next) /\ (l # Wait!Zero => ~Wait!Shorter(l, next))
          \/ t = l /\ next = t /\ l # Wait!Zero

\* A second is half a second twice.
LEMMA SecondIs ==
  /\ Wait!Second \in Nat /\ 1 < Wait!Second
  /\ 0 \notin Halves /\ 1 \notin Halves
  /\ \A n \in Nat : n = Wait!Second \div 2 => n + n = Wait!Second /\ n \in Halves
  <1>1. Wait!Second \in Nat /\ 1 < Wait!Second
    BY SMT DEF Wait!Second
  <1>2. 0 \notin Halves /\ 1 \notin Halves
    BY SMT DEF Halves
  <1>3. \A n \in Nat : n = Wait!Second \div 2 => n = 500000
    BY SMT DEF Wait!Second
  <1>4. 500000 + 500000 = Wait!Second /\ 500000 \in Halves
    BY SMT DEF Wait!Second, Halves
  <1> QED
    BY <1>1, <1>2, <1>3, <1>4, SMT

\* A time that is doubled once more does not come to a second exactly.
LEMMA DoubledHalves == \A n \in Nat : n \notin Halves /\ n # 0 => 2 * n \notin Halves
  BY SMT DEF Halves

\* A time is doubled, raised to a second or set to the limit.
LEMMA DoubletimeGrows ==
  ASSUME NEW l \in OneUnit, NEW t, Waits(t, l)
  PROVE  Waits(Wait!Doubletime(t, l.sec, l.usec), l) /\ Grows(t, l)
  <1> DEFINE next == Wait!Doubletime(t, l.sec, l.usec)
             half == (IF l.usec = 0 \/ l.usec > Wait!Second THEN Wait!Second ELSE l.usec) \div 2
             endless == l.sec = 0 /\ l.usec = 0
  <1>1. /\ l.sec \in Nat /\ l.usec \in Nat /\ l.usec < Wait!Second
        /\ t.sec \in Nat /\ t.usec \in Nat /\ t.usec < Wait!Second
        /\ Wait!Second \in Nat
        /\ t = [sec |-> t.sec, usec |-> t.usec]
        /\ l = [sec |-> l.sec, usec |-> l.usec]
        /\ l.sec = 0 \/ l.usec = 0
    BY SecondIs DEF Waits, OneUnit
  <1>2. /\ t.sec > 0 => t.usec = 0
        /\ l.sec > 0 => t.sec <= l.sec
        /\ l.sec = 0 /\ l.usec > 0 => t.sec = 0 /\ t.usec <= l.usec
        /\ l.usec = 0 => t.usec \notin Halves
    BY DEF Waits
  <1>3. /\ half \in Nat /\ half >= 0
        /\ l.usec = 0 => half + half = Wait!Second /\ half \in Halves
        /\ l.usec # 0 => half + half <= l.usec /\ l.usec <= half + half + 1
    BY <1>1, SecondIs
  <1>4. t = Wait!Zero <=> t.sec = 0 /\ t.usec = 0
    BY <1>1 DEF Wait!Zero
  <1>5. /\ t.sec = 0 /\ t.usec = 0 => next = [sec |-> 0, usec |-> 1]
        /\ t.sec = 0 /\ 0 < t.usec /\ t.usec <= half => next = [sec |-> 0, usec |-> 2 * t.usec]
        /\ t.sec = 0 /\ t.usec > half /\ (l.sec > 0 \/ endless) => next = [sec |-> 1, usec |-> 0]
        /\ t.sec = 0 /\ t.usec > half /\ ~(l.sec > 0 \/ endless)
             => next = [sec |-> 0, usec |-> l.usec]
        /\ t.sec > 0 /\ t.sec >= l.sec \div 2 /\ ~endless
             => next = [sec |-> l.sec, usec |-> t.usec]
        /\ t.sec > 0 /\ (t.sec < l.sec \div 2 \/ endless)
             => next = [sec |-> 2 * t.sec, usec |-> t.usec]
    <2> HIDE DEF half
    <2> QED
      BY <1>1, <1>3, <1>4, SMTT(30) DEF next, Wait!Doubletime, half
  <1> HIDE DEF half, next
  \* What makes the new time a good one, in numbers.
  <1> DEFINE Good(s, u) ==
               /\ next = [sec |-> s, usec |-> u]
               /\ u < Wait!Second /\ (s > 0 => u = 0)
               /\ l.sec > 0 => s <= l.sec
               /\ l.sec = 0 /\ l.usec > 0 => s = 0 /\ u <= l.usec
               /\ l.usec = 0 => u \notin Halves
               /\ \/ t.sec < s \/ (t.sec = s /\ t.usec < u)
                  \/ ~endless /\ s = t.sec /\ u = t.usec /\ s = l.sec /\ u = l.usec
  <1>6. ASSUME NEW s \in Nat, NEW u \in Nat, Good(s, u)
        PROVE  Waits(next, l) /\ Grows(t, l)
    <2>1. next.sec = s /\ next.usec = u /\ next \in [sec : Nat, usec : 0 .. Wait!Second - 1]
      BY <1>1, <1>6
    <2>2. Waits(next, l)
      BY <1>6, <2>1 DEF Waits
    <2>4. l = Wait!Zero <=> endless
      BY <1>1 DEF Wait!Zero
    <2>5. l # Wait!Zero => ~Wait!Shorter(l, next)
      <3>1. SUFFICES ASSUME ~endless PROVE ~Wait!Shorter(l, next)
        BY <2>4
      <3> QED
        BY <1>1, <1>6, <2>1, <3>1 DEF Wait!Shorter
    <2>6. Grows(t, l) <=> /\ u \in 0 .. Wait!Second - 1
                          /\ \/ /\ Wait!Shorter(t, next)
                                /\ l # Wait!Zero => ~Wait!Shorter(l, next)
                             \/ t = l /\ next = t /\ l # Wait!Zero
      BY <2>1 DEF Grows, next
    <2>7. u \in 0 .. Wait!Second - 1
      BY <1>1, <1>6
    <2>8. CASE t.sec < s \/ (t.sec = s /\ t.usec < u)
      <3>1. Wait!Shorter(t, next)
        BY <2>1, <2>8 DEF Wait!Shorter
      <3> QED
        BY <2>2, <2>5, <2>6, <2>7, <3>1
    <2>9. CASE ~endless /\ s = t.sec /\ u = t.usec /\ s = l.sec /\ u = l.usec
      <3>1. t = l /\ next = t
        BY <1>1, <1>6, <2>9
      <3> QED
        BY <2>2, <2>4, <2>6, <2>7, <2>9, <3>1
    <2> QED
      BY <1>6, <2>8, <2>9
  <1> SUFFICES \E s, u \in Nat : Good(s, u)
    BY <1>6 DEF next
  <1>7. CASE t.sec = 0 /\ t.usec = 0
    <2>1. Good(0, 1)
      BY <1>1, <1>2, <1>5, <1>7, SecondIs
    <2> QED
      BY <2>1
  <1>8. CASE t.sec = 0 /\ 0 < t.usec /\ t.usec <= half
    <2>1. 2 * t.usec < Wait!Second /\ (l.usec > 0 => 2 * t.usec <= l.usec)
      BY <1>1, <1>2, <1>3, <1>8
    <2>2. l.usec = 0 => 2 * t.usec \notin Halves
      BY <1>1, <1>2, <1>8, DoubledHalves
    <2>3. Good(0, 2 * t.usec) /\ 2 * t.usec \in Nat
      BY <1>1, <1>2, <1>5, <1>8, <2>1, <2>2
    <2> QED
      BY <2>3
  <1>9. CASE t.sec = 0 /\ t.usec > half /\ t.usec > 0
    <2>1. CASE l.sec > 0 \/ endless
      <3>1. Good(1, 0)
        BY <1>1, <1>2, <1>5, <1>9, <2>1, SecondIs
      <3> QED
        BY <3>1
    <2>2. CASE ~(l.sec > 0 \/ endless)
      <3>1. Good(0, l.usec)
        BY <1>1, <1>2, <1>5, <1>9, <2>2
      <3> QED
        BY <1>1, <3>1
    <2> QED
      BY <2>1, <2>2
  <1>10. CASE t.sec > 0 /\ t.sec >= l.sec \div 2 /\ ~endless
    <2>1. Good(l.sec, 0)
      BY <1>1, <1>2, <1>5, <1>10, SecondIs
    <2> QED
      BY <1>1, <2>1
  <1>11. CASE t.sec > 0 /\ (t.sec < l.sec \div 2 \/ endless)
    <2>1. (l.sec > 0 => 2 * t.sec <= l.sec) /\ (l.sec = 0 => endless)
      BY <1>1, <1>2, <1>11
    <2>2. Good(2 * t.sec, 0) /\ 2 * t.sec \in Nat
      BY <1>1, <1>2, <1>5, <1>11, <2>1, SecondIs
    <2> QED
      BY <2>2
  <1> QED
    BY <1>1, <1>3, <1>7, <1>8, <1>9, <1>10, <1>11

\* A select loop with a limit in one unit that stays idle waits longer every
\* time until it has come to the limit, which it keeps, and what it waits is
\* always a proper timeval.
THEOREM WaitSpecGrows ==
  ASSUME Limits \subseteq [sec : Nat, usec : Nat]
  PROVE  Wait!Spec => []Wait!WaitGrowsToTheLimit
  <1>1. \A l \in OneUnit : Waits(Wait!Zero, l)
    BY SecondIs DEF Waits, OneUnit, Wait!Zero
  <1>2. Wait!Init => WaitInv
    <2> SUFFICES ASSUME Wait!Init, task = "timeout" PROVE WaitInv
      BY DEF WaitInv
    <2>1. limit \in Limits /\ tv = Wait!Zero
      BY Zenon DEF Wait!Init
    <2>2. limit \in [sec : Nat, usec : Nat]
      BY <2>1, Zenon
    <2> QED
      BY <1>1, <2>1, <2>2 DEF WaitInv
  <1>3. WaitInv /\ [Wait!Next]_Wait!vars => WaitInv'
    <2> SUFFICES ASSUME WaitInv, [Wait!Next]_Wait!vars PROVE WaitInv'
      OBVIOUS
    <2>1. CASE Wait!Timeout
      <3>1. /\ task = "timeout" /\ task' = task /\ limit' = limit
            /\ tv' = Wait!Doubletime(tv, limit.sec, limit.usec)
        BY <2>1, Zenon DEF Wait!Timeout
      <3>2. limit \in [sec : Nat, usec : Nat] /\ (limit \in OneUnit => Waits(tv, limit))
        BY <3>1 DEF WaitInv
      <3>3. limit \in OneUnit => Waits(tv', limit)
        BY <3>1, <3>2, DoubletimeGrows
      <3> QED
        BY <3>1, <3>2, <3>3 DEF WaitInv
    <2>2. CASE Wait!Busy
      BY <1>1, <2>2 DEF Wait!Busy, WaitInv
    <2>3. CASE Wait!NextFloat \/ Wait!NextMessage
      BY <2>3 DEF Wait!NextFloat, Wait!NextMessage, WaitInv
    <2>4. CASE UNCHANGED Wait!vars
      BY <2>4 DEF Wait!vars, WaitInv
    <2> QED
      BY <2>1, <2>2, <2>3, <2>4 DEF Wait!Next
  <1>4. WaitInv => Wait!WaitGrowsToTheLimit
    <2> SUFFICES ASSUME WaitInv, task = "timeout", limit.usec < Wait!Second,
                        limit.sec = 0 \/ limit.usec = 0
                 PROVE  Grows(tv, limit)
      BY DEF Wait!WaitGrowsToTheLimit, Grows
    <2>1. limit \in OneUnit
      BY SecondIs DEF WaitInv, OneUnit
    <2> QED
      BY <2>1, DoubletimeGrows DEF WaitInv
  <1> QED
    BY <1>2, <1>3, <1>4, PTL DEF Wait!Spec

=============================================================================
