------------------------- MODULE HttpSessionsProofs -------------------------
(***************************************************************************)
(* Theorems about HttpSessions, for any number of connections, workspaces  *)
(* and signals: nobody talks to a database that has been closed, and a     *)
(* shutdown leaves nobody connected.                                       *)
(*                                                                         *)
(* The first rests on the order of the stoppers (PortFirst): what closes   *)
(* the databases comes after the port has been closed.  The second rests   *)
(* on what a loop of close() has seen (SeenAreClosed): a session that it   *)
(* is through with stays closed, and an id of one is not used again as     *)
(* long as the map has it.                                                 *)
(***************************************************************************)
EXTENDS HttpSessions, SequenceTheorems, TLAPS

StopperLists == {<<>>, <<"http">>, <<"stdio">>, <<"http", "stdio">>}

Conn == [at : {"connecting", "open"}, workspace : Workspaces, db : Nat \ {0}] \cup {Closed}

Types ==
  /\ stoppers \in StopperLists
  /\ listening \in BOOLEAN
  /\ opened \in [Workspaces -> Nat]
  /\ openings \in Nat
  /\ sessions \subseteq Conns
  /\ conn \in [Conns -> Conn]
  /\ shutdown \in [Signals -> {"none", "http", "stdio", "exit"}]
  /\ seen \in [Signals -> SUBSET Conns]

\* As long as the port is open, each shutdown is still at it, or not there.
PortFirst ==
  listening => /\ stoppers \in {<<"http">>, <<"http", "stdio">>}
               /\ \A g \in Signals : shutdown[g] \in {"none", "http"}
               /\ ~exited

\* A shutdown is at one of its stoppers.
AtStopper ==
  \A g \in Signals :
    /\ shutdown[g] = "http" => stoppers \in {<<"http">>, <<"http", "stdio">>}
    /\ shutdown[g] = "stdio" => stoppers \in {<<"stdio">>, <<"http", "stdio">>}

SeenAreClosed ==
  \A g \in Signals : /\ \A c \in seen[g] : conn[c] = Closed
                     /\ listening => seen[g] \subseteq sessions

\* Once the port is closed nobody comes that was not at an await by then.
OnlyPendingComes == ~listening => OpenConns \cup ConnectingConns \subseteq pending

IInv ==
  /\ Types /\ PortFirst /\ AtStopper /\ SeenAreClosed /\ OnlyPendingComes
  /\ DatabasesInUse
  /\ OpenConns \subseteq sessions

----------------------------------------------------------------------------
(* The stoppers.                                                           *)

\* Both stoppers are a list of two.
LEMMA BothStoppers == <<"http">> \o <<"stdio">> = <<"http", "stdio">>
<1> DEFINE S == {"http", "stdio"}
           joined == <<"http">> \o <<"stdio">>
           both == <<"http", "stdio">>
<1>1. <<"http">> \in Seq(S) /\ <<"stdio">> \in Seq(S) /\ both \in Seq(S)
  OBVIOUS
<1>2. Len(<<"http">>) = 1 /\ Len(<<"stdio">>) = 1
  OBVIOUS
<1>3. Len(both) = 2 /\ both[1] = "http" /\ both[2] = "stdio"
  OBVIOUS
<1> HIDE DEF S
<1>4. joined \in Seq(S) /\ Len(joined) = 2 /\ joined[1] = "http" /\ joined[2] = "stdio"
  BY <1>1, <1>2
<1> HIDE DEF joined, both
<1>5. \A i \in 1..Len(joined) : joined[i] = both[i]
  <2>1. \A i \in 1..2 : i = 1 \/ i = 2
    OBVIOUS
  <2> QED
    BY <1>3, <1>4, <2>1
<1>6. joined = both
  BY <1>1, <1>3, <1>4, <1>5, SeqEqual
<1> QED
  BY <1>6 DEF joined, both

\* runServe starts with the port, if there is one.
LEMMA StoppersInOrder ==
  ASSUME NEW f \in Flags
  PROVE  /\ StoppersOf(f) \in StopperLists
         /\ RunsHttp(f) => StoppersOf(f) \in {<<"http">>, <<"http", "stdio">>}
<1>1. CASE RunsHttp(f) /\ RunsStdio(f)
  BY <1>1, BothStoppers DEF StoppersOf, StopperLists
<1>2. CASE RunsHttp(f) /\ ~RunsStdio(f)
  BY <1>2 DEF StoppersOf, StopperLists
<1>3. CASE ~RunsHttp(f) /\ RunsStdio(f)
  BY <1>3 DEF StoppersOf, StopperLists
<1>4. CASE ~RunsHttp(f) /\ ~RunsStdio(f)
  BY <1>4 DEF StoppersOf, StopperLists
<1> QED
  BY <1>1, <1>2, <1>3, <1>4

\* What a shutdown does first.
LEMMA FirstStopper ==
  ASSUME stoppers \in StopperLists
  PROVE  /\ stoppers \in {<<"http">>, <<"http", "stdio">>} => At(1) = "http"
         /\ stoppers = <<"stdio">> => At(1) = "stdio"
         /\ stoppers = <<>> => At(1) = "exit"
<1>1. CASE stoppers = <<>>
  BY <1>1 DEF At
<1>2. CASE stoppers = <<"http">>
  BY <1>2 DEF At
<1>3. CASE stoppers = <<"stdio">>
  BY <1>3 DEF At
<1>4. CASE stoppers = <<"http", "stdio">>
  BY <1>4 DEF At
<1> QED
  BY <1>1, <1>2, <1>3, <1>4 DEF StopperLists

\* What it does after the port.
LEMMA AfterHttp ==
  ASSUME stoppers \in {<<"http">>, <<"http", "stdio">>}
  PROVE  After("http") = IF stoppers = <<"http">> THEN "exit" ELSE "stdio"
<1>1. DOMAIN stoppers \subseteq {1, 2} /\ stoppers[1] = "http" /\ 1 \in DOMAIN stoppers
  OBVIOUS
<1>2. 2 \in DOMAIN stoppers => stoppers[2] = "stdio"
  OBVIOUS
<1>3. (CHOOSE i \in DOMAIN stoppers : stoppers[i] = "http") = 1
  BY <1>1, <1>2
<1> QED
  BY <1>3 DEF After, At

\* What it does after the stdio server.
LEMMA AfterStdio ==
  ASSUME stoppers \in {<<"stdio">>, <<"http", "stdio">>}
  PROVE  After("stdio") = "exit"
<1>1. CASE stoppers = <<"stdio">>
  <2>1. (CHOOSE i \in DOMAIN stoppers : stoppers[i] = "stdio") = 1
    BY <1>1
  <2> QED
    BY <1>1, <2>1 DEF After, At
<1>2. CASE stoppers = <<"http", "stdio">>
  <2>1. (CHOOSE i \in DOMAIN stoppers : stoppers[i] = "stdio") = 2
    BY <1>2
  <2> QED
    BY <1>2, <2>1 DEF After, At
<1> QED
  BY <1>1, <1>2

----------------------------------------------------------------------------
(* The invariant.                                                          *)

\* The first state.
LEMMA InitIInv == Init => IInv
<1> SUFFICES ASSUME Init
             PROVE  IInv
  OBVIOUS
<1>1. PICK f \in Flags : stoppers = StoppersOf(f) /\ listening = RunsHttp(f)
  BY DEF Init
<1>2. stoppers \in StopperLists /\ (listening => stoppers \in {<<"http">>, <<"http", "stdio">>})
  BY <1>1, StoppersInOrder
<1>3. listening \in BOOLEAN
  BY <1>1 DEF RunsHttp
<1>4. OpenConns = {} /\ ConnectingConns = {}
  BY DEF Init, OpenConns, ConnectingConns, Closed
<1>5. Types
  BY <1>2, <1>3 DEF Init, Types, Conn, Closed
<1>6. DatabasesInUse
  BY <1>4 DEF Init, DatabasesInUse, StdioStopped
<1> QED
  BY <1>2, <1>4, <1>5, <1>6 DEF Init, IInv, PortFirst, AtStopper, SeenAreClosed, OnlyPendingComes

\* Opening a workspace takes no connection away.
LEMMA GetKeeps ==
  ASSUME Types, NEW w \in Workspaces, Get(w)
  PROVE  /\ opened' \in [Workspaces -> Nat] /\ openings' \in Nat
         /\ opened'[w] # 0
         /\ \A v \in Workspaces : opened[v] # 0 => opened'[v] = opened[v]
  BY DEF Types, Get

\* The requests that get to a session name a workspace.
LEMMA AcceptedWorkspace ==
  ASSUME NEW req \in Accepted
  PROVE  req.workspace \in Workspaces
  BY DEF Accepted, Status, Request

\* Serving keeps the invariant.
LEMMA ServingIInv ==
  ASSUME IInv, ~exited, Serving
  PROVE  IInv'
<1> USE DEF IInv, registry, transports, closing
<1>1. ASSUME NEW c \in Conns, NEW req \in Accepted, OpenTransport(c, req)
      PROVE  IInv'
  <2> DEFINE w == req.workspace
  <2>1. /\ w \in Workspaces /\ Get(w) /\ listening /\ c \notin sessions /\ conn[c] = Closed
        /\ conn' = [conn EXCEPT ![c] = [at |-> "connecting", workspace |-> w, db |-> opened'[w]]]
        /\ UNCHANGED <<stoppers, listening, sessions, shutdown, seen, exited, pending>>
    BY <1>1, AcceptedWorkspace DEF OpenTransport, Connecting
  <2>2. /\ opened' \in [Workspaces -> Nat] /\ openings' \in Nat /\ opened'[w] # 0
        /\ \A v \in Workspaces : opened[v] # 0 => opened'[v] = opened[v]
    BY <2>1, GetKeeps
  <2>3. Types'
    BY <2>1, <2>2 DEF Types, Conn
  <2>4. OpenConns' = OpenConns /\ ConnectingConns' = ConnectingConns \cup {c}
    BY <2>1 DEF OpenConns, ConnectingConns, Types, Closed
  <2>5. SeenAreClosed'
    BY <2>1 DEF SeenAreClosed, Types
  <2>6. \A d \in (OpenConns \cup ConnectingConns)' : opened'[conn'[d].workspace] = conn'[d].db
    <3> SUFFICES ASSUME NEW d \in (OpenConns \cup ConnectingConns)'
                 PROVE  opened'[conn'[d].workspace] = conn'[d].db
      OBVIOUS
    <3>1. CASE d = c
      BY <2>1, <3>1 DEF Types
    <3>2. CASE d # c
      <4>1. d \in OpenConns \cup ConnectingConns /\ conn'[d] = conn[d] /\ d \in Conns
        BY <2>1, <2>4, <3>2 DEF OpenConns, ConnectingConns, Types
      <4>2. conn[d].workspace \in Workspaces /\ conn[d].db # 0
        BY <4>1 DEF OpenConns, ConnectingConns, Types, Conn, Closed
      <4>3. opened[conn[d].workspace] = conn[d].db
        BY <4>1, <2>1 DEF DatabasesInUse
      <4> QED
        BY <4>1, <4>2, <4>3, <2>2
    <3> QED
      BY <3>1, <3>2
  <2>7. ~StdioStopped' /\ ~exited'
    BY <2>1 DEF StdioStopped, PortFirst
  <2> QED
    BY <2>1, <2>3, <2>4, <2>5, <2>6, <2>7
      DEF PortFirst, AtStopper, OnlyPendingComes, DatabasesInUse
<1>2. ASSUME NEW c \in Conns, SessionInitialized(c)
      PROVE  IInv'
  <2>1. /\ conn[c].at = "connecting"
        /\ conn' = [conn EXCEPT ![c].at = "open"]
        /\ sessions' = sessions \cup {c}
        /\ UNCHANGED <<stoppers, listening, opened, openings, shutdown, seen, exited, pending>>
    BY <1>2 DEF SessionInitialized, ConnectingConns
  <2>2. conn[c] \in [at : {"connecting", "open"}, workspace : Workspaces, db : Nat \ {0}]
    BY <2>1 DEF Types, Conn, Closed
  <2>3. Types'
    BY <2>1, <2>2 DEF Types, Conn
  <2>4. OpenConns' = OpenConns \cup {c} /\ (OpenConns \cup ConnectingConns)' = OpenConns \cup ConnectingConns
    BY <2>1, <2>2 DEF OpenConns, ConnectingConns, Types
  <2>5. SeenAreClosed'
    BY <2>1 DEF SeenAreClosed, Types, Closed
  <2>6. \A d \in Conns : conn'[d].workspace = conn[d].workspace /\ conn'[d].db = conn[d].db
    BY <2>1, <2>2 DEF Types
  <2>7. DatabasesInUse'
    BY <2>1, <2>4, <2>6 DEF DatabasesInUse, StdioStopped, OpenConns, ConnectingConns
  <2> QED
    BY <2>1, <2>3, <2>4, <2>5, <2>7 DEF PortFirst, AtStopper, OnlyPendingComes
<1>3. ASSUME NEW c \in Conns, NotInitialize(c) \/ DeleteSession(c)
      PROVE  IInv'
  <2>1. /\ conn' = [conn EXCEPT ![c] = Closed]
        /\ sessions' \in {sessions, sessions \ {c}}
        /\ seen' \in [Signals -> SUBSET Conns]
        /\ \A g \in Signals : seen'[g] \subseteq seen[g] /\ (sessions' # sessions => c \notin seen'[g])
        /\ UNCHANGED <<stoppers, listening, opened, openings, shutdown, exited, pending>>
    BY <1>3 DEF NotInitialize, DeleteSession, Types
  <2>2. Types'
    BY <2>1 DEF Types, Conn
  <2>3. OpenConns' = OpenConns \ {c} /\ ConnectingConns' = ConnectingConns \ {c}
    BY <2>1 DEF OpenConns, ConnectingConns, Types, Closed
  <2>4. SeenAreClosed'
    BY <2>1 DEF SeenAreClosed, Types
  <2>5. DatabasesInUse'
    BY <2>1, <2>3 DEF DatabasesInUse, StdioStopped, OpenConns, ConnectingConns, Types
  <2> QED
    BY <2>1, <2>2, <2>3, <2>4, <2>5 DEF PortFirst, AtStopper, OnlyPendingComes
<1>4. CASE Probe
  <2>1. /\ Get(DefaultWorkspace) /\ listening
        /\ UNCHANGED <<stoppers, listening, sessions, conn, shutdown, seen, exited, pending>>
    BY <1>4 DEF Probe
  <2>2. /\ opened' \in [Workspaces -> Nat] /\ openings' \in Nat
        /\ \A v \in Workspaces : opened[v] # 0 => opened'[v] = opened[v]
    BY <2>1, GetKeeps, ConnsAssumption
  <2>3. Types'
    BY <2>1, <2>2 DEF Types
  <2>4. \A d \in OpenConns \cup ConnectingConns : opened'[conn[d].workspace] = conn[d].db
    <3> SUFFICES ASSUME NEW d \in OpenConns \cup ConnectingConns
                 PROVE  opened'[conn[d].workspace] = conn[d].db
      OBVIOUS
    <3>1. conn[d].workspace \in Workspaces /\ conn[d].db # 0
      BY DEF OpenConns, ConnectingConns, Types, Conn, Closed
    <3> QED
      BY <3>1, <2>1, <2>2 DEF DatabasesInUse
  <2>5. ~StdioStopped' /\ ~exited'
    BY <2>1 DEF StdioStopped, PortFirst
  <2>6. OpenConns' = OpenConns /\ ConnectingConns' = ConnectingConns
    BY <2>1 DEF OpenConns, ConnectingConns
  <2> QED
    BY <2>1, <2>3, <2>4, <2>5, <2>6
      DEF PortFirst, AtStopper, SeenAreClosed, OnlyPendingComes, DatabasesInUse
<1> QED
  BY <1>1, <1>2, <1>3, <1>4 DEF Serving

\* A shutdown keeps the invariant.
LEMMA ShutdownIInv ==
  ASSUME IInv, ~exited, NEW g \in Signals, SignalArrives(g) \/ Stopping(g)
  PROVE  IInv'
<1> USE DEF IInv, registry, transports, closing
<1>1. CASE SignalArrives(g)
  <2>1. /\ shutdown[g] = "none"
        /\ shutdown' = [shutdown EXCEPT ![g] = At(1)]
        /\ UNCHANGED <<stoppers, listening, opened, openings, sessions, conn, seen, exited, pending>>
    BY <1>1 DEF SignalArrives
  <2>2. /\ At(1) \in {"http", "stdio", "exit"}
        /\ At(1) = "http" => stoppers \in {<<"http">>, <<"http", "stdio">>}
        /\ At(1) = "stdio" => stoppers = <<"stdio">>
        /\ At(1) = "exit" => stoppers = <<>>
    BY FirstStopper DEF Types, StopperLists
  <2>3. Types' /\ AtStopper'
    BY <2>1, <2>2 DEF Types, AtStopper
  <2>4. PortFirst'
    BY <2>1, <2>2, FirstStopper DEF PortFirst, Types
  <2>5. OpenConns' = OpenConns /\ ConnectingConns' = ConnectingConns
    BY <2>1 DEF OpenConns, ConnectingConns
  <2>6. StdioStopped' => StdioStopped
    <3> SUFFICES ASSUME StdioStopped'
                 PROVE  StdioStopped
      OBVIOUS
    <3>1. PICK h \in Signals : shutdown'[h] = "exit" /\ \E i \in DOMAIN stoppers : stoppers[i] = "stdio"
      BY <2>1 DEF StdioStopped
    <3>2. h # g
      BY <2>1, <2>2, <3>1 DEF Types
    <3> QED
      BY <2>1, <3>1, <3>2 DEF StdioStopped, Types
  <2>7. DatabasesInUse'
    BY <2>1, <2>5, <2>6 DEF DatabasesInUse
  <2> QED
    BY <2>1, <2>3, <2>4, <2>5, <2>7 DEF SeenAreClosed, OnlyPendingComes
<1>2. ASSUME NEW c \in Conns, CloseSession(g, c)
      PROVE  IInv'
  <2>1. /\ c \in sessions
        /\ conn' = [conn EXCEPT ![c] = Closed]
        /\ seen' = [seen EXCEPT ![g] = @ \cup {c}]
        /\ UNCHANGED <<stoppers, listening, opened, openings, sessions, shutdown, exited, pending>>
    BY <1>2 DEF CloseSession, Unseen
  <2>2. Types'
    BY <2>1 DEF Types, Conn
  <2>3. OpenConns' = OpenConns \ {c} /\ ConnectingConns' = ConnectingConns \ {c}
    BY <2>1 DEF OpenConns, ConnectingConns, Types, Closed
  <2>4. SeenAreClosed'
    BY <2>1 DEF SeenAreClosed, Types
  <2>5. DatabasesInUse'
    BY <2>1, <2>3 DEF DatabasesInUse, StdioStopped, OpenConns, ConnectingConns, Types
  <2> QED
    BY <2>1, <2>2, <2>3, <2>4, <2>5 DEF PortFirst, AtStopper, OnlyPendingComes
<1>3. CASE CloseHttp(g)
  <2>1. /\ shutdown[g] = "http" /\ Unseen(g) = {}
        /\ sessions' = {} /\ listening' = FALSE
        /\ pending' = IF listening THEN ConnectingConns ELSE pending
        /\ shutdown' = [shutdown EXCEPT ![g] = After("http")]
        /\ UNCHANGED <<stoppers, opened, openings, conn, seen, exited>>
    BY <1>3 DEF CloseHttp, PortClosed
  <2>2. stoppers \in {<<"http">>, <<"http", "stdio">>}
    BY <2>1 DEF AtStopper
  <2>3. After("http") = IF stoppers = <<"http">> THEN "exit" ELSE "stdio"
    BY <2>2, AfterHttp
  <2>4. Types' /\ AtStopper'
    BY <2>1, <2>2, <2>3 DEF Types, AtStopper
  <2>5. OpenConns = {}
    <3>1. \A c \in sessions : conn[c] = Closed
      BY <2>1 DEF Unseen, SeenAreClosed
    <3> QED
      BY <3>1 DEF OpenConns, Closed
  <2>6. OpenConns' = {} /\ ConnectingConns' = ConnectingConns
    BY <2>1, <2>5 DEF OpenConns, ConnectingConns
  <2>7. StdioStopped' => StdioStopped
    <3> SUFFICES ASSUME StdioStopped'
                 PROVE  StdioStopped
      OBVIOUS
    <3>1. PICK h \in Signals : shutdown'[h] = "exit" /\ \E i \in DOMAIN stoppers : stoppers[i] = "stdio"
      BY <2>1 DEF StdioStopped
    <3>2. stoppers # <<"http">>
      BY <3>1
    <3>3. h # g
      BY <2>1, <2>3, <3>1, <3>2 DEF Types
    <3> QED
      BY <2>1, <3>1, <3>3 DEF StdioStopped, Types
  <2>8. DatabasesInUse'
    BY <2>1, <2>7 DEF DatabasesInUse
  <2> QED
    BY <2>1, <2>4, <2>5, <2>6, <2>8 DEF PortFirst, SeenAreClosed, OnlyPendingComes
<1>4. CASE CloseStdio(g)
  <2>1. /\ shutdown[g] = "stdio"
        /\ opened' = [w \in Workspaces |-> 0]
        /\ shutdown' = [shutdown EXCEPT ![g] = After("stdio")]
        /\ UNCHANGED <<stoppers, listening, openings, sessions, conn, seen, exited, pending>>
    BY <1>4 DEF CloseStdio, CloseAll
  <2>2. ~listening
    BY <2>1 DEF PortFirst, Types
  <2>3. After("stdio") = "exit"
    BY <2>1, AfterStdio DEF AtStopper
  <2>4. Types' /\ AtStopper'
    BY <2>1, <2>3 DEF Types, AtStopper
  <2>5. OpenConns' = OpenConns /\ ConnectingConns' = ConnectingConns
    BY <2>1 DEF OpenConns, ConnectingConns
  <2> QED
    BY <2>1, <2>2, <2>4, <2>5 DEF PortFirst, SeenAreClosed, OnlyPendingComes, DatabasesInUse
<1>5. CASE Exit(g)
  <2>1. /\ shutdown[g] = "exit"
        /\ opened' = [w \in Workspaces |-> 0]
        /\ UNCHANGED <<stoppers, listening, openings, sessions, conn, shutdown, seen, pending>>
    BY <1>5 DEF Exit, CloseAll
  <2>2. ~listening
    BY <2>1 DEF PortFirst, Types
  <2>3. Types'
    BY <2>1 DEF Types
  <2>4. OpenConns' = OpenConns /\ ConnectingConns' = ConnectingConns
    BY <2>1 DEF OpenConns, ConnectingConns
  <2> QED
    BY <2>1, <2>2, <2>3, <2>4
      DEF PortFirst, AtStopper, SeenAreClosed, OnlyPendingComes, DatabasesInUse
<1> QED
  BY <1>1, <1>2, <1>3, <1>4, <1>5 DEF Stopping

\* A step that changes nothing keeps it.
LEMMA StutterIInv == IInv /\ UNCHANGED vars => IInv'
  BY DEF IInv, vars, registry, transports, closing, Types, PortFirst, AtStopper, SeenAreClosed,
         OnlyPendingComes, OpenConns, ConnectingConns, DatabasesInUse, StdioStopped

\* The inductive invariant holds in every state.
THEOREM SessionsInvariant == Spec => []IInv
<1>1. IInv /\ [Next]_vars => IInv'
  BY ServingIInv, ShutdownIInv, StutterIInv DEF Next
<1> QED
  BY <1>1, InitIInv, PTL DEF Spec

\* As long as requests are accepted, sessions and requests hold the connection
\* that the registry has open; once a shutdown has closed the databases, none
\* is opened again.
THEOREM DatabasesStayInUse == Spec => []DatabasesInUse
<1>1. IInv => DatabasesInUse
  BY DEF IInv
<1> QED
  BY <1>1, SessionsInvariant, PTL

\* An open transport is always in the map, and once the port is closed only
\* those are open whose initialize request was on its way by then.
THEOREM NothingStaysOpen == Spec => []NothingLeftOpen
<1>1. IInv => NothingLeftOpen
  BY DEF IInv, OnlyPendingComes, NothingLeftOpen
<1> QED
  BY <1>1, SessionsInvariant, PTL

=============================================================================
