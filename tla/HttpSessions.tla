---------------------------- MODULE HttpSessions ----------------------------
(***************************************************************************)
(* The life of a serving process: packages/server/src/transport/http.ts    *)
(* and stdio.ts, the WorkspaceRegistry of workspace.ts, and runServe with  *)
(* its shutdown in cli.ts.                                                 *)
(*                                                                         *)
(* JavaScript runs one piece of code at a time, so an action is a handler  *)
(* from one await to the next.  Requests, session closings and the two     *)
(* shutdowns that SIGINT and SIGTERM may start interleave at the awaits.   *)
(* What a request does inside its session is in ToolCalls.                 *)
(***************************************************************************)
EXTENDS Naturals, FiniteSets, Sequences

CONSTANTS
  Conns,             \* sessions at a time: an id is used again once it is closed
  Workspaces,
  DefaultWorkspace,
  Signals            \* each one that arrives starts a shutdown

ASSUME ConnsAssumption == IsFiniteSet(Conns) /\ DefaultWorkspace \in Workspaces

VARIABLES
  stoppers,   \* how runServe stops what it has started, in order
  listening,  \* Bun.serve accepts requests
  opened,     \* registry: workspace -> number of its open connection, 0: none
  openings,   \* connections opened so far
  sessions,   \* the map of startHttpServer, its keys
  conn,       \* each session's transport and server
  shutdown,   \* signal -> what its shutdown is about to do
  seen,       \* signal -> sessions its loop in close() is through with
  exited,
  pending     \* history: requests at their awaits when the port was closed

registry == <<opened, openings>>
transports == <<sessions, conn>>
closing == <<shutdown, seen, exited, pending>>
vars == <<stoppers, listening, registry, transports, closing>>

----------------------------------------------------------------------------
(* WorkspaceRegistry.                                                      *)

\* get opens a workspace's database if it is not open.
Get(w) ==
  /\ openings' = IF opened[w] = 0 THEN openings + 1 ELSE openings
  /\ opened' = IF opened[w] = 0 THEN [opened EXCEPT ![w] = openings'] ELSE opened

CloseAll ==
  /\ opened' = [w \in Workspaces |-> 0]
  /\ UNCHANGED openings

----------------------------------------------------------------------------
(* Transports.                                                             *)

Closed == [at |-> "closed"]

\* The server is built for a workspace, with the connection of that moment.
Connecting(w, number) == [at |-> "connecting", workspace |-> w, db |-> number]

OpenConns == {c \in Conns : conn[c].at = "open"}

ConnectingConns == {c \in Conns : conn[c].at = "connecting"}

----------------------------------------------------------------------------
(* Requests.                                                               *)

Request ==
  [originAllowed : BOOLEAN, hostAllowed : BOOLEAN, tooLarge : BOOLEAN,
   role : {"none", "reader", "writer", "admin"}, workspace : Workspaces \cup {"unknown"}]

\* What handleMcp looks at before a session, in its order; 200: goes on.
Status(req) ==
  CASE ~req.originAllowed            -> 403
    [] req.originAllowed /\ ~req.hostAllowed -> 400
    [] req.originAllowed /\ req.hostAllowed /\ req.tooLarge -> 413
    [] OTHER ->
         IF req.role = "none" THEN 401
         ELSE IF req.workspace \notin Workspaces THEN 404
         ELSE 200

Accepted == {req \in Request : Status(req) = 200}

\* A request without a session: a transport and a server are made, on the
\* workspace's connection of this moment, up to `await server.connect`.
OpenTransport(c, req) ==
  /\ listening
  /\ c \notin sessions /\ conn[c] = Closed
  /\ Get(req.workspace)
  /\ conn' = [conn EXCEPT ![c] = Connecting(req.workspace, opened'[req.workspace])]
  /\ UNCHANGED <<stoppers, listening, sessions, closing>>

\* transport.handleRequest has read an initialize request, and calls
\* onsessioninitialized.  The port may have been closed meanwhile.
SessionInitialized(c) ==
  /\ c \in ConnectingConns
  /\ conn' = [conn EXCEPT ![c].at = "open"]
  /\ sessions' = sessions \cup {c}
  /\ UNCHANGED <<stoppers, listening, registry, closing>>

\* It was something else: transport and server are garbage.
NotInitialize(c) ==
  /\ c \in ConnectingConns
  /\ conn' = [conn EXCEPT ![c] = Closed]
  /\ UNCHANGED <<stoppers, listening, registry, sessions, closing>>

\* DELETE with a session's id: onsessionclosed, then the transport closes.
\* Nothing else removes a session while the server serves.
DeleteSession(c) ==
  /\ listening
  /\ c \in sessions
  /\ sessions' = sessions \ {c}
  /\ conn' = [conn EXCEPT ![c] = Closed]
  /\ seen' = [g \in Signals |-> seen[g] \ {c}]
  /\ UNCHANGED <<stoppers, listening, registry, shutdown, exited, pending>>

\* /readyz and /metrics get the default workspace as well.
Probe ==
  /\ listening
  /\ Get(DefaultWorkspace)
  /\ UNCHANGED <<stoppers, listening, transports, closing>>

----------------------------------------------------------------------------
(* Serving and shutting down.                                              *)

\* runServe: --stdio and --http as parseCli returns them, which is never
\* undefined, and whether standard input is a pipe.
Flags == [stdio : BOOLEAN, http : BOOLEAN, piped : BOOLEAN]

RunsStdio(f) == f.stdio \/ (f.piped /\ ~f.http)

RunsHttp(f) == f.http \/ (~RunsStdio(f) /\ f.http # FALSE /\ ~f.piped)

StoppersStdioFirst(f) ==
  (IF RunsStdio(f) THEN <<"stdio">> ELSE <<>>) \o (IF RunsHttp(f) THEN <<"http">> ELSE <<>>)

StoppersOf(f) ==
  (IF RunsHttp(f) THEN <<"http">> ELSE <<>>) \o (IF RunsStdio(f) THEN <<"stdio">> ELSE <<>>)

\* What a shutdown does after its i-th stopper.
At(i) == IF i <= Len(stoppers) THEN stoppers[i] ELSE "exit"

After(stopper) ==
  At(1 + (CHOOSE i \in DOMAIN stoppers : stoppers[i] = stopper))

SignalArrives(g) ==
  /\ shutdown[g] = "none"
  /\ ~exited
  /\ shutdown' = [shutdown EXCEPT ![g] = At(1)]
  /\ UNCHANGED <<stoppers, listening, registry, transports, seen, exited, pending>>

UnseenUntilEmpty(g) == sessions

UnseenUntilOneClosed(g) == IF seen[g] = {} THEN sessions ELSE {}

\* A Map's iterator also comes to the entries that are added meanwhile.
Unseen(g) == sessions \ seen[g]

\* One round of the loop in close().
CloseSession(g, c) ==
  /\ shutdown[g] = "http"
  /\ c \in Unseen(g)
  /\ conn' = [conn EXCEPT ![c] = Closed]
  /\ seen' = [seen EXCEPT ![g] = @ \cup {c}]
  /\ UNCHANGED <<stoppers, listening, registry, sessions, shutdown, exited, pending>>

PortClosed ==
  /\ listening' = FALSE
  /\ pending' = IF listening THEN ConnectingConns ELSE pending

\* The loop is over: sessions.clear() and bun.stop(true), without an await
\* between them.
CloseHttp(g) ==
  /\ shutdown[g] = "http"
  /\ Unseen(g) = {}
  /\ sessions' = {}
  /\ PortClosed
  /\ shutdown' = [shutdown EXCEPT ![g] = After("http")]
  /\ UNCHANGED <<stoppers, registry, conn, seen, exited>>

\* The stdio server has been closed, and its stopper closes the databases.
CloseStdio(g) ==
  /\ shutdown[g] = "stdio"
  /\ CloseAll
  /\ shutdown' = [shutdown EXCEPT ![g] = After("stdio")]
  /\ UNCHANGED <<stoppers, listening, transports, seen, exited, pending>>

Exit(g) ==
  /\ shutdown[g] = "exit"
  /\ CloseAll
  /\ exited' = TRUE
  /\ UNCHANGED <<stoppers, listening, transports, shutdown, seen, pending>>

----------------------------------------------------------------------------
(* The specification.                                                      *)

\* Start-up has opened every workspace that can be opened, to prune its log.
Init ==
  /\ \E f \in Flags : stoppers = StoppersOf(f) /\ listening = RunsHttp(f)
  /\ opened \in [Workspaces -> {0, 1}]
  /\ openings = 1
  /\ sessions = {}
  /\ conn = [c \in Conns |-> Closed]
  /\ shutdown = [g \in Signals |-> "none"]
  /\ seen = [g \in Signals |-> {}]
  /\ exited = FALSE
  /\ pending = {}

Serving ==
  \/ \E c \in Conns :
       \/ \E req \in Accepted : OpenTransport(c, req)
       \/ SessionInitialized(c)
       \/ NotInitialize(c)
       \/ DeleteSession(c)
  \/ Probe

Stopping(g) == (\E c \in Conns : CloseSession(g, c)) \/ CloseHttp(g) \/ CloseStdio(g) \/ Exit(g)

Next ==
  /\ ~exited
  /\ Serving \/ \E g \in Signals : SignalArrives(g) \/ Stopping(g)

\* Continuations that are due are run: what close() and stop() wait for is
\* this process's own work.
Fairness == \A g \in Signals : WF_vars(~exited /\ Stopping(g))

Spec == Init /\ [][Next]_vars /\ Fairness

----------------------------------------------------------------------------
(* Properties.                                                             *)

StdioStopped ==
  \E g \in Signals : shutdown[g] = "exit" /\ \E i \in DOMAIN stoppers : stoppers[i] = "stdio"

\* Nobody talks to a database that has been closed: as long as requests are
\* accepted, every session and every request at an await holds the connection
\* that the registry has open for its workspace.  Once a shutdown has closed
\* the databases, no request and no probe opens one again.
DatabasesInUse ==
  /\ listening =>
       \A c \in OpenConns \cup ConnectingConns : opened[conn[c].workspace] = conn[c].db
  /\ StdioStopped \/ exited => \A w \in Workspaces : opened[w] = 0

\* A shutdown leaves nobody connected: an open transport is always in the
\* map, where the next shutdown's loop finds it, and once the port is closed
\* only those are open whose initialize request was on its way by then,
\* however many sessions were opened while the loop was going on.
NothingLeftOpen ==
  /\ OpenConns \subseteq sessions
  /\ ~listening => OpenConns \subseteq pending

Initialized == \E c \in Conns : SessionInitialized(c)

\* A signal ends the process, unless clients go on opening sessions as fast
\* as the loop closes them.
ShutdownEnds ==
  <>[][~Initialized]_vars => \A g \in Signals : (shutdown[g] # "none") ~> exited

=============================================================================
