----------------------------- MODULE ToolCalls -----------------------------
(***************************************************************************)
(* The tools of packages/server/src/mcp/tools.ts in one process and one    *)
(* workspace: the role that a session has, the handlers over GadgetRepo    *)
(* and the runner table, and what wrapHandler does around each of them.    *)
(*                                                                         *)
(* A call is two steps at least.  The handler commits in one; metrics,     *)
(* audit row and notifications follow in the `finally` after an await, so  *)
(* other sessions' calls, or the end of the process, come in between.      *)
(* Import, list-client-roots, project-kickoff and run-reviewer wait inside *)
(* their handlers too (what happens there: Import, Kickoff, ReviewerRun).  *)
(* Calls whose input the SDK rejects never reach a handler.                *)
(*                                                                         *)
(* The variants with a slip in them that stand before the definition they  *)
(* are named for are used by no action.                                    *)
(***************************************************************************)
EXTENDS GadgetStore, Integers

CONSTANTS
  Sessions,
  RoleOf,       \* the role each session was opened with
  RunnerIds,
  Misshapen,    \* bodies inspectGadgetShape objects to
  InitialStores,\* the tables a process may find
  CallBound     \* bounds the model: calls made altogether

Roles == {"reader", "writer", "admin"}

ASSUME SessionsAssumption ==
  /\ IsFiniteSet(Sessions)
  /\ RoleOf \in [Sessions -> Roles]
  /\ Misshapen \subseteq Bodies
  /\ CallBound \in Nat

VARIABLES
  runners,  \* table reviewer_runners: id -> "absent", "enabled" or "disabled"
  audit,    \* table audit_log: a bag of rows
  counter,  \* gadget_tool_calls_total: a bag of labels
  calls,    \* session -> what its call is doing
  started,  \* calls made so far
  \* History, of this process's life:
  found,    \* the audit log as the process found it
  lost,     \* audit rows whose insert failed
  changes,  \* a bag of the rows that changes of library or runners owe the log
  untold    \* tools whose change was not followed by a list_changed

log == <<audit, counter, found, lost, changes, untold>>
toolVars == <<vars, runners, calls, started, log>>

----------------------------------------------------------------------------
(* Roles.                                                                  *)

ReaderTools ==
  {"list-gadgets", "get-gadget", "search-gadgets", "compose-prompt", "list-revisions",
   "list-runners", "list-client-roots", "export-gadgets", "project-kickoff"}

WriterTools ==
  {"add-gadget", "put-gadget", "rename-gadget", "rollback-gadget", "import-gadgets",
   "run-reviewer"}

AdminToolsWithoutDelete == {"upsert-runner", "delete-runner"}

AdminTools == {"upsert-runner", "delete-gadget", "delete-runner"}

Tools == ReaderTools \cup WriterTools \cup AdminTools \cup {"delete-gadget"}

RequiredRole(tool) ==
  IF tool \in AdminTools THEN "admin"
  ELSE IF tool \in ReaderTools THEN "reader"
  ELSE "writer"

RoleLevel == [reader |-> 0, writer |-> 1, admin |-> 2]

RoleAllows(actual, required) == RoleLevel[actual] >= RoleLevel[required]

\* registerTools leaves out what the session's role does not allow.
IsToolAllowed(s, tool) == RoleAllows(RoleOf[s], RequiredRole(tool))

MutationToolsWithoutRollback ==
  {"add-gadget", "put-gadget", "rename-gadget", "delete-gadget", "import-gadgets",
   "upsert-runner", "delete-runner"}

\* After one of these the session is told that the list of resources changed.
MutationTools ==
  {"add-gadget", "put-gadget", "rename-gadget", "rollback-gadget", "delete-gadget",
   "import-gadgets", "upsert-runner", "delete-runner"}

----------------------------------------------------------------------------
(* Calls.                                                                  *)

\* Bags, as functions from what they hold to how often they hold it.
NoRows == [e \in {} |-> 0]

Copies(e, bag) == IF e \in DOMAIN bag THEN bag[e] ELSE 0

OneMore(bag, e) ==
  [d \in DOMAIN bag \cup {e} |-> IF d = e THEN Copies(d, bag) + 1 ELSE bag[d]]

NoCall == [pc |-> "idle"]

Waiting(tool) == [pc |-> "waiting", tool |-> tool]

\* The handler is through; wrapHandler's finally block is yet to come.
Handled(tool, code, changed) ==
  [pc |-> "handled", tool |-> tool, code |-> code, changed |-> changed]

CodeOfUnmapped(result) ==
  IF result \in {"ok", "sameName"} THEN "ok"
  ELSE IF result = "storageError" THEN "internalError"
  ELSE result

\* resultCodeOf: errors that toMcpError does not know have no code of their own.
CodeOf(result) ==
  IF result \in {"ok", "sameName"} THEN "ok"
  ELSE IF result \in {"storageError", "zodError"} THEN "internalError"
  ELSE result

Called(s, tool) ==
  /\ calls[s] = NoCall
  /\ IsToolAllowed(s, tool)
  /\ started < CallBound
  /\ started' = started + 1

Actor(s) == RoleOf[s]

RowFor(s, tool, code) == [actor |-> Actor(s), tool |-> tool, code |-> code]

Note(s, tool, code, changed) ==
  changes' = IF changed THEN OneMore(changes, RowFor(s, tool, code)) ELSE changes

HandledWith(s, tool, code, changed) ==
  /\ calls' = [calls EXCEPT ![s] = Handled(tool, code, changed)]
  /\ Note(s, tool, code, changed)
  /\ UNCHANGED <<audit, counter, found, lost, untold>>

\* A handler that ended with the outcome of its call of the repository.
Ends(s, tool) ==
  /\ HandledWith(s, tool, CodeOf(outcome'), store' # store)
  /\ UNCHANGED runners

\* A handler that writes nothing, because it only reads or because it throws
\* before it writes.
Reads(s, tool, result) ==
  /\ Called(s, tool)
  /\ Answer("ok")
  /\ HandledWith(s, tool, CodeOf(result), FALSE)
  /\ UNCHANGED runners

----------------------------------------------------------------------------
(* Tools that read.                                                        *)

ListGadgets(s) ==
  \E result \in {"ok", "malformedCursor"} : Reads(s, "list-gadgets", result)

\* MATCH throws on a query that is no FTS5 expression.
SearchGadgets(s) ==
  \E result \in {"ok", "malformedCursor", "searchCursorQueryMismatch", "storageError"} :
    Reads(s, "search-gadgets", result)

GetGadget(s, id) ==
  Reads(s, "get-gadget", IF Resolve(id) = NoRow THEN "notFound" ELSE "ok")

ListRevisions(s) == Reads(s, "list-revisions", "ok")

\* Unknown ids are an error, unless the canonical order is asked for: then
\* they are not among the ids that are composed.
ComposePrompt(s, ids, canonical) ==
  Reads(s, "compose-prompt",
        IF canonical \/ \A id \in ids : Resolve(id) # NoRow
        THEN "ok" ELSE "composeMissingIds")

\* An export that finds its signal aborted throws before its first page.
ExportGadgets(s) ==
  \E result \in {"ok", "storageError"} : Reads(s, "export-gadgets", result)

ListRunners(s) == Reads(s, "list-runners", "ok")

----------------------------------------------------------------------------
(* Tools that write the library.                                           *)

\* What the tool rejects before it calls the repository: GadgetInputSchema,
\* which knows GADGET_ID_PATTERN, and assertGadgetShape.
InputVerdict(id, b) ==
  IF id \notin ValidNames THEN "zodError"
  ELSE IF b \in Misshapen THEN "invalidGadget"
  ELSE "ok"

AddGadget(s, id, b) ==
  \/ /\ InputVerdict(id, b) = "ok"
     /\ Called(s, "add-gadget")
     /\ Add(id, b)
     /\ Ends(s, "add-gadget")
  \/ InputVerdict(id, b) # "ok" /\ Reads(s, "add-gadget", InputVerdict(id, b))

PutGadget(s, id, b) ==
  \/ /\ InputVerdict(id, b) = "ok"
     /\ Called(s, "put-gadget")
     /\ Put(id, b)
     /\ Ends(s, "put-gadget")
  \/ InputVerdict(id, b) # "ok" /\ Reads(s, "put-gadget", InputVerdict(id, b))

\* The aliases are read after rename has committed: that read may fail.
RenameTool(s, id, newId) ==
  /\ Called(s, "rename-gadget")
  /\ Rename(id, newId)
  /\ \/ Ends(s, "rename-gadget")
     \/ /\ CodeOf(outcome') = "ok"
        /\ HandledWith(s, "rename-gadget", "internalError", store' # store)
        /\ UNCHANGED runners

RollbackGadget(s, id, v) ==
  /\ Called(s, "rollback-gadget")
  /\ Rollback(id, v)
  /\ Ends(s, "rollback-gadget")

DeleteTool(s, id) ==
  /\ Called(s, "delete-gadget")
  /\ Delete(id)
  /\ Ends(s, "delete-gadget")

\* import-gadgets awaits a progress notification before it begins.
ImportGadgets(s) ==
  /\ Called(s, "import-gadgets")
  /\ calls' = [calls EXCEPT ![s] = Waiting("import-gadgets")]
  /\ UNCHANGED <<vars, runners, log>>

ImportOne(id, b, policy) ==
  \/ (Live(id) => policy = "overwrite") /\ Put(id, b)
  \/ Live(id) /\ policy # "overwrite" /\ Answer("ok")
  \/ StorageError

\* One line stands for the payload.  What goes wrong with a line is counted
\* and the call is ok; only a failing lookup of a later line makes it fail,
\* with the earlier lines imported.
ImportWrites(s) ==
  /\ calls[s] = Waiting("import-gadgets")
  /\ \E id \in ValidNames, b \in Bodies, policy \in {"skip", "overwrite", "error"} :
       ImportOne(id, b, policy)
  /\ \E code \in {"ok", "internalError"} :
       HandledWith(s, "import-gadgets", code, store' # store)
  /\ UNCHANGED <<runners, started>>

----------------------------------------------------------------------------
(* Runners, and the tools that wait for somebody else.                     *)

\* The row is written even when it says what it said before.
UpsertRunner(s, r, enabled) ==
  /\ Called(s, "upsert-runner")
  /\ runners' = [runners EXCEPT ![r] = IF enabled THEN "enabled" ELSE "disabled"]
  /\ HandledWith(s, "upsert-runner", "ok", TRUE)
  /\ UNCHANGED vars

DeleteRunner(s, r) ==
  /\ Called(s, "delete-runner")
  /\ runners' = [runners EXCEPT ![r] = "absent"]
  /\ HandledWith(s, "delete-runner", "ok", runners[r] # "absent")
  /\ UNCHANGED vars

RunReviewer(s, r) ==
  \/ runners[r] = "absent" /\ Reads(s, "run-reviewer", "runnerMissing")
  \/ /\ runners[r] # "absent"
     /\ Called(s, "run-reviewer")
     /\ calls' = [calls EXCEPT ![s] = Waiting("run-reviewer")]
     /\ UNCHANGED <<vars, runners, log>>

\* roots/list, or the elicitations of the wizard.
AskClient(s) ==
  \E tool \in {"list-client-roots", "project-kickoff"} :
    /\ Called(s, tool)
    /\ calls' = [calls EXCEPT ![s] = Waiting(tool)]
    /\ UNCHANGED <<vars, runners, log>>

\* How the wait may end.  list-client-roots takes every error for an empty
\* answer; the wizard turns every error into invalidGadget.
EndingsOf(tool) ==
  CASE tool = "list-client-roots" -> {"ok"}
    [] tool = "project-kickoff"   -> {"ok", "invalidGadget"}
    [] tool = "run-reviewer"      -> {"ok", "internalError"}
    [] tool = "import-gadgets"    -> {}

WaitEnds(s) ==
  /\ calls[s].pc = "waiting"
  /\ \E code \in EndingsOf(calls[s].tool) : HandledWith(s, calls[s].tool, code, FALSE)
  /\ UNCHANGED <<vars, runners, started>>

\* A statement of a handler fails and what it was part of rolls back.
HandlerFails(s) ==
  \E tool \in Tools \ {"import-gadgets", "list-client-roots", "project-kickoff"} :
    Reads(s, tool, "storageError")

----------------------------------------------------------------------------
(* wrapHandler's finally block.                                            *)

LogRow(s) == RowFor(s, calls[s].tool, calls[s].code)

RecordToolCallIfOk(s) ==
  counter' = IF calls[s].code = "ok"
             THEN OneMore(counter, <<calls[s].tool, "ok">>) ELSE counter

RecordToolCall(s) == counter' = OneMore(counter, <<calls[s].tool, calls[s].code>>)

\* AuditWriter.record swallows what goes wrong with its insert.
RecordAudit(s) ==
  \/ audit' = OneMore(audit, LogRow(s)) /\ UNCHANGED lost
  \/ lost' = OneMore(lost, LogRow(s)) /\ UNCHANGED audit

\* The notification of the resource list goes to the calling session only.
SendResourceListChanged(s) ==
  untold' = IF calls[s].changed /\ ~(calls[s].tool \in MutationTools /\ calls[s].code = "ok")
            THEN untold \cup {calls[s].tool} ELSE untold

\* The call has been answered: what it was answered plays no part any more.
Finish(s) ==
  /\ calls[s].pc = "handled"
  /\ RecordToolCall(s)
  /\ RecordAudit(s)
  /\ SendResourceListChanged(s)
  /\ calls' = [calls EXCEPT ![s] = NoCall]
  /\ Answer("ok")
  /\ UNCHANGED <<runners, started, found, changes>>

----------------------------------------------------------------------------
(* The specification.                                                      *)

Prunable ==
  {kept \in UNION {[rows -> 1..CallBound] : rows \in SUBSET DOMAIN audit} :
     \A r \in DOMAIN kept : kept[r] <= audit[r]}

\* The process ends, at any point, and another one starts on its database.
\* Counters and calls were the process's own.  pruneAudit deletes the rows
\* that are too old, which may be any of them.
Restart ==
  /\ \E kept \in Prunable : audit' = kept /\ found' = kept
  /\ counter' = NoRows
  /\ calls' = [s \in Sessions |-> NoCall]
  /\ lost' = NoRows
  /\ changes' = NoRows
  /\ untold' = {}
  /\ Answer("ok")
  /\ UNCHANGED <<runners, started>>

\* The tables are what GadgetStore's calls may have made of them.
ToolsInit ==
  /\ \E t \in InitialStores :
       gadgets = t.gadgets /\ aliases = t.aliases /\ revisions = t.revisions /\ fts = t.fts
  /\ outcome = "ok"
  /\ IInv
  /\ runners = [r \in RunnerIds |-> "enabled"]
  /\ audit = NoRows /\ counter = NoRows
  /\ calls = [s \in Sessions |-> NoCall]
  /\ started = 0
  /\ found = NoRows /\ lost = NoRows /\ changes = NoRows
  /\ untold = {}

ReadTool(s) ==
  \/ ListGadgets(s) \/ SearchGadgets(s) \/ ListRevisions(s) \/ ListRunners(s)
  \/ ExportGadgets(s)
  \/ \E id \in Names : GetGadget(s, id)
  \/ \E ids \in SUBSET Names \ {{}}, canonical \in BOOLEAN : ComposePrompt(s, ids, canonical)

WriteTool(s) ==
  \/ \E id \in Names, b \in Bodies : AddGadget(s, id, b) \/ PutGadget(s, id, b)
  \/ \E id, newId \in Names : RenameTool(s, id, newId)
  \/ \E id \in Names, v \in 1..VersionBound : RollbackGadget(s, id, v)
  \/ \E id \in Names : DeleteTool(s, id)
  \/ ImportGadgets(s) \/ ImportWrites(s)

RunnerTool(s) ==
  \E r \in RunnerIds :
    \/ \E enabled \in BOOLEAN : UpsertRunner(s, r, enabled)
    \/ DeleteRunner(s, r)
    \/ RunReviewer(s, r)

ToolsNext ==
  \/ \E s \in Sessions :
       ReadTool(s) \/ WriteTool(s) \/ RunnerTool(s) \/ AskClient(s) \/ WaitEnds(s)
         \/ HandlerFails(s) \/ Finish(s)
  \/ Restart

ToolsSpec == ToolsInit /\ [][ToolsNext]_toolVars

----------------------------------------------------------------------------
(* Properties.                                                             *)

Codes ==
  {"ok", "internalError", "notFound", "alreadyExists", "aliasConflict", "tooManyAliases",
   "invalidId", "invalidGadget", "revisionMissing", "composeMissingIds", "malformedCursor",
   "searchCursorQueryMismatch", "runnerMissing"}

LogRows == [actor : Roles, tool : Tools, code : Codes]

\* The tables and the counters hold what their columns and labels say, and a
\* call is idle, waits in a tool that waits, or has a code.
ToolsTypeOK ==
  /\ runners \in [RunnerIds -> {"absent", "enabled", "disabled"}]
  /\ DOMAIN audit \cup DOMAIN found \cup DOMAIN lost \subseteq LogRows
  /\ DOMAIN counter \subseteq Tools \X Codes
  /\ \A s \in Sessions :
       \/ calls[s] = NoCall
       \/ calls[s].pc = "waiting" /\ IsToolAllowed(s, calls[s].tool)
       \/ calls[s] \in [pc : {"handled"}, tool : Tools, code : Codes, changed : BOOLEAN]

\* The calls that owe the log a row for a change they made.
InFlight(row) ==
  {s \in Sessions : calls[s].pc = "handled" /\ calls[s].changed /\ LogRow(s) = row}

\* Who changed the library or the runners, and how that call ended, can be
\* told from the log: each change of this process has its row, unless its
\* insert failed or its call is still on the way.  The session was told of
\* it, too, except by a rename or an import that failed after it had
\* committed.
ChangesLeaveTraces ==
  /\ \A row \in DOMAIN changes :
       Copies(row, changes) <=
         Copies(row, audit) - Copies(row, found) + Copies(row, lost)
           + Cardinality(InFlight(row))
  /\ untold \subseteq {"rename-gadget", "import-gadgets"}

Labels ==
  DOMAIN counter \cup {<<r.tool, r.code>> : r \in DOMAIN audit \cup DOMAIN found \cup DOMAIN lost}

CopiesOf(bag, label) ==
  LET By(role) == Copies([actor |-> role, tool |-> label[1], code |-> label[2]], bag)
  IN  By("reader") + By("writer") + By("admin")

\* Metrics and log tell the same story: the counters of a process are the
\* rows it has written to the log and those it failed to write.
CountersMatchLog ==
  \A label \in Labels :
    Copies(label, counter) =
      CopiesOf(audit, label) - CopiesOf(found, label) + CopiesOf(lost, label)

\* A step of a handler, as opposed to the rest of a call.
HandlerOf(s) == calls'[s].pc = "handled" /\ calls'[s] # calls[s]

\* What a call may do to the library is bounded by its session's role and by
\* its answer: gadgets and runners disappear through admins only (a rename is
\* no disappearance), a reader changes nothing, and neither does a call that
\* answers one of the documented errors.
EffectsAreWarranted ==
  [][/\ store' # store \/ runners' # runners =>
          \E s \in Sessions :
            HandlerOf(s) /\ RoleOf[s] # "reader" /\ calls'[s].code \in {"ok", "internalError"}
     /\ ~(LiveRowIds \subseteq LiveRowIds') =>
          \E s \in Sessions : HandlerOf(s) /\ RoleOf[s] = "admin"
     /\ runners' # runners => \E s \in Sessions : HandlerOf(s) /\ RoleOf[s] = "admin"]_toolVars

=============================================================================
