---------------------------- MODULE ReviewerRun ----------------------------
(***************************************************************************)
(* gadget.run-reviewer: the handler in packages/server/src/mcp/tools.ts    *)
(* and executeReviewerRun in packages/core/src/services/reviewer-runner.ts *)
(* against everything that moves while it awaits: the runner's row, the    *)
(* caller's abort signal, the timer, and the subprocess, which may fork,   *)
(* close its pipes, or exit by itself.                                     *)
(*                                                                         *)
(* One runner id and one call at a time; calls share nothing but the row.  *)
(* The operating system's side (processes, pipes) is modelled as POSIX     *)
(* has it: a pipe is at its end when no process holds its write end.       *)
(*                                                                         *)
(* Definitions named for their successor (SpawnUntimed before Spawn) are   *)
(* variants with a slip in them that no action uses.                       *)
(***************************************************************************)
CONSTANTS
  Commands,   \* "ok", "empty" or "notOnPath", as Bun.which finds it
  ExitCodes,  \* what a subprocess may exit with by itself
  Killed,     \* the code proc.exited has after SIGKILL: 137
  Terminated, \* ... after SIGTERM: 143
  Success,    \* 0
  NoRunner,
  NoCode

Runner == [enabled : BOOLEAN, command : Commands]

ASSUME CodesAssumption ==
  /\ Success # Killed /\ Success # Terminated /\ Killed # Terminated
  /\ NoCode \notin ExitCodes \cup {Killed}

ASSUME RunnerAssumption == NoRunner \notin Runner

VARIABLES
  row,       \* the runner's row in reviewer_runners, or NoRunner
  pc,        \* where the handler is
  held,      \* the row the handler read
  aborted,   \* signal.aborted
  listener,  \* the abort listener is registered
  timer,     \* the timeout is armed
  child,     \* "none", "running" or "dead"
  code,      \* the subprocess's exit code
  pipes,     \* pipe -> the processes that hold its write end
  status,    \* what the call answered
  killer     \* history: who killed the subprocess, if anyone did

vars ==
  <<row, pc, held, aborted, listener, timer, child, code, pipes, status, killer>>
process == <<child, code, pipes, killer>>

Pipes == {"stdout", "stderr"}

Holders == {"child", "descendant"}

Unheld == [d \in Pipes |-> {}]

Running == pc \in {"preparing", "stdout", "stderr", "exit"}

----------------------------------------------------------------------------
(* The subprocess.                                                         *)

\* The subprocess is gone, but not what it forked.
Dies(c, who) ==
  /\ child' = "dead"
  /\ code' = c
  /\ pipes' = [d \in Pipes |-> pipes[d] \ {"child"}]
  /\ killer' = who

\* proc.kill("SIGKILL"), which does nothing to a process that has exited.
Kill(who) ==
  IF child = "running" THEN Dies(Killed, who) ELSE UNCHANGED process

Exit ==
  /\ child = "running"
  /\ \E c \in ExitCodes : Dies(c, "nobody")
  /\ UNCHANGED <<row, pc, held, aborted, listener, timer, status>>

\* A descendant inherits the pipes the subprocess has open.
Fork ==
  /\ child = "running"
  /\ pipes' = [d \in Pipes |->
                 IF "child" \in pipes[d] THEN Holders ELSE pipes[d]]
  /\ UNCHANGED <<row, pc, held, aborted, listener, timer, child, code, status, killer>>

\* Somebody closes one pipe or both, a descendant also by exiting.
Close(who) ==
  /\ \E ds \in SUBSET Pipes \ {{}} :
       /\ \A d \in ds : who \in pipes[d]
       /\ pipes' = [d \in Pipes |-> IF d \in ds THEN pipes[d] \ {who} ELSE pipes[d]]
  /\ UNCHANGED <<row, pc, held, aborted, listener, timer, child, code, status, killer>>

----------------------------------------------------------------------------
(* The handler.                                                            *)

VerdictDisabledApart(r) ==
  IF r = NoRunner THEN "runnerMissing"
  ELSE IF ~r.enabled THEN "disabled"
  ELSE IF r.command = "empty" THEN "failed"
  ELSE IF r.command = "notOnPath" THEN "missing"
  ELSE "spawn"

\* What the checks before the first await answer, "spawn" when they pass.
Verdict(r) ==
  IF r = NoRunner THEN "runnerMissing"
  ELSE IF ~r.enabled THEN "missing"
  ELSE IF r.command = "empty" THEN "failed"
  ELSE IF r.command = "notOnPath" THEN "missing"
  ELSE "spawn"

Call ==
  /\ pc = "idle"
  /\ held' = row
  /\ \/ Verdict(row) = "spawn" /\ pc' = "preparing" /\ UNCHANGED status
     \/ Verdict(row) # "spawn" /\ pc' = "answered" /\ status' = Verdict(row)
  /\ UNCHANGED <<row, aborted, listener, timer, process>>

SpawnUntimed ==
  /\ pc = "preparing"
  /\ pc' = "stdout"
  /\ child' = "running"
  /\ pipes' = [d \in Pipes |-> {"child"}]
  /\ listener' = ~aborted
  /\ UNCHANGED <<row, held, aborted, timer, code, status, killer>>

\* After the awaits that write the prompt file: spawn, arm the timer, listen
\* for the abort, all before the next await.  An abort during those awaits
\* has been and gone: the listener is never called.
Spawn ==
  /\ pc = "preparing"
  /\ pc' = "stdout"
  /\ child' = "running"
  /\ pipes' = [d \in Pipes |-> {"child"}]
  /\ timer' = TRUE
  /\ listener' = ~aborted
  /\ UNCHANGED <<row, held, aborted, code, status, killer>>

\* The prompt file cannot be written, or Bun.spawn throws.
SpawnFails ==
  /\ pc = "preparing"
  /\ pc' = "answered"
  /\ status' = "error"
  /\ UNCHANGED <<row, held, aborted, listener, timer, process>>

\* Bun.spawn has returned, but writing the prompt to the subprocess's stdin or
\* closing it throws: the call ends before it arms or listens to anything, and
\* the subprocess stays.
PromptFails ==
  /\ pc = "preparing"
  /\ pc' = "answered"
  /\ status' = "error"
  /\ child' = "running"
  /\ pipes' = [d \in Pipes |-> {"child"}]
  /\ UNCHANGED <<row, held, aborted, listener, timer, code, killer>>

TimerFires ==
  /\ timer
  /\ timer' = FALSE
  /\ Kill("timer")
  /\ UNCHANGED <<row, pc, held, aborted, listener, status>>

Abort ==
  /\ Running
  /\ ~aborted
  /\ aborted' = TRUE
  /\ listener' = FALSE
  /\ IF listener THEN Kill("abort") ELSE UNCHANGED process
  /\ UNCHANGED <<row, pc, held, timer, status>>

\* await new Response(proc.stdout).text()
StdoutEnds ==
  /\ pc = "stdout"
  /\ pipes["stdout"] = {}
  /\ pc' = "stderr"
  /\ UNCHANGED <<row, held, aborted, listener, timer, status, process>>

StderrEndsKeepingTimer ==
  /\ pc = "stderr"
  /\ pipes["stderr"] = {}
  /\ pc' = "exit"
  /\ listener' = FALSE
  /\ UNCHANGED <<row, held, aborted, timer, status, process>>

\* ... then stderr, and the finally block: no timer and no listener any more.
StderrEnds ==
  /\ pc = "stderr"
  /\ pipes["stderr"] = {}
  /\ pc' = "exit"
  /\ timer' = FALSE
  /\ listener' = FALSE
  /\ UNCHANGED <<row, held, aborted, status, process>>

\* A read of either pipe rejects: the finally block runs, and the call throws
\* without awaiting proc.exited or killing the subprocess.
ReadFails ==
  /\ pc \in {"stdout", "stderr"}
  /\ pc' = "answered"
  /\ status' = "error"
  /\ timer' = FALSE
  /\ listener' = FALSE
  /\ UNCHANGED <<row, held, aborted, process>>

StatusOfExitCode(isAborted, c) ==
  IF c \in {Killed, Terminated} THEN "timeout"
  ELSE IF c # Success THEN "failed"
  ELSE "completed"

StatusOf(isAborted, c) ==
  IF isAborted THEN "failed"
  ELSE IF c \in {Killed, Terminated} THEN "timeout"
  ELSE IF c # Success THEN "failed"
  ELSE "completed"

\* await proc.exited
Finish ==
  /\ pc = "exit"
  /\ child = "dead"
  /\ pc' = "answered"
  /\ status' = StatusOf(aborted, code)
  /\ UNCHANGED <<row, held, aborted, listener, timer, process>>

\* The next call starts with a signal, a timer and a subprocess of its own.  A
\* subprocess that an error left behind is out of the server's sight from here.
Forget ==
  /\ pc = "answered"
  /\ pc' = "idle"
  /\ held' = NoRunner
  /\ aborted' = FALSE
  /\ child' = "none"
  /\ code' = NoCode
  /\ pipes' = Unheld
  /\ status' = "none"
  /\ killer' = "nobody"
  /\ UNCHANGED <<row, listener, timer>>

----------------------------------------------------------------------------
(* Other calls: upsert-runner and delete-runner.                           *)

Upsert ==
  /\ row' \in Runner
  /\ UNCHANGED <<pc, held, aborted, listener, timer, process, status>>

DeleteRunner ==
  /\ row' = NoRunner
  /\ UNCHANGED <<pc, held, aborted, listener, timer, process, status>>

----------------------------------------------------------------------------
(* The specification.                                                      *)

Init ==
  /\ row = NoRunner
  /\ pc = "idle"
  /\ held = NoRunner
  /\ aborted = FALSE
  /\ listener = FALSE
  /\ timer = FALSE
  /\ child = "none"
  /\ code = NoCode
  /\ pipes = Unheld
  /\ status = "none"
  /\ killer = "nobody"

Handler == Spawn \/ SpawnFails \/ PromptFails \/ StdoutEnds \/ StderrEnds \/ Finish

Next ==
  \/ Call \/ Handler \/ ReadFails \/ TimerFires \/ Forget
  \/ Exit \/ Fork \/ \E who \in Holders : Close(who)
  \/ Abort \/ Upsert \/ DeleteRunner

\* The event loop runs what is ready and time passes.  Nothing is assumed of
\* the subprocess, which may run for ever, nor of the caller, and no call is
\* assumed to end by an error.
Spec == Init /\ [][Next]_vars /\ WF_vars(Handler) /\ WF_vars(TimerFires)

----------------------------------------------------------------------------
(* Properties.                                                             *)

TypeOK ==
  /\ row \in Runner \cup {NoRunner}
  /\ pc \in {"idle", "preparing", "stdout", "stderr", "exit", "answered"}
  /\ held \in Runner \cup {NoRunner}
  /\ {aborted, listener, timer} \subseteq BOOLEAN
  /\ child \in {"none", "running", "dead"}
  /\ code \in ExitCodes \cup {Killed, NoCode}
  /\ child = "dead" <=> code # NoCode
  /\ pipes \in [Pipes -> SUBSET Holders]
  /\ status \in {"none", "completed", "failed", "timeout", "missing", "runnerMissing", "error"}
  /\ killer \in {"nobody", "timer", "abort"}

\* Once a call has answered, whatever way it took, neither its timer nor its
\* listener can fire any more: they would keep the server alive, or kill a
\* process that is not theirs.  A call that answered with a result has no
\* running subprocess either.  One that threw may have: after the spawn, a
\* prompt that cannot be piped and a read that rejects end the call with
\* nobody left to kill the subprocess.
NothingLeftBehind ==
  pc \in {"idle", "answered"} =>
    /\ ~timer /\ ~listener
    /\ child = "running" => status = "error"

\* The status of a result tells what ended the run, in every race between the
\* timer, the abort and the subprocess's own exit: an abort is a failure, an
\* expired timer a timeout, and only a run that neither hit and that exited
\* with 0 is completed.  (A subprocess that exits by itself with 137 or 143 is
\* reported as a timeout too.)
StatusTellsWhy ==
  pc = "answered" /\ child = "dead" /\ status # "error" =>
    /\ aborted => status = "failed"
    /\ killer = "timer" /\ ~aborted => status = "timeout"
    /\ status = "completed" <=> code = Success /\ killer = "nobody" /\ ~aborted

\* A descendant has a pipe, or the subprocess has closed both and stays.
Detached ==
  \/ \E d \in Pipes : "descendant" \in pipes[d]
  \/ child = "running" /\ pc = "exit"

\* A call always ends, and if only because the timer kills the subprocess,
\* unless the subprocess leaves its pipes to a descendant or lets go of them
\* while it runs on.
CallsEnd == Running ~> ~Running \/ Detached

\* run-reviewer's description: it "enforces a wall-clock timeout".  A call
\* ends whatever the subprocess does.
TimeoutEnforced == Running ~> ~Running

=============================================================================
