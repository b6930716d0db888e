------------------------- MODULE ReviewerRunProofs -------------------------
(***************************************************************************)
(* Theorems about ReviewerRun, for any exit codes: a call that answered    *)
(* leaves nothing armed, and no running subprocess unless it threw; and    *)
(* its status tells what ended the run.                                    *)
(*                                                                         *)
(* What has to be added to the two invariants is what is armed while the   *)
(* handler is at each await (Armed), and what a subprocess that was killed *)
(* looks like (KilledBy).                                                  *)
(***************************************************************************)
EXTENDS ReviewerRun, TLAPS

\* Before the subprocess is spawned nothing is armed and nothing has
\* happened; once its output is read neither timer nor listener is left.
Armed ==
  /\ pc \in {"idle", "preparing"} =>
       child = "none" /\ ~timer /\ ~listener /\ killer = "nobody"
  /\ pc \in {"stdout", "stderr"} => child # "none"
  /\ pc = "exit" => child # "none" /\ ~timer /\ ~listener
  /\ pc = "answered" => (child = "running" => status = "error") /\ ~timer /\ ~listener
  /\ pc = "idle" => ~aborted

\* Only a subprocess that runs is killed, and the abort only kills after the
\* signal has fired.
KilledBy ==
  /\ killer # "nobody" => child = "dead" /\ code = Killed
  /\ killer = "abort" => aborted

Answered ==
  pc = "answered" /\ child = "dead" /\ status # "error" => status = StatusOf(aborted, code)

IInv == TypeOK /\ Armed /\ KilledBy /\ Answered

\* What Kill does: nothing to a subprocess that does not run.
LEMMA KillEffect ==
  ASSUME NEW who, Kill(who)
  PROVE  \/ /\ child = "running"
            /\ child' = "dead" /\ code' = Killed /\ killer' = who
            /\ pipes' = [d \in Pipes |-> pipes[d] \ {"child"}]
         \/ child # "running" /\ UNCHANGED process
  BY DEF Kill, Dies

\* Removing a process from some pipes leaves pipes.
LEMMA FewerHolders ==
  ASSUME pipes \in [Pipes -> SUBSET Holders], NEW who, NEW ds
  PROVE  /\ [d \in Pipes |-> pipes[d] \ {who}] \in [Pipes -> SUBSET Holders]
         /\ [d \in Pipes |-> IF d \in ds THEN pipes[d] \ {who} ELSE pipes[d]]
              \in [Pipes -> SUBSET Holders]
  OBVIOUS

\* A kill keeps the types of what it changes.
LEMMA KillTypes ==
  ASSUME TypeOK, NEW who \in {"timer", "abort"}, Kill(who)
  PROVE  /\ child' \in {"none", "running", "dead"}
         /\ code' \in ExitCodes \cup {Killed, NoCode}
         /\ child' = "dead" <=> code' # NoCode
         /\ pipes' \in [Pipes -> SUBSET Holders]
         /\ killer' \in {"nobody", "timer", "abort"}
<1>1. CASE child = "running"
  <2>1. child' = "dead" /\ code' = Killed /\ killer' = who
    BY <1>1, KillEffect
  <2>2. pipes' = [d \in Pipes |-> pipes[d] \ {"child"}]
    BY <1>1, KillEffect
  <2>3. pipes' \in [Pipes -> SUBSET Holders]
    BY <2>2, FewerHolders DEF TypeOK
  <2> QED
    BY <2>1, <2>3, CodesAssumption
<1>2. CASE child # "running"
  BY <1>2, KillEffect DEF process, TypeOK
<1> QED
  BY <1>1, <1>2

\* The first state.
LEMMA InitIInv == Init => IInv
  BY CodesAssumption DEF Init, IInv, TypeOK, Armed, KilledBy, Answered, Unheld

\* Every step keeps the types.
LEMMA StepTypes == IInv /\ [Next]_vars => TypeOK'
<1> SUFFICES ASSUME IInv, [Next]_vars
             PROVE  TypeOK'
  OBVIOUS
<1> USE DEF IInv, TypeOK, process
<1>1. CASE Call
  BY <1>1 DEF Call, Verdict
<1>2. CASE Handler
  <2>1. CASE Spawn
    BY <2>1 DEF Spawn, Pipes, Holders, Armed
  <2>2. CASE SpawnFails \/ PromptFails
    BY <2>2 DEF SpawnFails, PromptFails, Pipes, Holders, Armed
  <2>3. CASE StdoutEnds \/ StderrEnds
    BY <2>3 DEF StdoutEnds, StderrEnds
  <2>4. CASE Finish
    BY <2>4 DEF Finish, StatusOf
  <2> QED
    BY <1>2, <2>1, <2>2, <2>3, <2>4 DEF Handler
<1>3. CASE TimerFires
  BY <1>3, KillTypes DEF TimerFires
<1>4. CASE Abort
  BY <1>4, KillTypes DEF Abort
<1>5. CASE Forget
  BY <1>5 DEF Forget, Unheld
<1>6. CASE Exit
  BY <1>6, FewerHolders, CodesAssumption DEF Exit, Dies
<1>7. CASE Fork
  BY <1>7 DEF Fork
<1>8. ASSUME NEW who \in Holders, Close(who)
      PROVE  TypeOK'
  BY <1>8, FewerHolders DEF Close
<1>9. CASE Upsert \/ DeleteRunner
  BY <1>9 DEF Upsert, DeleteRunner
<1>10. CASE ReadFails
  BY <1>10 DEF ReadFails
<1>11. CASE UNCHANGED vars
  BY <1>11 DEF vars
<1> QED
  BY <1>1, <1>2, <1>3, <1>4, <1>5, <1>6, <1>7, <1>8, <1>9, <1>10, <1>11 DEF Next

\* Every step keeps the rest.
LEMMA StepIInv == IInv /\ [Next]_vars => IInv'
<1> SUFFICES ASSUME IInv, [Next]_vars
             PROVE  Armed' /\ KilledBy' /\ Answered'
  BY StepTypes DEF IInv
<1> USE DEF IInv, TypeOK, Armed, KilledBy, Answered, process
<1>1. CASE Call
  BY <1>1 DEF Call
<1>2. CASE Handler
  <2>1. CASE Spawn
    BY <2>1 DEF Spawn
  <2>2. CASE SpawnFails \/ PromptFails
    BY <2>2 DEF SpawnFails, PromptFails
  <2>3. CASE StdoutEnds
    BY <2>3 DEF StdoutEnds
  <2>4. CASE StderrEnds
    BY <2>4 DEF StderrEnds
  <2>5. CASE Finish
    BY <2>5 DEF Finish
  <2> QED
    BY <1>2, <2>1, <2>2, <2>3, <2>4, <2>5 DEF Handler
<1>3. CASE TimerFires
  BY <1>3, KillEffect DEF TimerFires
<1>4. CASE Abort
  BY <1>4, KillEffect DEF Abort, Running
<1>5. CASE Forget
  BY <1>5 DEF Forget
<1>6. CASE Exit
  BY <1>6 DEF Exit, Dies
<1>7. CASE Fork
  BY <1>7 DEF Fork
<1>8. ASSUME NEW who \in Holders, Close(who)
      PROVE  Armed' /\ KilledBy' /\ Answered'
  BY <1>8 DEF Close
<1>9. CASE Upsert \/ DeleteRunner
  BY <1>9 DEF Upsert, DeleteRunner
<1>10. CASE ReadFails
  BY <1>10 DEF ReadFails
<1>11. CASE UNCHANGED vars
  BY <1>11 DEF vars
<1> QED
  BY <1>1, <1>2, <1>3, <1>4, <1>5, <1>6, <1>7, <1>8, <1>9, <1>10, <1>11 DEF Next

\* The inductive invariant holds in every state.
THEOREM ReviewerInvariant == Spec => []IInv
  BY InitIInv, StepIInv, PTL DEF Spec

\* Runner row, subprocess, pipes and the handler's own state keep their types:
\* in particular a subprocess has an exit code exactly when it is dead.
THEOREM ReviewerTypes == Spec => []TypeOK
<1>1. IInv => TypeOK
  BY DEF IInv
<1> QED
  BY <1>1, ReviewerInvariant, PTL

\* Once a call has answered, neither its timer nor its listener can fire any
\* more, and its subprocess is not running unless the call threw.
THEOREM NothingStaysBehind == Spec => []NothingLeftBehind
<1>1. IInv => NothingLeftBehind
  BY DEF IInv, Armed, NothingLeftBehind
<1> QED
  BY <1>1, ReviewerInvariant, PTL

\* In every race between timer, abort and exit the status tells what ended
\* the run.
THEOREM StatusAlwaysTellsWhy == Spec => []StatusTellsWhy
<1>1. IInv => StatusTellsWhy
  BY CodesAssumption DEF IInv, TypeOK, KilledBy, Answered, StatusTellsWhy, StatusOf
<1> QED
  BY <1>1, ReviewerInvariant, PTL

=============================================================================
