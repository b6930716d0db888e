------------------------------ MODULE Kickoff ------------------------------
(***************************************************************************)
(* One call of gadget.project-kickoff: runKickoff with selectChain and     *)
(* assemblePrompt (packages/server/src/mcp/kickoff.ts), the heartbeat and  *)
(* the error handling around it (mcp/tools.ts), beside clients that edit   *)
(* the library meanwhile.                                                  *)
(*                                                                         *)
(* The wizard asks four questions, composes a prompt, shows it and does    *)
(* what the user picks.  While it waits, this process runs other calls;    *)
(* while it composes, only other processes on the same file can write, but *)
(* they can between any two of its queries, since it opens no transaction. *)
(* A caller that aborts or goes away changes nothing: the wizard does not  *)
(* look at the signal of its call and asks on.                             *)
(***************************************************************************)
EXTENDS Naturals, SequencesExt

CONSTANTS
  Ids,
  Contents,
  Categories,   \* COMPOSE_ORDER, as a sequence
  PageLimit,    \* rows of a category that selectChain looks at (200)
  MaxFit,       \* bounds the model: the scores that differ
  WriteBound,   \* bounds the model: writes of other clients
  Libraries     \* libraries a call may find

ASSUME CategoriesAssumption ==
  /\ Categories \in Seq(STRING) /\ IsInjective(Categories)
  /\ \E i \in DOMAIN Categories : Categories[i] = "constraint"
  /\ PageLimit \in Nat \ {0} /\ MaxFit \in Nat

VARIABLES
  library,    \* the gadgets, newest first, with their scores
  at,         \* where the call is
  enterprise, \* the quality bar that was answered
  position,   \* the category, or item of the chain, that is next
  chain,
  prompt,     \* the gadgets' contents in it; what is always in it is left out
  heartbeat,  \* the interval timer runs
  answer,
  writes,     \* writes so far
  \* History:
  shown,      \* what the preview showed
  pick,       \* what the user picked
  disturbed   \* another process wrote while the prompt was composed

wizard == <<at, enterprise, position, chain, prompt>>
call == <<heartbeat, answer>>
vars == <<library, wizard, call, writes, shown, pick, disturbed>>

Gadget == [id : Ids, category : ToSet(Categories), fit : 0..MaxFit, content : Contents]

\* An id is the key of its row.
DistinctIds(rows) == \A i, j \in DOMAIN rows : rows[i].id = rows[j].id => i = j

ASSUME LibrariesAssumption == \A rows \in Libraries : rows \in Seq(Gadget) /\ DistinctIds(rows)

None == [is |-> "none"]

----------------------------------------------------------------------------
(* Selecting and assembling.                                               *)

Stored(id) == \E i \in DOMAIN library : library[i].id = id

Row(id) == CHOOSE i \in DOMAIN library : library[i].id = id

\* The rows of S, the highest score first; those of one score stay in their
\* order, as they do in a stable sort.
Ranked(S, score) ==
  [k \in 1..Cardinality(S) |-> CHOOSE i \in S :
     k = Cardinality({j \in S : score[j] > score[i] \/ (score[j] = score[i] /\ j <= i)})]

\* repo.list({ category, limit: 200 }): rows that fewer than 200 come before.
Page(category) ==
  LET rows == {i \in DOMAIN library : library[i].category = category}
  IN  {i \in rows : Cardinality({j \in rows : j < i}) < PageLimit}

\* fit is what scoreGadget answers, 0 for what is filtered out.
Scored(category) ==
  LET fits == {i \in Page(category) : library[i].fit > 0}
  IN  Ranked(fits, [i \in fits |-> library[i].fit])

PicksOfPrototype(category) ==
  LET scored == Scored(category)
  IN  SubSeq(scored, 1, IF scored = <<>> THEN 0 ELSE 1)

Picks(category) ==
  LET scored == Scored(category)
  IN  IF category = "constraint" /\ enterprise THEN scored
      ELSE SubSeq(scored, 1, IF scored = <<>> THEN 0 ELSE 1)

\* One round of selectChain.
SelectCategory ==
  /\ at = "select"
  /\ position <= Len(Categories)
  /\ LET picks == Picks(Categories[position])
     IN  chain' = chain \o [k \in DOMAIN picks |->
                              [id |-> library[picks[k]].id, category |-> library[picks[k]].category]]
  /\ position' = position + 1
  /\ UNCHANGED <<library, at, enterprise, prompt, call, writes, shown, pick, disturbed>>

ChainSelected ==
  /\ at = "select"
  /\ position > Len(Categories)
  /\ at' = "assemble" /\ position' = 1
  /\ UNCHANGED <<library, enterprise, chain, prompt, call, writes, shown, pick, disturbed>>

\* One round of assemblePrompt: what cannot be resolved any more is skipped.
AssembleItem ==
  /\ at = "assemble"
  /\ position <= Len(chain)
  /\ LET id == chain[position].id
     IN  prompt' = IF Stored(id) THEN Append(prompt, library[Row(id)].content) ELSE prompt
  /\ position' = position + 1
  /\ UNCHANGED <<library, at, enterprise, chain, call, writes, shown, pick, disturbed>>

\* The prompt is there, and the preview is on its way.
ShowPreview ==
  /\ at = "assemble"
  /\ position > Len(chain)
  /\ at' = "preview"
  /\ shown' = [prompt |-> prompt, chain |-> chain]
  /\ UNCHANGED <<library, enterprise, position, chain, prompt, call, writes, pick, disturbed>>

----------------------------------------------------------------------------
(* Answering the call.                                                     *)

AnswerStoppingOnSuccess(result) ==
  /\ at' = "done"
  /\ answer' = result
  /\ heartbeat' = (heartbeat /\ result.is = "invalidGadget")
  /\ UNCHANGED <<enterprise, position, chain, prompt>>

\* The handler's answer, and the finally block that stops the heartbeat.
Answer(result) ==
  /\ at' = "done"
  /\ answer' = result
  /\ heartbeat' = FALSE
  /\ UNCHANGED <<enterprise, position, chain, prompt>>

Cancelled == [is |-> "cancelled", prompt |-> <<>>, chain |-> <<>>]

ContentsNow(items) ==
  FlattenSeq([i \in DOMAIN items |->
    IF Stored(items[i].id) THEN <<library[Row(items[i].id)].content>> ELSE <<>>])

ResultComposedAnew(action) == [is |-> action, prompt |-> ContentsNow(chain), chain |-> chain]

Result(action) == [is |-> action, prompt |-> prompt, chain |-> chain]

ElicitationFailsBeforePreview ==
  /\ at \in {"basics", "type", "stack", "integrations"}
  /\ Answer([is |-> "invalidGadget", prompt |-> <<>>, chain |-> <<>>])
  /\ UNCHANGED <<library, writes, shown, pick, disturbed>>

\* An elicitation that times out, that the client does not know, or whose
\* connection closes.
ElicitationFails ==
  /\ at \in {"basics", "type", "stack", "integrations", "preview"}
  /\ Answer([is |-> "invalidGadget", prompt |-> <<>>, chain |-> <<>>])
  /\ UNCHANGED <<library, writes, shown, pick, disturbed>>

\* A query of the repository that throws ends in the same catch.
ComposingFails ==
  /\ at \in {"select", "assemble"}
  /\ Answer([is |-> "invalidGadget", prompt |-> <<>>, chain |-> <<>>])
  /\ UNCHANGED <<library, writes, shown, pick, disturbed>>

----------------------------------------------------------------------------
(* Questions.                                                              *)

Call ==
  /\ at = "idle"
  /\ at' = "basics"
  /\ heartbeat' \in BOOLEAN \* only a caller that sent a progress token has one
  /\ UNCHANGED <<library, enterprise, position, chain, prompt, answer, writes, shown, pick, disturbed>>

\* Declined, cancelled, or accepted without content.
Declined ==
  /\ at \in {"basics", "type", "stack"}
  /\ Answer(Cancelled)
  /\ UNCHANGED <<library, writes, shown, pick, disturbed>>

NextQuestion == [basics |-> "type", type |-> "stack", stack |-> "integrations"]

Accepted ==
  /\ at \in DOMAIN NextQuestion
  /\ at' = NextQuestion[at]
  /\ IF at = "stack" THEN enterprise' \in BOOLEAN ELSE UNCHANGED enterprise
  /\ UNCHANGED <<library, position, chain, prompt, call, writes, shown, pick, disturbed>>

\* Optional: without an answer the list of integrations is empty.
IntegrationsAnswered ==
  /\ at = "integrations"
  /\ at' = "select" /\ position' = 1
  /\ UNCHANGED <<library, enterprise, chain, prompt, call, writes, shown, pick, disturbed>>

PreviewDeclined ==
  /\ at = "preview"
  /\ Answer(Result("cancelled"))
  /\ UNCHANGED <<library, writes, shown, pick, disturbed>>

\* The user picks a dispatch mode.
ActionOf ==
  [p \in {"return", "cancel", "dispatch-now", "plan-first"} |->
     CASE p = "return" -> "returned" [] p = "cancel" -> "cancelled" [] OTHER -> p]

Picked(p) ==
  /\ at = "preview"
  /\ pick' = p
  /\ \/ /\ p = "sample"
        /\ at' = "sample"
        /\ UNCHANGED <<enterprise, position, chain, prompt, call>>
     \/ /\ p \in DOMAIN ActionOf
        /\ Answer(Result(ActionOf[p]))
  /\ UNCHANGED <<library, writes, shown, disturbed>>

\* The host ran its turn.
Sampled ==
  /\ at = "sample"
  /\ Answer(Result("sampled"))
  /\ UNCHANGED <<library, writes, shown, pick, disturbed>>

\* It did not, or took too long.
SamplingFails ==
  /\ at = "sample"
  /\ Answer(Result("returned"))
  /\ UNCHANGED <<library, writes, shown, pick, disturbed>>

----------------------------------------------------------------------------
(* Everybody else.                                                         *)

Without(id) == IF Stored(id) THEN RemoveAt(library, Row(id)) ELSE library

Composing == at \in {"select", "assemble"}

\* Other clients put and delete gadgets: in this process while the wizard
\* waits, in another one at any time.
Write ==
  /\ writes < WriteBound
  /\ writes' = writes + 1
  /\ \/ \E g \in Gadget : library' = <<g>> \o Without(g.id)
     \/ \E id \in Ids : Stored(id) /\ library' = Without(id)
  /\ disturbed' = (disturbed \/ Composing)
  /\ UNCHANGED <<wizard, call, shown, pick>>

----------------------------------------------------------------------------
(* The specification.                                                      *)

Init ==
  /\ library \in Libraries
  /\ at = "idle" /\ enterprise = FALSE /\ position = 1
  /\ chain = <<>> /\ prompt = <<>>
  /\ heartbeat = FALSE /\ answer = None
  /\ writes = 0
  /\ shown = None /\ pick = "none" /\ disturbed = FALSE

User ==
  \/ Accepted \/ Declined \/ IntegrationsAnswered \/ PreviewDeclined
  \/ \E p \in {"return", "dispatch-now", "plan-first", "sample", "cancel"} : Picked(p)

Own == SelectCategory \/ ChainSelected \/ AssembleItem \/ ShowPreview

Next ==
  \/ Call \/ User \/ ElicitationFails \/ Own \/ ComposingFails
  \/ Sampled \/ SamplingFails \/ Write

\* The user and the host need not answer; then every elicitation, and the
\* sampling, times out.  Nothing relies on a query that throws.
Fairness == WF_vars(Own) /\ WF_vars(ElicitationFails \/ SamplingFails)

Spec == Init /\ [][Next]_vars /\ Fairness

----------------------------------------------------------------------------
(* Properties.                                                             *)

Actions == {"returned", "dispatch-now", "plan-first", "sampled", "cancelled"}

\* A call that is over has its answer, and no heartbeat goes on: it is stopped
\* on every way out.
OverOnEveryWayOut ==
  /\ (answer # None) = (at = "done")
  /\ heartbeat => at \notin {"idle", "done"}

\* The variables have their types, and a call that is over is over.
TypeOK ==
  /\ library \in Seq(Gadget) /\ DistinctIds(library)
  /\ at \in {"idle", "basics", "type", "stack", "integrations", "select", "assemble",
             "preview", "sample", "done"}
  /\ chain \in Seq([id : Ids, category : ToSet(Categories)])
  /\ prompt \in Seq(Contents)
  /\ answer = None \/ answer.is \in Actions \cup {"invalidGadget"}
  /\ OverOnEveryWayOut

\* The call acts on what the user has seen, however the library has changed
\* since: the prompt and the chain of an answer are those of the preview, and
\* its action is the user's pick, except that a sampling that failed hands
\* the prompt back.  Nobody who saw no preview has anything dispatched.
DeliversWhatWasShown ==
  at = "done" /\ answer.is # "invalidGadget" =>
    \/ /\ shown = None /\ answer = Cancelled
    \/ /\ shown = [prompt |-> answer.prompt, chain |-> answer.chain]
       /\ \/ pick \in DOMAIN ActionOf /\ answer.is = ActionOf[pick]
          \/ pick = "sample" /\ answer.is \in {"sampled", "returned"}
          \/ pick = "none" /\ answer.is = "cancelled"

Rank(category) == CHOOSE i \in DOMAIN Categories : Categories[i] = category

\* A gadget of the first page that scores.
Candidate(id, category) ==
  \E i \in DOMAIN library :
    /\ library[i].id = id /\ library[i].category = category /\ library[i].fit > 0
    /\ Cardinality({j \in 1..i : library[j].category = category}) <= PageLimit

\* No other candidate comes before it.
BestOf(id, category) ==
  \A other \in Ids : Candidate(other, category) /\ other # id =>
    \/ library[Row(other)].fit < library[Row(id)].fit
    \/ library[Row(other)].fit = library[Row(id)].fit /\ Row(id) < Row(other)

Wanted(id, category) ==
  /\ Candidate(id, category)
  /\ (category = "constraint" /\ enterprise) \/ BestOf(id, category)

\* Unless another process writes while the prompt is composed, the preview's
\* chain names the gadgets that contributed, each of them once and in the
\* canonical order: the best one of each category's page, for the enterprise
\* bar every constraint of the page, and the prompt has the contents they
\* have at this moment.
ChainContributed ==
  [][at = "assemble" /\ at' = "preview" /\ ~disturbed =>
       /\ \A id \in Ids, i \in DOMAIN Categories :
            Wanted(id, Categories[i]) <=>
              \E k \in DOMAIN chain : chain[k] = [id |-> id, category |-> Categories[i]]
       /\ IsInjective(chain)
       /\ \A k \in 2..Len(chain) : Rank(chain[k - 1].category) <= Rank(chain[k].category)
       /\ prompt = [k \in DOMAIN chain |-> library[Row(chain[k].id)].content]]_vars

\* A call of the wizard ends, whatever user, host and other clients do.
WizardEnds == at = "basics" ~> at = "done"

=============================================================================
