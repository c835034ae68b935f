--------------------------------- MODULE Answer ---------------------------------
(***************************************************************************)
(* How a turn ends: response_node (agent/nodes/response.py) makes an       *)
(* answer and a status of the artifacts the turn has left, the evidence    *)
(* layer (artifacts/evidence.py) decides what the answer must contain,     *)
(* memory_helper_node writes long-term memory and the runner writes the    *)
(* outcome row.                                                            *)
(*                                                                         *)
(* A text is abstracted to what the guards look for in it: its length, the *)
(* artifacts a value of which it quotes, the entities it names and whether *)
(* it holds a number nobody gave.  The channels of the session stay from   *)
(* turn to turn unless the runner's initial state sets them.               *)
(***************************************************************************)
EXTENDS Naturals, FiniteSets

CONSTANTS
    Artifact,   \* what the tools of a plan may produce
    Fact,       \* [Artifact -> kind of its values], see Kinds
    Entity,     \* [Artifact -> entity its evidence is anchored to, or "none"]
    Required,   \* entities the intents and the plan's inputs name
    Entailment, \* agent.enable_claim_entailment
    MaxCalls,   \* llm_calls of the invocation budget left for the answer
    MaxTurns    \* bound: turns of the session

(* Of an artifact's values: some are long enough and not in the message    *)
(* ("own"), all such are of two letters ("brief"), all are in the message  *)
(* ("echo"), or there is none.                                             *)
Kinds == {"own", "brief", "echo", "none"}

(* What the constants are assumed to be (a composing module says so).      *)
AnswerAssumption ==
    /\ IsFiniteSet(Artifact) /\ Fact \in [Artifact -> Kinds]
    /\ "none" \notin Required /\ Entailment \in BOOLEAN
    /\ MaxCalls \in Nat /\ MaxTurns \in Nat \ {0}

VARIABLES
    pc,      \* the part of the turn that runs next
    ch,      \* the session's channels
    t,       \* the turn
    row      \* history: by turn, its status and what was stored of it

vars == <<pc, ch, t, row>>

Names == Required \cup ({Entity[a] : a \in Artifact} \ {"none"})

Text == [size : {"none", "short", "full"}, quotes : SUBSET Artifact,
         names : SUBSET Names, invents : BOOLEAN]
NoText == [size |-> "none", quotes |-> {}, names |-> {}, invents |-> FALSE]
(* What the model may write: naming every entity it quotes or none, and    *)
(* inventing or not.                                                       *)
Written == {x \in Text : x.size = "none" => x = NoText}

Status == {"SUCCESS", "PARTIAL_SUCCESS", "CONVERSATIONAL", "EXECUTION_FAILED",
           "PLANNING_FAILED"}

----------------------------------------------------------------------------
(* What the guards see.                                                    *)

(* _covered_artifacts: a value of three letters or more that the message   *)
(* does not have.                                                          *)
Credited(x, arts) == {a \in arts : Fact[a] = "own" /\ a \in x.quotes}

(* _synthesis_incorporates_data and _synthesis_covers_each_artifact. *)
Engages(x, arts) == Credited(x, arts) = arts

(* GroundingValidator.check: two letters are enough here, and an artifact  *)
(* all of whose values are the user's own is represented by its entity.    *)
Represented(x, arts) ==
    {a \in arts : \/ Fact[a] \in {"own", "brief"} /\ a \in x.quotes
                  \/ Fact[a] = "echo" /\ Entity[a] \in x.names}
Missing(x, arts) == {a \in arts : Fact[a] # "none"} \ Represented(x, arts)
Unnamed(x) == Required \ x.names
Ungrounded(x, arts) == Missing(x, arts) # {} \/ Unnamed(x) # {} \/ x.invents
Covered(x, arts) == Represented(x, arts) = arts /\ Unnamed(x) = {}

(* _evidence_renderer: one section for each evidence with a fact or an     *)
(* entity; the required entities alone only when there is no section.      *)
Sections(arts) == {a \in arts : Fact[a] # "none" \/ Entity[a] # "none"}
Rendered(arts) ==
    [size |-> "full", quotes |-> arts, invents |-> FALSE,
     names |-> IF Sections(arts) = {} THEN Required
               ELSE {Entity[a] : a \in arts} \ {"none"}]
Renderable(arts) == Sections(arts) # {} \/ Required # {}

(* _render_artifacts: every value there is, under the name of its tool.    *)
Plain(arts) == [Rendered(arts) EXCEPT !.names = {}]

(* _evidence_repair: one call, if evidence or an entity is missing; it may *)
(* fail, or shrink the answer and be rejected.                             *)
Repairs(x, arts) ==
    {NoText} \cup (IF Missing(x, arts) \cup Unnamed(x) # {} THEN Written ELSE {})

----------------------------------------------------------------------------
(* ch.planned: _logical_workflow has nodes; detected: the validator's      *)
(* report counts executable intents; slow: _budget_exceeded; unsure:       *)
(* _synthesis_failed; status: _response_status; memory: the turn whose     *)
(* answer working memory holds; spoken: turns whose answer is in messages. *)
Blank == [kind |-> "none", arts |-> {}, errors |-> FALSE, failing |-> FALSE,
          compiles |-> TRUE, renders |-> TRUE, text |-> NoText, tries |-> 0,
          calls |-> 0, asked |-> 0, status |-> "none", way |-> "none"]

Init ==
    /\ pc = "idle"
    /\ ch = [turn |-> 0, planned |-> FALSE, detected |-> FALSE, slow |-> FALSE,
             unsure |-> FALSE, status |-> "none", memory |-> 0, spoken |-> {}]
    /\ t = Blank
    /\ row = [n \in 1..MaxTurns |-> [status |-> "none", success |-> FALSE, stored |-> FALSE,
                                      quiet |-> FALSE]]

(* A turn reaches the response node.  Planned turns set the workflow, the  *)
(* validator's report and, when planning was slow, the budget flag; a turn *)
(* of conversation sets none of them and the runner resets none of them.   *)
Turn(kind, arts, errors, failing) ==
    /\ pc = "idle" /\ ch.turn < MaxTurns
    /\ \E compiles, renders, slow \in BOOLEAN :
         /\ t' = [Blank EXCEPT !.kind = kind, !.arts = arts, !.errors = errors,
                    !.failing = failing, !.compiles = compiles, !.renders = renders,
                    !.calls = MaxCalls]
         /\ ch' = [ch EXCEPT !.turn = @ + 1,
                     !.planned = IF kind = "execute" THEN TRUE
                                 ELSE IF kind = "unplanned" THEN FALSE ELSE @,
                     !.detected = IF kind \in {"execute", "unplanned"} THEN TRUE ELSE @,
                     !.slow = @ \/ (slow /\ kind = "execute")]
         /\ kind # "execute" => ~slow
    /\ pc' = "respond"
    /\ UNCHANGED row

Chat == Turn("chat", {}, FALSE, FALSE)
Question == Turn("question", {}, FALSE, FALSE)
Structured == \E arts \in SUBSET Artifact : Turn("structured", arts, FALSE, FALSE)
Unplanned == \E errors \in BOOLEAN : Turn("unplanned", {}, errors, FALSE)
Execute == \E arts \in SUBSET Artifact, errors, failing \in BOOLEAN :
    /\ arts # Artifact => failing
    /\ Turn("execute", arts, errors, failing)

----------------------------------------------------------------------------
(* The answer: the patch of the response node.                             *)
Finish(status, text, way) ==
    /\ pc' = "remember"
    /\ t' = [t EXCEPT !.status = status, !.text = text, !.way = way]
    /\ UNCHANGED row

Plainly(status) ==
    /\ Finish(status, NoText, "plain")
    /\ ch' = [ch EXCEPT !.status = status]

(* Slip: the rendering is remembered as the answers are. *)
SlipFallback(custom) ==
    /\ Finish("PARTIAL_SUCCESS", Rendered(t.arts), "fallback")
    /\ ch' = [ch EXCEPT !.status = "PARTIAL_SUCCESS", !.unsure = TRUE, !.memory = ch.turn]

(* _synthesis_fallback_patch: the artifacts rendered without the model, by *)
(* their entities where the evidence compiles.  The budget ledger, the     *)
(* message and the working memory are not in this patch.                   *)
Fallback(custom) ==
    LET status == IF t.renders \/ custom THEN "PARTIAL_SUCCESS" ELSE "EXECUTION_FAILED"
    IN /\ Finish(status,
                 IF status = "EXECUTION_FAILED" THEN NoText
                 ELSE IF t.compiles /\ Renderable(t.arts) THEN Rendered(t.arts)
                 ELSE Plain(t.arts),
                 "fallback")
       /\ ch' = [ch EXCEPT !.status = status, !.unsure = TRUE]

(* Slip: only a turn with a plan had something to do. *)
SlipExecutable == t.kind \in {"execute", "structured"}

Executable == t.kind \in {"execute", "unplanned", "structured"} \/ ch.detected

(* An answer another node has already given passes, with the status the    *)
(* channel has, whichever turn put it there.                               *)
Passthrough ==
    /\ pc = "respond" /\ t.kind = "question"
    /\ Plainly(IF ch.status # "none" THEN ch.status ELSE "CONVERSATIONAL")

StructuredAnswer ==
    /\ pc = "respond" /\ t.kind = "structured"
    /\ Finish("SUCCESS", Plain(t.arts), "structured")
    /\ ch' = [ch EXCEPT !.status = "SUCCESS"]

Composes == pc = "respond" /\ t.kind \notin {"question", "structured"}

(* Nothing was produced and nothing failed, though something was to be     *)
(* done: never a success.                                                  *)
NothingDone ==
    /\ Composes /\ t.arts = {} /\ ~t.errors /\ (ch.planned \/ Executable)
    /\ Plainly(IF ch.planned THEN "EXECUTION_FAILED" ELSE "PLANNING_FAILED")

(* Conversation: an empty answer is asked for once more. *)
Converse ==
    /\ Composes /\ t.arts = {} /\ ~t.errors /\ ~ch.planned /\ ~Executable
    /\ \E status \in {"CONVERSATIONAL", "EXECUTION_FAILED"} : Plainly(status)

Failed ==
    /\ Composes /\ t.arts = {} /\ t.errors
    /\ Plainly("EXECUTION_FAILED")

(* With artifacts: over the planning budget they are rendered; a prompt    *)
(* that cannot be compiled is an error; without a call left they are       *)
(* rendered; else the model is asked.                                      *)
OverBudget ==
    /\ Composes /\ t.arts # {}
    /\ ch.slow \/ t.calls = 0
    /\ Fallback(FALSE)

Uncompiled ==
    /\ Composes /\ t.arts # {} /\ ~ch.slow
    /\ Plainly("EXECUTION_FAILED")

Ask ==
    /\ Composes /\ t.arts # {} /\ ~ch.slow /\ t.calls > 0
    /\ pc' = "draft"
    /\ t' = [t EXCEPT !.calls = @ - 1, !.asked = 1]
    /\ UNCHANGED <<ch, row>>

(* An empty content reads "Task completed.": short. *)
Draft ==
    /\ pc = "draft"
    /\ \/ Fallback(FALSE)
       \/ \E x \in Written :
            /\ x.size # "none"
            /\ IF Engages(x, t.arts)
               THEN /\ pc' = "check"
                    /\ t' = [t EXCEPT !.text = x]
                    /\ UNCHANGED <<ch, row>>
               ELSE Fallback(FALSE)

(* Slip: the attempts are not counted. *)
SlipRetry ==
    /\ pc = "check" /\ t.text.size = "short" /\ t.tries < 2
    /\ \E x \in Written : x.size # "none" /\ t' = [t EXCEPT !.text = x]
    /\ UNCHANGED <<pc, ch, row>>

(* Slip: one attempt too many. *)
SlipCount ==
    /\ pc = "check" /\ t.text.size = "short" /\ t.tries <= 2
    /\ t' = [t EXCEPT !.tries = @ + 1]
    /\ UNCHANGED <<pc, ch, row>>

(* A short answer is asked for again, twice at most, out of no budget; a   *)
(* failure leaves the answer there was.                                    *)
Retry ==
    /\ pc = "check" /\ t.text.size = "short" /\ t.tries < 2
    /\ \/ \E x \in Written :
            /\ x.size # "none"
            /\ t' = [t EXCEPT !.text = x, !.tries = @ + 1, !.asked = @ + 1]
       \/ t' = [t EXCEPT !.tries = 2, !.asked = @ + 1]
    /\ UNCHANGED <<pc, ch, row>>

(* The guards again, on the text that will be returned. *)
Floor ==
    /\ pc = "check" /\ ~(t.text.size = "short" /\ t.tries < 2)
    /\ IF t.text.size = "short" \/ ~Engages(t.text, t.arts)
       THEN Fallback(FALSE)
       ELSE pc' = "ground" /\ UNCHANGED <<ch, t, row>>

Verdict ==
    IF t.compiles /\ Covered(t.text, t.arts) THEN "SUCCESS" ELSE "PARTIAL_SUCCESS"

(* Slip: a number nobody gave passes. *)
SlipGate == t.compiles /\ (Missing(t.text, t.arts) # {} \/ Unnamed(t.text) # {})

(* Without evidence nothing is missing. *)
Gate == t.compiles /\ Ungrounded(t.text, t.arts)

(* The grounding gate.  A text that misses something is repaired once,     *)
(* unless only an invented number is wrong with it; whether or not the     *)
(* repair is good, the renderer takes over when it has anything to say.    *)
Ground ==
    /\ pc = "ground"
    /\ IF ~Gate
       THEN pc' = "entail" /\ UNCHANGED <<ch, t, row>>
       ELSE \E repair \in Repairs(t.text, t.arts) :
            LET good == repair # NoText /\ ~Ungrounded(repair, t.arts)
            IN IF Renderable(t.arts)
               THEN Fallback(TRUE)
               ELSE /\ pc' = "entail"
                    /\ t' = IF good THEN [t EXCEPT !.text = repair] ELSE t
                    /\ UNCHANGED <<ch, row>>

(* The optional entailment check, then the full patch: the one that has    *)
(* the message and the working memory.  An answer after a fallback of any  *)
(* earlier turn is not remembered: _synthesis_failed is never cleared.     *)
Answered(status) ==
    /\ Finish(status, t.text, "synthesis")
    /\ ch' = [ch EXCEPT !.status = status, !.spoken = @ \cup {ch.turn},
                        !.memory = IF ch.unsure THEN @ ELSE ch.turn]

Entail ==
    /\ pc = "entail"
    /\ \/ Answered(Verdict)
       \/ Entailment /\ Fallback(FALSE)

(* memory_helper_node: only turns with artifacts; then the runner's row.   *)
Remember ==
    /\ pc = "remember"
    /\ pc' = "idle"
    /\ row' = [row EXCEPT ![ch.turn] =
                 [status |-> t.status, success |-> ~t.errors,
                  stored |-> t.arts # {}, quiet |-> t.way = "fallback"]]
    /\ t' = Blank
    /\ UNCHANGED ch

Step == \/ Passthrough \/ StructuredAnswer \/ NothingDone \/ Converse \/ Failed
        \/ OverBudget \/ Uncompiled \/ Ask \/ Draft \/ Retry \/ Floor \/ Ground
        \/ Entail \/ Remember

Next == Chat \/ Question \/ Structured \/ Unplanned \/ Execute \/ Step

Spec == Init /\ [][Next]_vars /\ WF_vars(Step)

----------------------------------------------------------------------------
TypeOK ==
    /\ pc \in {"idle", "respond", "draft", "check", "ground", "entail", "remember"}
    /\ ch.turn \in 0..MaxTurns /\ ch.memory \in 0..MaxTurns
    /\ {ch.status, t.status} \subseteq Status \cup {"none"}
    /\ t.text \in Text /\ t.arts \subseteq Artifact
    /\ t.tries \in 0..2 /\ t.calls \in 0..MaxCalls

(* A synthesized SUCCESS quotes every artifact by a value of its own,      *)
(* names every required entity and has no number nobody gave, however      *)
(* often the text was replaced between the guards (response.py:733).       *)
SuccessIsGrounded ==
    pc = "remember" /\ t.way = "synthesis" /\ t.status = "SUCCESS" =>
        /\ t.compiles /\ ~t.text.invents /\ Required \subseteq t.text.names
        /\ \A a \in t.arts : a \in t.text.quotes /\ Fact[a] = "own"

(* What was to be done and left no result is never answered as a success   *)
(* or from the model's knowledge (invariant I3, response.py:379).          *)
NothingDoneIsSaid ==
    pc = "remember" /\ t.kind \in {"execute", "unplanned"} /\ t.arts = {} =>
        t.status \in {"EXECUTION_FAILED", "PLANNING_FAILED"}

(* Working memory holds the answer of a turn only if that answer was       *)
(* synthesized and passed the guards: neither a failure nor a rendering    *)
(* comes back to the planner as knowledge (memory_helper_node.py:39).      *)
RemembersOnlyAnswers ==
    \A n \in 1..MaxTurns : ch.memory = n /\ pc = "idle" =>
        row[n].status \in {"SUCCESS", "PARTIAL_SUCCESS"} /\ ~row[n].quiet

(* What is said to have been done was done, and only that is remembered.   *)
AnswersAreEarned == SuccessIsGrounded /\ NothingDoneIsSaid /\ RemembersOnlyAnswers

(* Every turn is answered, however the model fails. *)
EveryTurnAnswered == (pc = "respond") ~> (pc = "idle")

----------------------------------------------------------------------------
(* What the code's comments say and these steps refute.                    *)

(* response.py:54: "successful tool outputs must NEVER be discarded": a    *)
(* prompt that does not compile discards them.                             *)
ArtifactsAreAnswered ==
    pc = "remember" /\ t.arts # {} /\ t.renders => t.status # "EXECUTION_FAILED"

(* response.py:280: the renderer "is GUARANTEED to name every required     *)
(* entity": only those some evidence is anchored to.                       *)
FallbackNamesEntities ==
    pc = "remember" /\ t.way = "fallback" /\ t.compiles /\ t.status = "PARTIAL_SUCCESS" =>
        Unnamed(t.text) = {}

(* memory_helper_node.py:39 skips "a failed/degenerate synthesis": and     *)
(* every good one after it.                                                *)
GoodAnswersAreRemembered ==
    pc = "remember" /\ t.way = "synthesis" => ch.memory = ch.turn

(* response.py:375, "Pure conversation": after a planned turn it is        *)
(* answered as a failed execution.                                         *)
ConversationIsAnswered ==
    pc = "respond" /\ t.kind = "chat" => ~ENABLED NothingDone

(* response.py:570, the reserved slot: the degenerate retries, the       *)
(* repair and the entailment draw on nothing.                              *)
EveryCallIsReserved == t.asked + t.calls <= MaxCalls

(* api/learning.py:38 learns from rows with success=True: a row says so    *)
(* whenever no error is on the state.                                      *)
RowsAgree ==
    \A n \in 1..MaxTurns : row[n].success /\ row[n].status # "none" =>
        row[n].status \notin {"EXECUTION_FAILED", "PLANNING_FAILED"}

(* response.py:851, "never collapses failure into success-looking text": a *)
(* failed tool does not count.                                             *)
SuccessIsComplete == pc = "remember" /\ t.status = "SUCCESS" => ~t.failing
================================================================================
