----------------------------- MODULE Stages_proofs -----------------------------
(***************************************************************************)
(* Proofs about the stages of a turn.  For any artifacts, facts, entities  *)
(* and number of turns, what is answered as a success is grounded, what    *)
(* left nothing is said to have failed, and only answers are remembered.   *)
(* For any sessions, capabilities, messages and drafts, no plan that the   *)
(* validator rejects stays in the cache for long, and one that covers a    *)
(* part of the request is not run silently.  For any plan, the graph that  *)
(* the compiler and its passes leave is a schedule of it.                  *)
(***************************************************************************)
EXTENDS Answer, Planner, GraphPasses, FiniteSetTheorems, WellFoundedInduction, TLAPS

TurnFields == {"kind", "arts", "errors", "failing", "compiles", "renders", "text", "tries",
          "calls", "asked", "status", "way"}
Channels == {"turn", "planned", "detected", "slow", "unsure", "status", "memory", "spoken"}
Outcome == [status : Status \cup {"none"}, success : BOOLEAN, stored : BOOLEAN, quiet : BOOLEAN]

(* Records have the fields that the actions update.                        *)
Shaped == /\ DOMAIN t = TurnFields /\ DOMAIN ch = Channels
          /\ t.errors \in BOOLEAN /\ ch.unsure \in BOOLEAN
          /\ row \in [1..MaxTurns -> Outcome]

(* Only a turn that produced something comes to have its text checked.     *)
Composing == pc \in {"draft", "check", "ground", "entail"}
HasArtifacts == Composing => t.arts # {}

(* The guards that the text has passed when it comes to the next one.      *)
Guarded == /\ pc \in {"ground", "entail"} => Engages(t.text, t.arts)
           /\ pc = "entail" => ~Gate

(* A turn's answer is in working memory once the turn is answered, and     *)
(* then it is what the turn's row will say.                                *)
Succeeded == {"SUCCESS", "PARTIAL_SUCCESS"}
Remembered ==
    /\ ch.turn \in Nat /\ ch.memory \in Nat /\ ch.memory <= ch.turn
    /\ ch.memory = ch.turn /\ pc # "idle" =>
          pc = "remember" /\ t.status \in Succeeded /\ t.way = "synthesis"
    /\ \A n \in 1..MaxTurns :
          ch.memory = n /\ (pc = "idle" \/ n # ch.turn) => row[n].status \in Succeeded /\ ~row[n].quiet

EarnedInv == /\ TypeOK /\ Shaped /\ HasArtifacts /\ Guarded /\ Remembered
             /\ SuccessIsGrounded /\ NothingDoneIsSaid

-----------------------------------------------------------------------------
(* What is rendered is a text.                                             *)
LEMMA RenderedIsText ==
  ASSUME NEW arts \in SUBSET Artifact
  PROVE  Rendered(arts) \in Text /\ Plain(arts) \in Text
<1>1. Required \subseteq Names /\ {Entity[a] : a \in arts} \ {"none"} \subseteq Names
  BY DEF Names
<1> DEFINE names == IF Sections(arts) = {} THEN Required ELSE {Entity[a] : a \in arts} \ {"none"}
<1>2. names \subseteq Names
  BY <1>1
<1>3. Rendered(arts) = [size |-> "full", quotes |-> arts, invents |-> FALSE, names |-> names]
  BY DEF Rendered
<1> HIDE DEF names
<1>4. Rendered(arts) \in Text
  BY <1>2, <1>3 DEF Text
<1>5. \A x \in Text : [x EXCEPT !.names = {}] \in Text
  BY DEF Text
<1> QED BY <1>4, <1>5 DEF Plain

LEMMA NoTextIsText == NoText \in Text
BY DEF NoText, Text

LEMMA WrittenIsText == Written \subseteq Text
BY DEF Written

(* Text that engages every artifact of a turn leaves something to render.  *)
LEMMA EngagedIsRenderable ==
  ASSUME NEW arts \in SUBSET Artifact, NEW x \in Text, Engages(x, arts), arts # {}
  PROVE  Renderable(arts)
<1>1. PICK a \in arts : a \in Credited(x, arts)
  BY DEF Engages
<1>2. Fact[a] = "own"
  BY <1>1 DEF Credited
<1>3. a \in Sections(arts)
  BY <1>2 DEF Sections
<1> QED BY <1>3 DEF Renderable

-----------------------------------------------------------------------------
(* What Finish writes, and what it leaves alone.                           *)
LEMMA Finished ==
  ASSUME EarnedInv, NEW status, NEW text, NEW way, Finish(status, text, way)
  PROVE  /\ pc' = "remember" /\ DOMAIN t' = TurnFields /\ row' = row
         /\ t'.status = status /\ t'.text = text /\ t'.way = way
         /\ t'.kind = t.kind /\ t'.arts = t.arts /\ t'.errors = t.errors
         /\ t'.compiles = t.compiles /\ t'.tries = t.tries /\ t'.calls = t.calls
BY DEF EarnedInv, Shaped, Finish, TurnFields

(* A turn that ends otherwise than by a synthesis.                         *)
LEMMA EndsUnremembered ==
  ASSUME EarnedInv, pc \notin {"idle", "remember"},
         NEW status \in Status, NEW text \in Text, NEW way, Finish(status, text, way),
         way # "synthesis",
         t.kind \in {"execute", "unplanned"} /\ t.arts = {} =>
             status \in {"EXECUTION_FAILED", "PLANNING_FAILED"},
         DOMAIN ch' = Channels, ch'.turn = ch.turn, ch'.memory = ch.memory,
         ch'.status = status, ch'.unsure \in BOOLEAN
  PROVE  EarnedInv'
<1>1. /\ pc' = "remember" /\ DOMAIN t' = TurnFields /\ row' = row
      /\ t'.status = status /\ t'.text = text /\ t'.way = way
      /\ t'.kind = t.kind /\ t'.arts = t.arts /\ t'.errors = t.errors
      /\ t'.compiles = t.compiles /\ t'.tries = t.tries /\ t'.calls = t.calls
  BY Finished
<1>2. TypeOK'
  BY <1>1 DEF EarnedInv, TypeOK
<1>3. Shaped'
  BY <1>1 DEF EarnedInv, Shaped
<1>4. HasArtifacts' /\ Guarded'
  BY <1>1 DEF HasArtifacts, Composing, Guarded
<1>5. Remembered'
  <2>1. ch.memory # ch.turn
    BY DEF EarnedInv, Remembered
  <2> QED BY <1>1, <2>1 DEF EarnedInv, Remembered
<1>6. SuccessIsGrounded' /\ NothingDoneIsSaid'
  BY <1>1 DEF SuccessIsGrounded, NothingDoneIsSaid
<1> QED BY <1>2, <1>3, <1>4, <1>5, <1>6 DEF EarnedInv

LEMMA PlainlyKeeps ==
  ASSUME EarnedInv, pc \notin {"idle", "remember"}, NEW status \in Status, Plainly(status),
         t.kind \in {"execute", "unplanned"} /\ t.arts = {} =>
             status \in {"EXECUTION_FAILED", "PLANNING_FAILED"}
  PROVE  EarnedInv'
<1>1. DOMAIN ch' = Channels /\ ch'.turn = ch.turn /\ ch'.memory = ch.memory
      /\ ch'.status = status /\ ch'.unsure \in BOOLEAN
  BY DEF Plainly, EarnedInv, Shaped, Channels
<1>2. Finish(status, NoText, "plain")
  BY DEF Plainly
<1> QED BY <1>1, <1>2, NoTextIsText, EndsUnremembered

LEMMA FallbackKeeps ==
  ASSUME EarnedInv, pc \notin {"idle", "remember"}, t.arts # {},
         NEW custom \in BOOLEAN, Fallback(custom)
  PROVE  EarnedInv'
<1>1. PICK status \in Status, text \in Text :
         /\ Finish(status, text, "fallback")
         /\ ch' = [ch EXCEPT !.status = status, !.unsure = TRUE]
  BY RenderedIsText, NoTextIsText DEF Fallback, Status, EarnedInv, TypeOK
<1>2. DOMAIN ch' = Channels /\ ch'.turn = ch.turn /\ ch'.memory = ch.memory
      /\ ch'.status = status /\ ch'.unsure \in BOOLEAN
  BY <1>1 DEF EarnedInv, Shaped, Channels
<1> QED BY <1>1, <1>2, EndsUnremembered

-----------------------------------------------------------------------------
LEMMA EarnedInit == ASSUME AnswerAssumption PROVE Init => EarnedInv
<1> SUFFICES ASSUME Init PROVE EarnedInv
  OBVIOUS
<1>1. MaxTurns \in Nat /\ MaxCalls \in Nat
  BY DEF AnswerAssumption
<1>2. TypeOK
  BY <1>1, NoTextIsText DEF Init, TypeOK, Blank
<1>3. Shaped
  BY DEF Init, Shaped, Blank, TurnFields, Channels, Outcome
<1>4. HasArtifacts /\ Guarded
  BY DEF Init, HasArtifacts, Composing, Guarded
<1>5. Remembered
  BY <1>1 DEF Init, Remembered
<1>6. SuccessIsGrounded /\ NothingDoneIsSaid
  BY DEF Init, SuccessIsGrounded, NothingDoneIsSaid
<1> QED BY <1>2, <1>3, <1>4, <1>5, <1>6 DEF EarnedInv

(* A turn begins: what working memory holds is of an earlier one.          *)
LEMMA TurnKeeps ==
  ASSUME AnswerAssumption, EarnedInv, NEW kind, NEW arts \in SUBSET Artifact,
         NEW errors \in BOOLEAN, NEW failing \in BOOLEAN, Turn(kind, arts, errors, failing)
  PROVE  EarnedInv'
<1>1. MaxTurns \in Nat /\ MaxCalls \in Nat
  BY DEF AnswerAssumption
<1>2. pc = "idle" /\ pc' = "respond" /\ row' = row /\ ch.turn < MaxTurns
  BY DEF Turn
<1>3. /\ DOMAIN t' = TurnFields /\ t'.errors = errors /\ t'.arts = arts /\ t'.text = NoText
      /\ t'.status = "none" /\ t'.tries = 0 /\ t'.calls = MaxCalls
  BY DEF Turn, Blank, TurnFields
<1>4. /\ DOMAIN ch' = Channels /\ ch'.turn = ch.turn + 1 /\ ch'.memory = ch.memory
      /\ ch'.status = ch.status /\ ch'.unsure = ch.unsure
  BY DEF Turn, EarnedInv, Shaped, Channels
<1>5. TypeOK'
  BY <1>1, <1>2, <1>3, <1>4, NoTextIsText DEF EarnedInv, TypeOK
<1>6. Shaped'
  BY <1>2, <1>3, <1>4 DEF EarnedInv, Shaped
<1>7. HasArtifacts' /\ Guarded'
  BY <1>2 DEF HasArtifacts, Composing, Guarded
<1>8. Remembered'
  BY <1>1, <1>2, <1>4 DEF EarnedInv, Remembered
<1>9. SuccessIsGrounded' /\ NothingDoneIsSaid'
  BY <1>2 DEF SuccessIsGrounded, NothingDoneIsSaid
<1> QED BY <1>5, <1>6, <1>7, <1>8, <1>9 DEF EarnedInv

LEMMA TurnsKeep ==
  ASSUME AnswerAssumption, EarnedInv, Chat \/ Question \/ Structured \/ Unplanned \/ Execute
  PROVE  EarnedInv'
<1>1. CASE Chat
  BY <1>1, TurnKeeps DEF Chat
<1>2. CASE Question
  BY <1>2, TurnKeeps DEF Question
<1>3. CASE Structured
  <2>1. PICK arts \in SUBSET Artifact : Turn("structured", arts, FALSE, FALSE)
    BY <1>3 DEF Structured
  <2> QED BY <2>1, TurnKeeps
<1>4. CASE Unplanned
  <2>1. PICK errors \in BOOLEAN : Turn("unplanned", {}, errors, FALSE)
    BY <1>4 DEF Unplanned
  <2> QED BY <2>1, TurnKeeps
<1>5. CASE Execute
  <2>1. PICK arts \in SUBSET Artifact, errors \in BOOLEAN, failing \in BOOLEAN :
           Turn("execute", arts, errors, failing)
    BY <1>5 DEF Execute
  <2> QED BY <2>1, TurnKeeps
<1> QED BY <1>1, <1>2, <1>3, <1>4, <1>5

-----------------------------------------------------------------------------
(* A step inside the turn that only moves it on or changes its text.       *)
LEMMA MovesOn ==
  ASSUME EarnedInv, pc \notin {"idle", "remember"}, pc' \in {"draft", "check", "ground", "entail"},
         ch' = ch, row' = row,
         DOMAIN t' = TurnFields, t'.arts = t.arts, t'.errors = t.errors, t'.status = t.status,
         t'.text \in Text, t'.tries \in 0..2, t'.calls \in 0..MaxCalls,
         t.arts # {}, Guarded'
  PROVE  EarnedInv'
<1>1. TypeOK'
  BY DEF EarnedInv, TypeOK
<1>2. Shaped'
  BY DEF EarnedInv, Shaped
<1>3. HasArtifacts'
  BY DEF HasArtifacts
<1>4. Remembered'
  <2>1. ch.memory # ch.turn
    BY DEF EarnedInv, Remembered
  <2> QED BY <2>1 DEF EarnedInv, Remembered
<1>5. SuccessIsGrounded' /\ NothingDoneIsSaid'
  BY DEF SuccessIsGrounded, NothingDoneIsSaid
<1> QED BY <1>1, <1>2, <1>3, <1>4, <1>5 DEF EarnedInv

LEMMA RespondKeeps ==
  ASSUME AnswerAssumption, EarnedInv,
         Passthrough \/ StructuredAnswer \/ NothingDone \/ Converse \/ Failed \/ Uncompiled
  PROVE  EarnedInv'
<1>1. CASE Passthrough
  <2>1. PICK status \in Status : Plainly(status)
    <3>1. CASE ch.status # "none"
      BY <1>1, <3>1 DEF Passthrough, EarnedInv, TypeOK
    <3>2. CASE ch.status = "none"
      BY <1>1, <3>2 DEF Passthrough, Status
    <3> QED BY <3>1, <3>2
  <2> QED BY <1>1, <2>1, PlainlyKeeps DEF Passthrough
<1>2. CASE StructuredAnswer
  <2> DEFINE text == Plain(t.arts)
  <2>1. text \in Text
    BY RenderedIsText DEF EarnedInv, TypeOK
  <2>2. Finish("SUCCESS", text, "structured")
    BY <1>2 DEF StructuredAnswer
  <2>3. DOMAIN ch' = Channels /\ ch'.turn = ch.turn /\ ch'.memory = ch.memory
        /\ ch'.status = "SUCCESS" /\ ch'.unsure \in BOOLEAN
    BY <1>2 DEF StructuredAnswer, EarnedInv, Shaped, Channels
  <2>4. pc = "respond" /\ t.kind = "structured" /\ "SUCCESS" \in Status
    BY <1>2 DEF StructuredAnswer, Status
  <2> HIDE DEF text
  <2> QED BY <2>1, <2>2, <2>3, <2>4, EndsUnremembered
<1>3. CASE NothingDone
  <2>1. PICK status \in {"EXECUTION_FAILED", "PLANNING_FAILED"} : Plainly(status)
    BY <1>3 DEF NothingDone
  <2> QED BY <1>3, <2>1, PlainlyKeeps DEF NothingDone, Composes, Status
<1>4. CASE Converse
  <2>1. t.kind \notin {"execute", "unplanned"} /\ pc = "respond"
    BY <1>4 DEF Converse, Executable, Composes
  <2>2. PICK status \in {"CONVERSATIONAL", "EXECUTION_FAILED"} : Plainly(status)
    BY <1>4 DEF Converse
  <2> QED BY <2>1, <2>2, PlainlyKeeps DEF Status
<1>5. CASE Failed
  BY <1>5, PlainlyKeeps DEF Failed, Composes, Status
<1>6. CASE Uncompiled
  BY <1>6, PlainlyKeeps DEF Uncompiled, Composes, Status
<1> QED BY <1>1, <1>2, <1>3, <1>4, <1>5, <1>6

LEMMA OverBudgetKeeps ==
  ASSUME AnswerAssumption, EarnedInv, OverBudget
  PROVE  EarnedInv'
BY FallbackKeeps DEF OverBudget, Composes

LEMMA AskKeeps ==
  ASSUME AnswerAssumption, EarnedInv, Ask
  PROVE  EarnedInv'
<1>1. pc = "respond" /\ t.arts # {} /\ pc' = "draft" /\ ch' = ch /\ row' = row
  BY DEF Ask, Composes
<1>2. /\ DOMAIN t' = TurnFields /\ t'.arts = t.arts /\ t'.errors = t.errors /\ t'.text = t.text
      /\ t'.tries = t.tries /\ t'.calls = t.calls - 1 /\ t'.status = t.status
  BY DEF Ask, EarnedInv, Shaped, TurnFields
<1>3. t'.calls \in 0..MaxCalls
  BY <1>2 DEF Ask, AnswerAssumption, EarnedInv, TypeOK
<1>4. Guarded'
  BY <1>1 DEF Guarded
<1> QED BY <1>1, <1>2, <1>3, <1>4, MovesOn DEF EarnedInv, TypeOK

LEMMA DraftKeeps ==
  ASSUME AnswerAssumption, EarnedInv, Draft
  PROVE  EarnedInv'
<1>1. pc = "draft" /\ t.arts # {}
  BY DEF Draft, EarnedInv, HasArtifacts, Composing
<1>2. CASE Fallback(FALSE)
  BY <1>1, <1>2, FallbackKeeps
<1>3. CASE ~Fallback(FALSE)
  <2>1. PICK x \in Written : pc' = "check" /\ t' = [t EXCEPT !.text = x] /\ ch' = ch /\ row' = row
    BY <1>3 DEF Draft
  <2>2. /\ DOMAIN t' = TurnFields /\ t'.arts = t.arts /\ t'.errors = t.errors /\ t'.text = x
        /\ t'.tries = t.tries /\ t'.calls = t.calls /\ t'.status = t.status
    BY <2>1 DEF EarnedInv, Shaped, TurnFields
  <2>3. Guarded'
    BY <2>1 DEF Guarded
  <2> QED BY <1>1, <2>1, <2>2, <2>3, WrittenIsText, MovesOn DEF EarnedInv, TypeOK
<1> QED BY <1>2, <1>3

LEMMA RetryKeeps ==
  ASSUME AnswerAssumption, EarnedInv, Retry
  PROVE  EarnedInv'
<1>1. pc = "check" /\ t.arts # {} /\ pc' = pc /\ ch' = ch /\ row' = row
  BY DEF Retry, EarnedInv, HasArtifacts, Composing
<1>2. /\ DOMAIN t' = TurnFields /\ t'.arts = t.arts /\ t'.errors = t.errors
      /\ t'.calls = t.calls /\ t'.status = t.status
  BY DEF Retry, EarnedInv, Shaped, TurnFields
<1>3. t'.text \in Text
  BY WrittenIsText DEF Retry, EarnedInv, Shaped, TurnFields, TypeOK
<1>4. t'.tries \in {2, t.tries + 1} /\ t.tries < 2
  BY DEF Retry, EarnedInv, Shaped, TurnFields
<1>5. t'.tries \in 0..2
  BY <1>4 DEF EarnedInv, TypeOK
<1>6. Guarded'
  BY <1>1 DEF Guarded
<1> QED BY <1>1, <1>2, <1>3, <1>5, <1>6, MovesOn DEF EarnedInv, TypeOK

LEMMA FloorKeeps ==
  ASSUME AnswerAssumption, EarnedInv, Floor
  PROVE  EarnedInv'
<1>1. pc = "check" /\ t.arts # {}
  BY DEF Floor, EarnedInv, HasArtifacts, Composing
<1>2. CASE t.text.size = "short" \/ ~Engages(t.text, t.arts)
  BY <1>1, <1>2, FallbackKeeps DEF Floor
<1>3. CASE ~(t.text.size = "short" \/ ~Engages(t.text, t.arts))
  <2>1. pc' = "ground" /\ ch' = ch /\ t' = t /\ row' = row /\ Engages(t.text, t.arts)
    BY <1>3 DEF Floor
  <2>2. Guarded'
    BY <2>1 DEF Guarded, Engages, Credited
  <2> QED BY <1>1, <2>1, <2>2, MovesOn DEF EarnedInv, TypeOK, Shaped
<1> QED BY <1>2, <1>3

(* The repair is never used: a text that came to the gate engages every    *)
(* artifact, and then the renderer has something to say.                   *)
LEMMA GroundKeeps ==
  ASSUME AnswerAssumption, EarnedInv, Ground
  PROVE  EarnedInv'
<1>1. pc = "ground" /\ t.arts # {} /\ Engages(t.text, t.arts)
  BY DEF Ground, EarnedInv, HasArtifacts, Composing, Guarded
<1>2. Renderable(t.arts)
  BY <1>1, EngagedIsRenderable DEF EarnedInv, TypeOK
<1>3. CASE Gate
  <2>1. Fallback(TRUE)
    BY <1>2, <1>3 DEF Ground, Repairs
  <2> QED BY <1>1, <2>1, FallbackKeeps
<1>4. CASE ~Gate
  <2>1. pc' = "entail" /\ ch' = ch /\ t' = t /\ row' = row
    BY <1>4 DEF Ground
  <2>2. Guarded'
    BY <1>1, <1>4, <2>1 DEF Guarded, Engages, Credited, Gate, Ungrounded, Missing, Represented,
       Unnamed
  <2> QED BY <1>1, <2>1, <2>2, MovesOn DEF EarnedInv, TypeOK, Shaped
<1> QED BY <1>3, <1>4

(* The guards make of a success what it has to be.                         *)
LEMMA VerdictIsEarned ==
  ASSUME Engages(t.text, t.arts), ~Gate, Verdict = "SUCCESS"
  PROVE  /\ t.compiles /\ ~t.text.invents /\ Required \subseteq t.text.names
         /\ \A a \in t.arts : a \in t.text.quotes /\ Fact[a] = "own"
<1>1. t.compiles /\ Covered(t.text, t.arts)
  BY DEF Verdict
<1>2. ~Ungrounded(t.text, t.arts)
  BY <1>1 DEF Gate
<1>3. ~t.text.invents /\ Unnamed(t.text) = {}
  BY <1>2 DEF Ungrounded
<1>4. Required \subseteq t.text.names
  BY <1>3 DEF Unnamed
<1>5. \A a \in t.arts : a \in t.text.quotes /\ Fact[a] = "own"
  BY DEF Engages, Credited
<1> QED BY <1>1, <1>3, <1>4, <1>5

LEMMA EntailKeeps ==
  ASSUME AnswerAssumption, EarnedInv, Entail
  PROVE  EarnedInv'
<1>1. pc = "entail" /\ t.arts # {} /\ Engages(t.text, t.arts) /\ ~Gate
  BY DEF Entail, EarnedInv, HasArtifacts, Composing, Guarded
<1>2. CASE Fallback(FALSE)
  BY <1>1, <1>2, FallbackKeeps
<1>3. CASE Answered(Verdict)
  <2>1. Verdict \in Succeeded /\ Verdict \in Status
    BY DEF Verdict, Succeeded, Status
  <2>2. /\ pc' = "remember" /\ DOMAIN t' = TurnFields /\ row' = row
        /\ t'.status = Verdict /\ t'.text = t.text /\ t'.way = "synthesis"
        /\ t'.kind = t.kind /\ t'.arts = t.arts /\ t'.errors = t.errors
        /\ t'.compiles = t.compiles /\ t'.tries = t.tries /\ t'.calls = t.calls
    BY <1>3, Finished DEF Answered
  <2>3. /\ DOMAIN ch' = Channels /\ ch'.turn = ch.turn /\ ch'.unsure = ch.unsure
        /\ ch'.status = Verdict /\ ch'.memory \in {ch.memory, ch.turn}
    BY <1>3 DEF Answered, EarnedInv, Shaped, Channels
  <2> DEFINE v == Verdict
  <2>4. v = "SUCCESS" => /\ t.compiles /\ ~t.text.invents /\ Required \subseteq t.text.names
                         /\ \A a \in t.arts : a \in t.text.quotes /\ Fact[a] = "own"
    BY <1>1, VerdictIsEarned
  <2>5. v \in Succeeded /\ v \in Status /\ t'.status = v /\ ch'.status = v
    BY <2>1, <2>2, <2>3
  <2> HIDE DEF v
  <2>6. TypeOK'
    BY <2>2, <2>3, <2>5 DEF EarnedInv, TypeOK
  <2>7. Shaped'
    BY <2>2, <2>3 DEF EarnedInv, Shaped
  <2>8. HasArtifacts' /\ Guarded'
    BY <2>2 DEF HasArtifacts, Composing, Guarded
  <2>9. Remembered'
    <3>1. ch.memory # ch.turn
      BY <1>1 DEF EarnedInv, Remembered
    <3> QED BY <1>1, <2>2, <2>3, <2>5, <3>1 DEF EarnedInv, Remembered
  <2>10. SuccessIsGrounded'
    BY <2>2, <2>4, <2>5 DEF SuccessIsGrounded
  <2>11. NothingDoneIsSaid'
    BY <1>1, <2>2 DEF NothingDoneIsSaid
  <2> QED BY <2>6, <2>7, <2>8, <2>9, <2>10, <2>11 DEF EarnedInv
<1> QED BY <1>2, <1>3 DEF Entail

LEMMA RememberKeeps ==
  ASSUME AnswerAssumption, EarnedInv, Remember
  PROVE  EarnedInv'
<1> DEFINE outcome == [status |-> t.status, success |-> ~t.errors, stored |-> t.arts # {},
                       quiet |-> t.way = "fallback"]
<1>1. pc = "remember" /\ pc' = "idle" /\ t' = Blank /\ ch' = ch
  BY DEF Remember
<1>2. row' = [row EXCEPT ![ch.turn] = outcome]
  BY DEF Remember
<1>3. outcome \in Outcome
  <2>1. (~t.errors) \in BOOLEAN /\ (t.arts # {}) \in BOOLEAN /\ (t.way = "fallback") \in BOOLEAN
    BY Zenon DEF EarnedInv, Shaped
  <2>2. t.status \in Status \cup {"none"}
    BY DEF EarnedInv, TypeOK
  <2> QED BY <2>1, <2>2 DEF Outcome
<1>4. outcome.status = t.status /\ (outcome.quiet <=> t.way = "fallback")
  OBVIOUS
<1> HIDE DEF outcome
<1>5. TypeOK'
  BY <1>1, NoTextIsText DEF EarnedInv, TypeOK, Blank, AnswerAssumption
<1>6. Shaped'
  <2>1. row' \in [1..MaxTurns -> Outcome]
    BY <1>2, <1>3 DEF EarnedInv, Shaped
  <2>2. DOMAIN Blank = TurnFields /\ Blank.errors = FALSE
    BY DEF Blank, TurnFields
  <2> QED BY <1>1, <2>1, <2>2 DEF EarnedInv, Shaped
<1>7. HasArtifacts' /\ Guarded' /\ SuccessIsGrounded' /\ NothingDoneIsSaid'
  BY <1>1 DEF HasArtifacts, Composing, Guarded, SuccessIsGrounded, NothingDoneIsSaid
<1>8. Remembered'
  <2>1. SUFFICES ASSUME NEW n \in 1..MaxTurns, ch.memory = n
                 PROVE  row'[n].status \in Succeeded /\ ~row'[n].quiet
    BY <1>1 DEF EarnedInv, Remembered
  <2>2. row \in [1..MaxTurns -> Outcome]
    BY DEF EarnedInv, Shaped
  <2>3. CASE n = ch.turn
    <3>1. t.status \in Succeeded /\ t.way = "synthesis"
      BY <1>1, <2>1, <2>3 DEF EarnedInv, Remembered
    <3>2. row'[n] = outcome
      BY <1>2, <2>2, <2>3
    <3> QED BY <1>4, <3>1, <3>2
  <2>4. CASE n # ch.turn
    <3>1. row'[n] = row[n]
      BY <1>2, <2>2, <2>4
    <3> QED BY <2>1, <2>4, <3>1 DEF EarnedInv, Remembered
  <2> QED BY <2>3, <2>4
<1> QED BY <1>5, <1>6, <1>7, <1>8 DEF EarnedInv

LEMMA EarnedNext ==
  ASSUME AnswerAssumption, EarnedInv, [Next]_vars
  PROVE  EarnedInv'
<1>1. CASE Chat \/ Question \/ Structured \/ Unplanned \/ Execute
  BY <1>1, TurnsKeep
<1>2. CASE Step
  BY <1>2, RespondKeeps, OverBudgetKeeps, AskKeeps, DraftKeeps, RetryKeeps, FloorKeeps,
     GroundKeeps, EntailKeeps, RememberKeeps DEF Step
<1>3. CASE UNCHANGED vars
  BY <1>3 DEF vars, EarnedInv, TypeOK, Shaped, HasArtifacts, Composing, Guarded, Engages, Credited,
     Gate, Ungrounded, Missing, Represented, Unnamed, Remembered, SuccessIsGrounded,
     NothingDoneIsSaid
<1> QED BY <1>1, <1>2, <1>3 DEF Next

LEMMA EarnedAlways == ASSUME AnswerAssumption PROVE Spec => []EarnedInv
<1>1. Init => EarnedInv
  BY EarnedInit
<1>2. EarnedInv /\ [Next]_vars => EarnedInv'
  BY EarnedNext
<1> QED BY <1>1, <1>2, PTL DEF Spec

(* Whatever the plans left in the channels, the state of a turn is typed.  *)
THEOREM TypeCorrect == ASSUME AnswerAssumption PROVE Spec => []TypeOK
<1>1. EarnedInv => TypeOK
  BY DEF EarnedInv
<1> QED BY <1>1, EarnedAlways, PTL

(* For any artifacts, facts and entities, and however often the text is    *)
(* written again between the guards, a synthesized success quotes every    *)
(* artifact, names every required entity and invents no number             *)
(* (response.py:733).                                                      *)
THEOREM GroundsSuccess == ASSUME AnswerAssumption PROVE Spec => []SuccessIsGrounded
<1>1. EarnedInv => SuccessIsGrounded
  BY DEF EarnedInv
<1> QED BY <1>1, EarnedAlways, PTL

(* A turn that had something to do and left nothing is never answered as a *)
(* success, whatever channels earlier turns left (response.py:379).        *)
THEOREM SaysNothingDone == ASSUME AnswerAssumption PROVE Spec => []NothingDoneIsSaid
<1>1. EarnedInv => NothingDoneIsSaid
  BY DEF EarnedInv
<1> QED BY <1>1, EarnedAlways, PTL

(* Over any number of turns, working memory holds only the answers of      *)
(* turns that were synthesized and passed the guards                       *)
(* (memory_helper_node.py:39).                                             *)
THEOREM RemembersAnswers == ASSUME AnswerAssumption PROVE Spec => []RemembersOnlyAnswers
<1>1. EarnedInv => RemembersOnlyAnswers
  BY DEF EarnedInv, Remembered, Succeeded, RemembersOnlyAnswers
<1> QED BY <1>1, EarnedAlways, PTL

-----------------------------------------------------------------------------
(* A plan in the cache is either one the validator accepts for its key, or *)
(* its session is still to judge it, as it was filed and by the intents of *)
(* its message, and can reach it, or nobody will.                          *)
Claims(s, place, key, p) ==
    /\ place \in {"redis", Home[s]}
    /\ work[s].at = "judge" /\ work[s].stored = p /\ work[s].plan = p
    /\ Key(work[s]) = key /\ work[s].intents = work[s].asked

Excused(place, key, p) ==
    \/ Eligible(key, p)
    \/ \E s \in Session : Claims(s, place, key, p)
    \/ <<place, key, p>> \in leftover

Owned(w) ==
    /\ w.at \in {"compile", "run"} /\ w.intents = w.asked /\ w.plan # <<>>
    /\ Uncovered(Ops(w.plan), Units[w.asked]) # {}
    => w.errors \/ w.faults # {}

PlanChannels == {"at", "asked", "plan", "stored", "missing", "calls", "replans", "errors",
             "replanned", "turns", "intents", "chain", "avoid", "rounds", "faults",
             "uncovered", "tries", "cerrs"}

PlanShaped == /\ DOMAIN work = Session /\ DOMAIN cache = Place
          /\ \A s \in Session : DOMAIN work[s] = PlanChannels

CacheInv == \A place \in Place : \A key, p :
                key \in DOMAIN cache[place] /\ cache[place][key] = p => Excused(place, key, p)

PlanInv == PlanShaped /\ CacheInv /\ \A s \in Session : Owned(work[s])

-----------------------------------------------------------------------------
LEMMA PatchGives ==
  ASSUME NEW w, NEW patch, DOMAIN w = PlanChannels, DOMAIN patch \subseteq PlanChannels
  PROVE  /\ DOMAIN Patched(w, patch) = PlanChannels
         /\ \A x \in PlanChannels :
                Patched(w, patch)[x] = IF x \in DOMAIN patch THEN patch[x] ELSE w[x]
BY DEF Patched

LEMMA ThenEffect ==
  ASSUME PlanShaped, NEW s \in Session, NEW patch, DOMAIN patch \subseteq PlanChannels,
         Then(s, patch)
  PROVE  /\ DOMAIN work' = Session /\ \A d \in Session : DOMAIN work'[d] = PlanChannels
         /\ \A d \in Session \ {s} : work'[d] = work[d]
         /\ \A x \in PlanChannels : work'[s][x] = IF x \in DOMAIN patch THEN patch[x] ELSE work[s][x]
<1>1. PICK w : w = Patched(work[s], patch)
  OBVIOUS
<1>2. /\ DOMAIN w = PlanChannels
      /\ \A x \in PlanChannels : w[x] = IF x \in DOMAIN patch THEN patch[x] ELSE work[s][x]
  BY <1>1, PatchGives DEF PlanShaped
<1>3. work' = [work EXCEPT ![s] = w]
  BY <1>1 DEF Then
<1> QED BY <1>2, <1>3 DEF PlanShaped

(* What excuses a plan that stays where it is.                             *)
LEMMA StaysExcused ==
  ASSUME NEW s \in Session, \A d \in Session \ {s} : work'[d] = work[d],
         leftover \subseteq leftover', NEW place, NEW key, NEW p,
         Excused(place, key, p), Claims(s, place, key, p) => Excused(place, key, p)'
  PROVE  Excused(place, key, p)'
<1>1. CASE Eligible(key, p)
  BY <1>1 DEF Excused
<1>2. CASE <<place, key, p>> \in leftover
  BY <1>2 DEF Excused
<1>3. ASSUME NEW d \in Session, Claims(d, place, key, p)
      PROVE  Excused(place, key, p)'
  <2>1. CASE d = s
    BY <1>3, <2>1
  <2>2. CASE d # s
    <3>1. Claims(d, place, key, p)'
      BY <1>3, <2>2 DEF Claims, Key
    <3> QED BY <3>1 DEF Excused
  <2> QED BY <2>1, <2>2
<1> QED BY <1>1, <1>2, <1>3 DEF Excused

(* A session that claims nothing moves, and plans leave the cache at most. *)
LEMMA UnclaimedMoves ==
  ASSUME PlanInv, NEW s \in Session, \A d \in Session \ {s} : work'[d] = work[d],
         work[s].at # "judge", leftover \subseteq leftover',
         \A place \in Place : \A key \in DOMAIN cache'[place] :
             key \in DOMAIN cache[place] /\ cache'[place][key] = cache[place][key]
  PROVE  CacheInv'
<1>1. ASSUME NEW place \in Place, NEW key, NEW p,
             key \in DOMAIN cache'[place], cache'[place][key] = p
      PROVE  Excused(place, key, p)'
  <2>1. key \in DOMAIN cache[place] /\ cache[place][key] = p
    BY <1>1
  <2>2. Excused(place, key, p) /\ ~Claims(s, place, key, p)
    BY <2>1 DEF PlanInv, CacheInv, Claims
  <2> QED BY <2>2, StaysExcused
<1> QED BY <1>1 DEF CacheInv, Place

(* A session that moves by a patch.                                        *)
LEMMA SessionMoves ==
  ASSUME PlanInv, NEW s \in Session, NEW patch, DOMAIN patch \subseteq PlanChannels,
         Then(s, patch), DOMAIN cache' = Place, CacheInv', NEW w, w = work'[s], Owned(w)
  PROVE  PlanInv'
<1>1. /\ DOMAIN work' = Session /\ \A d \in Session : DOMAIN work'[d] = PlanChannels
      /\ \A d \in Session \ {s} : work'[d] = work[d]
  BY ThenEffect DEF PlanInv
<1>2. PlanShaped'
  BY <1>1 DEF PlanShaped, Place
<1>3. ASSUME NEW d \in Session PROVE Owned(work[d])'
  <2>1. CASE d = s
    BY <2>1 DEF Owned
  <2>2. CASE d # s
    <3>1. Owned(work[d]) /\ work'[d] = work[d]
      BY <1>1, <2>2 DEF PlanInv
    <3> QED BY <3>1 DEF Owned
  <2> QED BY <2>1, <2>2
<1> QED BY <1>2, <1>3 DEF PlanInv

(* One that claims nothing, and leaves the cache as it is.                 *)
LEMMA QuietMoves ==
  ASSUME PlanInv, NEW s \in Session, NEW patch, DOMAIN patch \subseteq PlanChannels,
         Then(s, patch), work[s].at # "judge", UNCHANGED <<cache, leftover>>,
         NEW w, w = work'[s], Owned(w)
  PROVE  PlanInv'
<1>1. \A d \in Session \ {s} : work'[d] = work[d]
  BY ThenEffect DEF PlanInv
<1>2. CacheInv'
  <2>1. leftover \subseteq leftover'
    OBVIOUS
  <2>2. \A place \in Place : \A key \in DOMAIN cache'[place] :
             key \in DOMAIN cache[place] /\ cache'[place][key] = cache[place][key]
    OBVIOUS
  <2> QED BY <1>1, <2>1, <2>2, UnclaimedMoves
<1>3. DOMAIN cache' = Place
  BY DEF PlanInv, PlanShaped
<1> QED BY <1>2, <1>3, SessionMoves

LEMMA OverIs == DOMAIN Over \subseteq PlanChannels /\ Over.at = "idle" /\ "at" \in DOMAIN Over
BY DEF Over, PlanChannels

LEMMA RequestKeeps ==
  ASSUME PlanInv, NEW s \in Session, NEW m, Request(s, m)
  PROVE  PlanInv'
<1> DEFINE patch == [at |-> "lookup", asked |-> m, turns |-> work[s].turns + 1]
<1>1. DOMAIN patch \subseteq PlanChannels /\ Then(s, patch)
  BY DEF Request, PlanChannels
<1>2. work'[s].at = "lookup"
  BY <1>1, ThenEffect DEF PlanChannels, PlanInv
<1>3. PICK w : w = work'[s]
  OBVIOUS
<1>4. Owned(w)
  BY <1>2, <1>3 DEF Owned
<1> HIDE DEF patch
<1> QED BY <1>1, <1>3, <1>4, QuietMoves DEF Request

LEMMA LookupKeeps ==
  ASSUME PlanInv, NEW s \in Session, Lookup(s)
  PROVE  PlanInv'
<1>1. PICK patch : /\ Then(s, patch) /\ DOMAIN patch \subseteq PlanChannels
                   /\ "at" \in DOMAIN patch /\ patch.at \in {"plan", "judge"}
  <2>1. PICK found, kept, b :
            \/ Then(s, [at |-> "plan", stored |-> None])
            \/ Then(s, [at |-> "judge", plan |-> b.plan, stored |-> found,
                              missing |-> Unsourced(b, {})])
    BY DEF Lookup
  <2>2. CASE Then(s, [at |-> "plan", stored |-> None])
    BY <2>2 DEF PlanChannels
  <2>3. CASE Then(s, [at |-> "judge", plan |-> b.plan, stored |-> found,
                            missing |-> Unsourced(b, {})])
    <3>1. PICK lacks : lacks = Unsourced(b, {})
      OBVIOUS
    <3>2. Then(s, [at |-> "judge", plan |-> b.plan, stored |-> found, missing |-> lacks])
      BY <2>3, <3>1
    <3> QED BY <3>2 DEF PlanChannels
  <2> QED BY <2>1, <2>2, <2>3
<1>2. work'[s].at \in {"plan", "judge"}
  BY <1>1, ThenEffect DEF PlanChannels, PlanInv
<1>3. PICK w : w = work'[s]
  OBVIOUS
<1>4. Owned(w)
  BY <1>2, <1>3 DEF Owned
<1> QED BY <1>1, <1>3, <1>4, QuietMoves DEF Lookup

LEMMA EndTurnKeeps ==
  ASSUME PlanInv, NEW s \in Session, EndTurn(s)
  PROVE  PlanInv'
<1>1. work'[s].at = "idle"
  BY ThenEffect, OverIs DEF PlanChannels, PlanInv, EndTurn
<1>2. PICK w : w = work'[s]
  OBVIOUS
<1>3. Owned(w)
  BY <1>1, <1>2 DEF Owned
<1> QED BY <1>2, <1>3, QuietMoves, OverIs DEF EndTurn

LEMMA ReplanKeeps ==
  ASSUME PlanInv, NEW s \in Session, Replan(s)
  PROVE  PlanInv'
<1>1. PICK failed : Then(s, [at |-> "lookup", avoid |-> failed, replanned |-> TRUE,
                     replans |-> IF work[s].replans < MaxReplans THEN work[s].replans + 1
                                 ELSE work[s].replans,
                     errors |-> work[s].replans >= MaxReplans])
  BY DEF Replan
<1>2. PICK replans, errors : Then(s, [at |-> "lookup", avoid |-> failed, replanned |-> TRUE,
                                            replans |-> replans, errors |-> errors])
  BY <1>1
<1> DEFINE patch == [at |-> "lookup", avoid |-> failed, replanned |-> TRUE,
                     replans |-> replans, errors |-> errors]
<1>3. DOMAIN patch \subseteq PlanChannels /\ patch.at = "lookup" /\ "at" \in DOMAIN patch
  BY DEF PlanChannels
<1> HIDE DEF patch
<1>4. Then(s, patch)
  BY <1>2 DEF patch
<1>5. work'[s].at = "lookup"
  BY <1>3, <1>4, ThenEffect DEF PlanChannels, PlanInv
<1>6. PICK w : w = work'[s]
  OBVIOUS
<1>7. Owned(w)
  BY <1>5, <1>6 DEF Owned
<1> QED BY <1>3, <1>4, <1>6, <1>7, QuietMoves DEF Replan

(* A removal takes the key out of the cache where it reaches.              *)
LEMMA RemovalEffect ==
  ASSUME PlanShaped, NEW s \in Session, Removed(s)
  PROVE  /\ DOMAIN cache' = Place /\ leftover \subseteq leftover'
         /\ \A place \in Place : \A key \in DOMAIN cache'[place] :
                key \in DOMAIN cache[place] /\ cache'[place][key] = cache[place][key]
         /\ \A place \in Place : place = Home[s] \/ (place = "redis" /\ up) =>
                Key(work[s]) \notin DOMAIN cache'[place]
<1>1. PICK k : k = Key(work[s])
  OBVIOUS
<1>2. cache' = [place \in Place |-> IF place = Home[s] \/ (place = "redis" /\ up)
                         THEN Restrict(cache[place], DOMAIN cache[place] \ {k})
                         ELSE cache[place]]
  BY <1>1 DEF Removed, Without
<1>3. ASSUME NEW place \in Place, place = Home[s] \/ (place = "redis" /\ up)
      PROVE  /\ DOMAIN cache'[place] = DOMAIN cache[place] \ {k}
             /\ \A key \in DOMAIN cache'[place] : cache'[place][key] = cache[place][key]
  <2>1. cache'[place] = Restrict(cache[place], DOMAIN cache[place] \ {k})
    BY <1>2, <1>3
  <2> QED BY <2>1 DEF Restrict
<1>4. ASSUME NEW place \in Place, ~(place = Home[s] \/ (place = "redis" /\ up))
      PROVE  cache'[place] = cache[place]
  BY <1>2, <1>4
<1>5. leftover \subseteq leftover'
  BY DEF Removed
<1>6. DOMAIN cache' = Place
  BY <1>2
<1>7. ASSUME NEW place \in Place
      PROVE  /\ \A key \in DOMAIN cache'[place] :
                    key \in DOMAIN cache[place] /\ cache'[place][key] = cache[place][key]
             /\ place = Home[s] \/ (place = "redis" /\ up) => k \notin DOMAIN cache'[place]
  BY <1>3, <1>4
<1> QED BY <1>1, <1>5, <1>6, <1>7

LEMMA CompileKeeps ==
  ASSUME PlanInv, NEW s \in Session, Compile(s)
  PROVE  PlanInv'
<1> DEFINE w == work[s]
<1>1. w.at = "compile" /\ Owned(w) /\ PlanShaped /\ DOMAIN w = PlanChannels
  BY DEF PlanInv, Compile, PlanShaped
<1>2. ASSUME NEW chain, Then(s, [at |-> "run", chain |-> chain]), UNCHANGED <<cache, leftover>>
      PROVE  PlanInv'
  <2>1. DOMAIN [at |-> "run", chain |-> chain] \subseteq PlanChannels
    BY DEF PlanChannels
  <2>2. /\ work'[s].at = "run" /\ work'[s].intents = w.intents /\ work'[s].asked = w.asked
        /\ work'[s].plan = w.plan /\ work'[s].errors = w.errors /\ work'[s].faults = w.faults
    BY <1>1, <1>2, <2>1, ThenEffect DEF PlanChannels
  <2>3. PICK j : j = work'[s]
    OBVIOUS
  <2>4. Owned(j)
    BY <1>1, <2>2, <2>3 DEF Owned
  <2> QED BY <1>1, <1>2, <2>1, <2>3, <2>4, QuietMoves
<1>3. ASSUME NEW patch, DOMAIN patch \subseteq PlanChannels, Then(s, patch),
             "at" \in DOMAIN patch, patch.at \in {"lookup", "idle"}, Removed(s)
      PROVE  PlanInv'
  <2>1. work'[s].at \in {"lookup", "idle"} /\ \A d \in Session \ {s} : work'[d] = work[d]
    BY <1>1, <1>3, ThenEffect DEF PlanChannels
  <2>2. CacheInv' /\ DOMAIN cache' = Place
    BY <1>1, <1>3, <2>1, RemovalEffect, UnclaimedMoves
  <2>3. PICK j : j = work'[s]
    OBVIOUS
  <2>4. Owned(j)
    BY <2>1, <2>3 DEF Owned
  <2> QED BY <1>3, <2>2, <2>3, <2>4, SessionMoves
<1>4. CASE \E chain : Then(s, [at |-> "run", chain |-> chain]) /\ UNCHANGED <<cache, leftover>>
  BY <1>2, <1>4
<1>5. CASE /\ Then(s, IF w.tries < 2 /\ w.replans < MaxReplans
                            THEN [at |-> "lookup", cerrs |-> TRUE, tries |-> w.tries + 1,
                                  replans |-> w.replans + 1]
                            ELSE Patched(Over, [cerrs |-> TRUE]))
           /\ Removed(s)
  <2>1. PICK n, r : n = w.tries + 1 /\ r = w.replans + 1
    OBVIOUS
  <2>2. CASE Then(s, [at |-> "lookup", cerrs |-> TRUE, tries |-> n, replans |-> r])
    <3> DEFINE patch == [at |-> "lookup", cerrs |-> TRUE, tries |-> n, replans |-> r]
    <3>1. DOMAIN patch \subseteq PlanChannels /\ "at" \in DOMAIN patch /\ patch.at = "lookup"
      BY DEF PlanChannels
    <3> HIDE DEF patch
    <3>2. Then(s, patch)
      BY <2>2 DEF patch
    <3> QED BY <1>3, <1>5, <3>1, <3>2
  <2>3. CASE Then(s, Patched(Over, [cerrs |-> TRUE]))
    <3> DEFINE patch == Patched(Over, [cerrs |-> TRUE])
    <3>1. DOMAIN patch \subseteq PlanChannels /\ "at" \in DOMAIN patch /\ patch.at = "idle"
      BY OverIs DEF PlanChannels, Patched
    <3> HIDE DEF patch
    <3>2. Then(s, patch)
      BY <2>3 DEF patch
    <3> QED BY <1>3, <1>5, <3>1, <3>2
  <2>4. \/ Then(s, [at |-> "lookup", cerrs |-> TRUE, tries |-> n, replans |-> r])
        \/ Then(s, Patched(Over, [cerrs |-> TRUE]))
    <3>1. CASE w.tries < 2 /\ w.replans < MaxReplans
      BY <1>5, <2>1, <3>1
    <3>2. CASE ~(w.tries < 2 /\ w.replans < MaxReplans)
      BY <1>5, <3>2
    <3> QED BY <3>1, <3>2
  <2> QED BY <2>2, <2>3, <2>4
<1> QED BY <1>4, <1>5 DEF Compile

(* What a session that goes leaves in a place is remembered.               *)
LEMMA RemainsHolds ==
  ASSUME NEW s \in Session, NEW from, NEW place \in from, NEW key, NEW p,
         Claims(s, place, key, p), key \in DOMAIN cache[place], cache[place][key] = p
  PROVE  <<place, key, p>> \in Remains(s, from)
BY DEF Claims, Remains

LEMMA CancelKeeps ==
  ASSUME PlanInv, NEW s \in Session, Cancel(s)
  PROVE  PlanInv'
<1>1. /\ Then(s, Over) /\ leftover' = leftover \cup Remains(s, Place)
      /\ cache' = cache
  BY DEF Cancel
<1>2. work'[s].at = "idle" /\ \A d \in Session \ {s} : work'[d] = work[d]
  BY <1>1, ThenEffect, OverIs DEF PlanChannels, PlanInv
<1>3. CacheInv'
  <2>1. ASSUME NEW place \in Place, NEW key, NEW p,
               key \in DOMAIN cache'[place], cache'[place][key] = p
        PROVE  Excused(place, key, p)'
    <3>1. key \in DOMAIN cache[place] /\ cache[place][key] = p
      BY <1>1, <2>1
    <3>2. Excused(place, key, p)
      BY <3>1 DEF PlanInv, CacheInv
    <3>3. Claims(s, place, key, p) => <<place, key, p>> \in leftover'
      BY <1>1, <3>1, RemainsHolds
    <3>4. Claims(s, place, key, p) => Excused(place, key, p)'
      BY <3>3 DEF Excused
    <3>5. leftover \subseteq leftover'
      BY <1>1
    <3> QED BY <1>2, <3>2, <3>4, <3>5, StaysExcused
  <2> QED BY <2>1 DEF CacheInv, Place
<1>4. PICK w : w = work'[s]
  OBVIOUS
<1>5. Owned(w)
  BY <1>2, <1>4 DEF Owned
<1>6. DOMAIN cache' = Place
  BY <1>1 DEF PlanInv, PlanShaped
<1> QED BY <1>1, <1>3, <1>4, <1>5, <1>6, OverIs, SessionMoves

(* What a plan put in the cache comes to.                                  *)
LEMMA PutEffect ==
  ASSUME PlanShaped, NEW place \in Place, NEW key, NEW p, cache' = Put(place, key, p)
  PROVE  /\ DOMAIN cache' = Place
         /\ \A x \in Place : \A k \in DOMAIN cache'[x] :
                \/ x = place /\ k = key /\ cache'[x][k] = p
                \/ k \in DOMAIN cache[x] /\ cache'[x][k] = cache[x][k]
<1>1. PICK c : c = [k \in DOMAIN cache[place] \cup {key} |-> IF k = key THEN p ELSE cache[place][k]]
  OBVIOUS
<1>2. cache' = [cache EXCEPT ![place] = c]
  BY <1>1 DEF Put
<1>3. \A k \in DOMAIN c : (k = key /\ c[k] = p) \/ (k \in DOMAIN cache[place] /\ c[k] = cache[place][k])
  BY <1>1
<1> QED BY <1>2, <1>3 DEF PlanShaped

LEMMA PlanKeeps ==
  ASSUME PlanInv, NEW s \in Session, Plan(s)
  PROVE  PlanInv'
<1> DEFINE w == work[s]
<1>1. w.at = "plan" /\ UNCHANGED leftover /\ PlanShaped /\ DOMAIN w = PlanChannels
  BY DEF Plan, PlanInv, PlanShaped
<1>2. ASSUME Then(s, Over), UNCHANGED cache
      PROVE  PlanInv'
  <2>1. work'[s].at = "idle"
    BY <1>1, <1>2, ThenEffect, OverIs DEF PlanChannels
  <2>2. PICK j : j = work'[s]
    OBVIOUS
  <2>3. Owned(j)
    BY <2>1, <2>2 DEF Owned
  <2> QED BY <1>1, <1>2, <2>2, <2>3, OverIs, QuietMoves
<1>3. ASSUME NEW n, Then(s, [at |-> "judge", plan |-> <<>>, stored |-> None, errors |-> TRUE,
                                   calls |-> n]), UNCHANGED cache
      PROVE  PlanInv'
  <2> DEFINE patch == [at |-> "judge", plan |-> <<>>, stored |-> None, errors |-> TRUE, calls |-> n]
  <2>1. DOMAIN patch \subseteq PlanChannels /\ "at" \in DOMAIN patch /\ patch.at = "judge"
    BY DEF PlanChannels
  <2> HIDE DEF patch
  <2>2. Then(s, patch)
    BY <1>3 DEF patch
  <2>3. work'[s].at = "judge"
    BY <1>1, <2>1, <2>2, ThenEffect DEF PlanChannels
  <2>4. PICK j : j = work'[s]
    OBVIOUS
  <2>5. Owned(j)
    BY <2>3, <2>4 DEF Owned
  <2> QED BY <1>1, <1>3, <2>1, <2>2, <2>4, <2>5, QuietMoves
<1>4. ASSUME NEW p, NEW lacks, NEW kept, NEW e, NEW n, NEW puts \in BOOLEAN,
             Then(s, [at |-> "judge", plan |-> p, intents |-> w.asked, missing |-> lacks,
                            stored |-> kept, errors |-> e, calls |-> n]),
             puts => kept = p,
             cache' = IF puts THEN Put(Target(s), Key(w), p) ELSE cache
      PROVE  PlanInv'
  <2> DEFINE patch == [at |-> "judge", plan |-> p, intents |-> w.asked, missing |-> lacks,
                       stored |-> kept, errors |-> e, calls |-> n]
  <2>1. /\ DOMAIN patch \subseteq PlanChannels /\ {"at", "plan", "intents", "stored"} \subseteq DOMAIN patch
        /\ "asked" \notin DOMAIN patch /\ "chain" \notin DOMAIN patch
        /\ patch.at = "judge" /\ patch.plan = p /\ patch.intents = w.asked /\ patch.stored = kept
    BY DEF PlanChannels
  <2> HIDE DEF patch
  <2>2. Then(s, patch)
    BY <1>4 DEF patch
  <2>3. /\ work'[s].at = "judge" /\ work'[s].plan = p /\ work'[s].intents = work'[s].asked
        /\ work'[s].stored = kept /\ work'[s].asked = w.asked /\ work'[s].chain = w.chain
        /\ \A d \in Session \ {s} : work'[d] = work[d]
    BY <1>1, <2>1, <2>2, ThenEffect DEF PlanChannels
  <2>4. PICK j : j = work'[s]
    OBVIOUS
  <2>5. Owned(j)
    BY <2>3, <2>4 DEF Owned
  <2>6. CASE ~puts
    BY <1>1, <1>4, <2>1, <2>2, <2>4, <2>5, <2>6, QuietMoves
  <2>7. CASE puts
    <3>1. PICK key : key = Key(w)
      OBVIOUS
    <3>2. PICK there \in Place : there = Target(s) /\ there \in {"redis", Home[s]}
      BY DEF Target, Place
    <3>3. cache' = Put(there, key, p)
      BY <1>4, <2>7, <3>1, <3>2
    <3>4. CacheInv'
      <4>1. ASSUME NEW place \in Place, NEW k, NEW q,
                   k \in DOMAIN cache'[place], cache'[place][k] = q
            PROVE  Excused(place, k, q)'
        <5>1. CASE place = there /\ k = key /\ q = p
          <6>1. Claims(s, place, k, q)'
            BY <1>4, <2>3, <2>7, <3>1, <3>2, <5>1 DEF Claims, Key
          <6> QED BY <6>1 DEF Excused
        <5>2. CASE k \in DOMAIN cache[place] /\ cache[place][k] = q
          <6>1. Excused(place, k, q) /\ ~Claims(s, place, k, q)
            BY <1>1, <5>2 DEF PlanInv, CacheInv, Claims
          <6> QED BY <1>1, <2>3, <6>1, StaysExcused
        <5> QED BY <1>1, <3>3, <4>1, <5>1, <5>2, PutEffect
      <4> QED BY <4>1 DEF CacheInv, Place
    <3>5. DOMAIN cache' = Place
      BY <1>1, <3>3, PutEffect
    <3> QED BY <2>1, <2>2, <2>4, <2>5, <3>4, <3>5, SessionMoves
  <2> QED BY <2>6, <2>7
<1>5. \/ Then(s, Over) /\ UNCHANGED cache
      \/ \E n : Then(s, [at |-> "judge", plan |-> <<>>, stored |-> None, errors |-> TRUE,
                               calls |-> n]) /\ UNCHANGED cache
      \/ \E p, lacks, kept, e, n : \E puts \in BOOLEAN :
            /\ Then(s, [at |-> "judge", plan |-> p, intents |-> w.asked, missing |-> lacks,
                              stored |-> kept, errors |-> e, calls |-> n])
            /\ puts => kept = p
            /\ cache' = IF puts THEN Put(Target(s), Key(w), p) ELSE cache
  <2>1. PICK r \in Drafts(w) :
          \/ /\ Then(s, [at |-> "judge", plan |-> <<>>, stored |-> None, errors |-> TRUE,
                               calls |-> r.calls])
             /\ UNCHANGED cache
          \/ Then(s, Over) /\ UNCHANGED cache
          \/ \E q \in Settled(w, r) : Binds(s, q)
    BY Zenon DEF Plan
  <2>2. CASE \E n : Then(s, [at |-> "judge", plan |-> <<>>, stored |-> None, errors |-> TRUE,
                                   calls |-> n]) /\ UNCHANGED cache
    BY <2>2
  <2>3. CASE Then(s, Over) /\ UNCHANGED cache
    BY <2>3
  <2>4. CASE \E q \in Settled(w, r) : Binds(s, q)
    <3>1. PICK q : Binds(s, q)
      BY <2>4
    <3> DEFINE b     == Bound(q.plan)
               model == b.open # {} /\ q.calls < MaxPlanCalls
               final(found)  == Stripped(Collapsed(Extracted(b.plan, found)))
               lacks(found) == Unsourced(b, found)
               safe(found)  == final(found) # <<>> /\ ~UnsafeToCache(final(found))
    <3>2. PICK found :
             /\ Then(s, [at |-> "judge", plan |-> final(found), intents |-> w.asked,
                               missing |-> lacks(found),
                               stored |-> IF safe(found) THEN final(found) ELSE None,
                               errors |-> w.errors \/ q.errors,
                               calls |-> q.calls + IF model THEN 1 ELSE 0])
             /\ cache' = IF safe(found) THEN Put(Target(s), Key(w), final(found))
                                        ELSE cache
      BY <3>1, Zenon DEF Binds
    <3> DEFINE p     == final(found)
               lack  == lacks(found)
               puts  == safe(found)
               kept  == IF puts THEN p ELSE None
               e     == w.errors \/ q.errors
               n     == q.calls + IF model THEN 1 ELSE 0
    <3>3. /\ Then(s, [at |-> "judge", plan |-> p, intents |-> w.asked, missing |-> lack,
                            stored |-> kept, errors |-> e, calls |-> n])
          /\ cache' = IF puts THEN Put(Target(s), Key(w), p) ELSE cache
      BY <3>2
    <3>4. (puts => kept = p) /\ puts \in BOOLEAN
      OBVIOUS
    <3> HIDE DEF b, model, p, puts, lack, kept, e, n
    <3> QED BY <3>3, <3>4
  <2> QED BY <2>1, <2>2, <2>3, <2>4, Zenon
<1> QED BY <1>2, <1>3, <1>4, <1>5

(* What the binder left open is held against a plan or is not there.       *)
LEMMA ClearIsClear ==
  ASSUME NEW p, NEW chain, NEW units, NEW missing, Findings(p, chain, units, missing) = {}
  PROVE  /\ Findings(p, chain, units, {}) = {}
         /\ p # <<>> => Uncovered(Ops(p), units) = {}
<1>1. CASE p = <<>>
  BY <1>1 DEF Findings
<1>2. CASE p # <<>>
  <2>1. /\ IllFormed(p) = {} /\ IllGiven(p) = {} /\ Incomplete(p, chain) = {}
        /\ Unfaithful(p, units) = {} /\ Unfilled(p, missing) = {}
    BY <1>2 DEF Findings
  <2>2. {i \in DOMAIN p : MissingInputs(p[i]) # {}} = {}
    BY <2>1 DEF Unfilled
  <2>3. Unfilled(p, {}) = {}
    BY <2>2 DEF Unfilled
  <2>4. Uncovered(Ops(p), units) = {}
    <3>1. Is("coverage", Uncovered(Ops(p), units) # {}) = {}
      BY <2>1 DEF Unfaithful
    <3> QED BY <3>1 DEF Is
  <2> QED BY <1>2, <2>1, <2>3, <2>4 DEF Findings
<1> QED BY <1>1, <1>2

(* The plan proceeds only when nothing is wrong with it, or with an error  *)
(* that says what was dropped, or with what is wrong on record.            *)
Decided(d, found) ==
    /\ DOMAIN d \subseteq PlanChannels /\ "at" \in DOMAIN d
    /\ d.at \in {"compile", "lookup", "idle"}
    /\ d.at = "compile" =>
           /\ "asked" \notin DOMAIN d /\ "intents" \notin DOMAIN d
           /\ \/ found = {} /\ "plan" \notin DOMAIN d
              \/ "errors" \in DOMAIN d /\ d.errors = TRUE
              \/ found # {} /\ "faults" \in DOMAIN d /\ d.faults = found

LEMMA DecisionIs ==
  ASSUME NEW s \in Session, NEW found, NEW units, NEW d, d = Decision(s, found, units)
  PROVE  Decided(d, found)
<1>1. CASE found = {}
  <2>1. d = [at |-> "compile", faults |-> {}]
    BY <1>1 DEF Decision
  <2> QED BY <1>1, <2>1 DEF PlanChannels, Decided
<1>2. CASE found # {} /\ Drops(found)
  <2>1. PICK left : d = [at |-> "compile", faults |-> {}, errors |-> TRUE, plan |-> left]
    BY <1>2 DEF Decision
  <2>2. /\ DOMAIN d \subseteq PlanChannels /\ "at" \in DOMAIN d /\ d.at = "compile"
        /\ "asked" \notin DOMAIN d /\ "intents" \notin DOMAIN d
        /\ "errors" \in DOMAIN d /\ d.errors = TRUE
    BY <2>1 DEF PlanChannels
  <2> QED BY <2>2 DEF Decided
<1>3. CASE found # {} /\ ~Drops(found) /\ d = LastResort(s, found, units)
  <2>1. \/ d = Patched(Over, [faults |-> found])
        \/ d = [at |-> "compile", faults |-> found]
    BY <1>3 DEF LastResort
  <2>2. CASE d = Patched(Over, [faults |-> found])
    <3>1. DOMAIN d \subseteq PlanChannels /\ "at" \in DOMAIN d /\ d.at = "idle"
      BY <2>2, OverIs DEF PlanChannels, Patched
    <3> QED BY <3>1 DEF Decided
  <2>3. CASE d = [at |-> "compile", faults |-> found]
    BY <1>3, <2>3 DEF PlanChannels, Decided
  <2> QED BY <2>1, <2>2, <2>3
<1>4. CASE \E n, r : d = [at |-> "lookup", faults |-> found, rounds |-> n, replans |-> r]
  <2>1. DOMAIN d \subseteq PlanChannels /\ "at" \in DOMAIN d /\ d.at = "lookup"
    BY <1>4 DEF PlanChannels
  <2> QED BY <2>1 DEF Decided
<1>5. \/ found = {} \/ (found # {} /\ Drops(found))
      \/ (found # {} /\ ~Drops(found) /\ d = LastResort(s, found, units))
      \/ \E n, r : d = [at |-> "lookup", faults |-> found, rounds |-> n, replans |-> r]
  BY DEF Decision
<1> QED BY <1>1, <1>2, <1>3, <1>4, <1>5

LEMMA JudgeKeeps ==
  ASSUME PlanInv, NEW s \in Session, Judge(s)
  PROVE  PlanInv'
<1> DEFINE w == work[s]
<1>1. PICK m : m = IF w.intents = None THEN w.asked ELSE w.intents
  OBVIOUS
<1>2. PICK found : found = Findings(w.plan, w.chain, Units[m], w.missing)
  OBVIOUS
<1>3. PICK units : units = Units[m]
  OBVIOUS
<1>4. PICK d : d = Decision(s, found, units)
  OBVIOUS
<1>5. PICK unserved : Then(s, Patched(d, [stored |-> None, uncovered |-> unserved]))
  BY <1>1, <1>2, <1>3, <1>4 DEF Judge, Detected
<1>6. /\ w.at = "judge" /\ PlanShaped /\ DOMAIN w = PlanChannels
      /\ IF found = {} THEN UNCHANGED <<cache, leftover>> ELSE Removed(s)
  BY <1>1, <1>2 DEF Judge, Detected, PlanInv, PlanShaped
<1> DEFINE patch == Patched(d, [stored |-> None, uncovered |-> unserved])
<1>7. /\ DOMAIN patch = DOMAIN d \cup {"stored", "uncovered"}
      /\ \A x \in DOMAIN d : x \notin {"stored", "uncovered"} => patch[x] = d[x]
  BY DEF Patched
<1> HIDE DEF patch
<1>8. Decided(d, found)
  BY <1>4, DecisionIs
<1>9. DOMAIN patch \subseteq PlanChannels /\ Then(s, patch)
  BY <1>5, <1>7, <1>8 DEF PlanChannels, Decided, patch
<1>10. \A x \in PlanChannels : work'[s][x] = IF x \in DOMAIN patch THEN patch[x] ELSE w[x]
  BY <1>6, <1>9, ThenEffect
<1>11. \A e \in Session \ {s} : work'[e] = work[e]
  BY <1>6, <1>9, ThenEffect
<1>12. PICK j : j = work'[s]
  OBVIOUS
<1>13. Owned(j)
  <2>1. SUFFICES ASSUME j.at \in {"compile", "run"}, j.intents = j.asked, j.plan # <<>>,
                        Uncovered(Ops(j.plan), Units[j.asked]) # {}
                 PROVE  j.errors \/ j.faults # {}
    BY DEF Owned
  <2>2. d.at = "compile"
    <3>1. j.at = d.at
      BY <1>7, <1>8, <1>10, <1>12 DEF PlanChannels, Decided
    <3> QED BY <1>8, <2>1, <3>1 DEF Decided
  <2>3. j.asked = w.asked /\ j.intents = w.intents
    BY <1>7, <1>8, <1>10, <1>12, <2>2 DEF PlanChannels, Decided
  <2>4. CASE found = {} /\ "plan" \notin DOMAIN d
    <3>1. j.plan = w.plan
      BY <1>7, <1>10, <1>12, <2>4 DEF PlanChannels
    <3>2. m = j.asked
      BY <1>1, <2>1, <2>3
    <3>3. Findings(w.plan, w.chain, Units[m], w.missing) = {}
      BY <1>2, <2>4
    <3>4. w.plan # <<>> => Uncovered(Ops(w.plan), Units[m]) = {}
      BY <3>3, ClearIsClear
    <3> QED BY <2>1, <3>1, <3>2, <3>4
  <2>5. CASE "errors" \in DOMAIN d /\ d.errors = TRUE
    BY <1>7, <1>10, <1>12, <2>5 DEF PlanChannels
  <2>6. CASE found # {} /\ "faults" \in DOMAIN d /\ d.faults = found
    BY <1>7, <1>10, <1>12, <2>6 DEF PlanChannels
  <2> QED BY <1>8, <2>2, <2>4, <2>5, <2>6 DEF Decided
<1>14. leftover \subseteq leftover' /\ DOMAIN cache' = Place
       /\ \A place \in Place : \A key \in DOMAIN cache'[place] :
              key \in DOMAIN cache[place] /\ cache'[place][key] = cache[place][key]
  <2>1. CASE found = {}
    BY <1>6, <2>1 DEF PlanShaped
  <2>2. CASE found # {}
    BY <1>6, <2>2, RemovalEffect
  <2> QED BY <2>1, <2>2
<1>15. CacheInv'
  <2>1. ASSUME NEW place \in Place, NEW key, NEW p,
               key \in DOMAIN cache'[place], cache'[place][key] = p
        PROVE  Excused(place, key, p)'
    <3>1. key \in DOMAIN cache[place] /\ cache[place][key] = p
      BY <1>14, <2>1
    <3>2. Excused(place, key, p)
      BY <3>1 DEF PlanInv, CacheInv
    <3>3. ASSUME Claims(s, place, key, p) PROVE Excused(place, key, p)'
      <4>1. /\ key = <<w.asked, w.chain>> /\ p = w.plan /\ w.intents = w.asked
            /\ place \in {"redis", Home[s]} /\ w.stored = p
        BY <3>3 DEF Claims, Key
      <4>2. m = w.asked
        BY <1>1, <4>1
      <4>3. CASE found = {}
        <5>1. Findings(p, w.chain, Units[w.asked], {}) = {}
          BY <1>2, <4>1, <4>2, <4>3, ClearIsClear
        <5>2. Eligible(key, p)
          BY <4>1, <5>1 DEF Eligible
        <5> QED BY <5>2 DEF Excused
      <4>4. CASE found # {}
        <5>1. Removed(s) /\ Key(w) = key
          BY <1>6, <4>4, <4>1 DEF Key
        <5>2. place = "redis" /\ ~up
          BY <1>6, <2>1, <4>1, <5>1, RemovalEffect
        <5>3. <<place, key, p>> \in Remains(s, {"redis"})
          BY <3>1, <3>3, <5>2, RemainsHolds
        <5>4. <<place, key, p>> \in leftover'
          BY <5>1, <5>2, <5>3 DEF Removed
        <5> QED BY <5>4 DEF Excused
      <4> QED BY <4>3, <4>4
    <3> QED BY <1>11, <1>14, <3>2, <3>3, StaysExcused
  <2> QED BY <2>1 DEF CacheInv, Place
<1> QED BY <1>9, <1>12, <1>13, <1>14, <1>15, SessionMoves

LEMMA PlanStart == ASSUME PlanInit PROVE PlanInv
<1>1. PICK w : w = Patched(Kept, Over)
  OBVIOUS
<1>2. work = [s \in Session |-> w]
  BY <1>1 DEF PlanInit
<1>3. DOMAIN w = PlanChannels
  BY <1>1 DEF Patched, Kept, Over, PlanChannels
<1>4. w.at = "idle"
  BY <1>1, OverIs DEF Patched
<1>5. \A s \in Session : Owned(work[s])
  BY <1>2, <1>4 DEF Owned
<1>6. DOMAIN cache = Place /\ \A place \in Place : DOMAIN cache[place] = {}
  BY DEF PlanInit
<1> QED BY <1>2, <1>3, <1>5, <1>6 DEF PlanInv, PlanShaped, CacheInv

LEMMA PlanStep == ASSUME PlanInv, [PlanNext]_planVars PROVE PlanInv'
<1>1. CASE UNCHANGED <<work, cache, leftover>>
  BY <1>1 DEF PlanInv, PlanShaped, CacheInv, Excused, Claims, Owned, Place, Key
<1>2. ASSUME NEW s \in Session,
             \/ \E m \in Message : Request(s, m)
             \/ Lookup(s) \/ Plan(s) \/ Judge(s)
      PROVE  PlanInv'
  BY <1>2, RequestKeeps, LookupKeeps, PlanKeeps, JudgeKeeps
<1>3. ASSUME NEW s \in Session,
             Compile(s) \/ Replan(s) \/ EndTurn(s) \/ Cancel(s)
      PROVE  PlanInv'
  BY <1>3, CompileKeeps, ReplanKeeps, EndTurnKeeps, CancelKeeps
<1>4. CASE Outage \/ Heal
  BY <1>1, <1>4 DEF Outage, Heal
<1>5. CASE PlanNext
  BY <1>2, <1>3, <1>4, <1>5 DEF PlanNext
<1> QED BY <1>1, <1>5 DEF planVars

LEMMA PlanAlways == PlanSpec => []PlanInv
<1>1. PlanInit => PlanInv
  BY PlanStart
<1>2. PlanInv /\ [PlanNext]_planVars => PlanInv'
  BY PlanStep
<1> QED BY <1>1, <1>2, PTL DEF PlanSpec

(* For any capabilities, messages and drafts, outages and cancellations, a *)
(* plan the validator rejects leaves the cache with the session that filed *)
(* it (semantic_parser_node.py, plan_validator_node.py, cache.py).         *)
THEOREM RejectedLeave == PlanSpec => []RejectedPlansLeave
<1>1. ASSUME PlanInv PROVE RejectedPlansLeave
  <2>1. ASSUME NEW place \in Place, NEW key \in DOMAIN cache[place], NEW p, p = cache[place][key]
        PROVE  \/ Eligible(key, p)
               \/ \E s \in Session : /\ work[s].at = "judge" /\ work[s].stored = p
                                     /\ Key(work[s]) = key
               \/ <<place, key, p>> \in leftover
    <3>1. Excused(place, key, p)
      BY <1>1, <2>1 DEF PlanInv, CacheInv
    <3> QED BY <3>1 DEF Excused, Claims
  <2> QED BY <2>1 DEF RejectedPlansLeave
<1> QED BY <1>1, PlanAlways, PTL

(* For any of these, a plan that was judged by the intents of its own      *)
(* message and leaves one of them out runs with an error or a finding on   *)
(* record (plan_validator_node.py).  Plans from the cache that are judged  *)
(* by the intents of an earlier message are not meant.                     *)
THEOREM PartialIsSaid == PlanSpec => []NeverSilentlyPartial
<1>1. ASSUME PlanInv PROVE NeverSilentlyPartial
  BY <1>1 DEF PlanInv, Owned, NeverSilentlyPartial
<1> QED BY <1>1, PlanAlways, PTL

-----------------------------------------------------------------------------
(***************************************************************************)
(* Graph passes.  Kahn's rounds schedule an acyclic graph, and every pass  *)
(* narrows a schedule to one.                                              *)
(***************************************************************************)

(* The least-number principle, for a set of numbers.                       *)
LEMMA LeastNatural ==
  ASSUME NEW S \in SUBSET Nat, S # {}
  PROVE  \E m \in S : \A k \in S : m <= k
<1> DEFINE R == OpToRel(<, Nat)
<1>1. IsWellFoundedOn(R, Nat)
  BY NatLessThanWellFounded
<1>2. \A j, k \in Nat : j < k => <<j, k>> \in R
  BY DEF OpToRel
<1> HIDE DEF R
<1>3. \E m \in S : \A k \in S : ~(<<k, m>> \in R)
  BY <1>1, WFMin
<1>4. PICK m \in S : \A k \in S : <<k, m>> \notin R
  BY <1>3
<1>5. ASSUME NEW k \in S PROVE m <= k
  <2>1. <<k, m>> \notin R /\ k \in Nat /\ m \in Nat
    BY <1>4
  <2>2. ~(k < m)
    BY <1>2, <2>1
  <2> QED BY <2>1, <2>2
<1> QED BY <1>5

LEMMA MinFacts ==
  ASSUME NEW S \in SUBSET Nat, S # {}
  PROVE  Min(S) \in S /\ \A k \in S : Min(S) <= k
BY LeastNatural DEF Min

-----------------------------------------------------------------------------
(* Kahn's algorithm.  Ready(nodes, done): what can run after those done.   *)
Ready(nodes, done) == {n \in DOMAIN nodes : nodes[n].deps \subseteq done}

RoundsFor(nodes, f, n) ==
  f = [i \in 0..n |-> IF i = 0 THEN {} ELSE Ready(nodes, f[i - 1])]

(* The rounds are well defined: a least number of rounds that were not     *)
(* would be the successor of one that is.                                  *)
LEMMA RoundsExist ==
  ASSUME NEW nodes, NEW N \in Nat
  PROVE  \E f : RoundsFor(nodes, f, N)
<1> DEFINE Bad == {n \in Nat : ~ \E f : RoundsFor(nodes, f, n)}
<1>1. SUFFICES Bad = {}
  OBVIOUS
<1>2. SUFFICES ASSUME Bad # {} PROVE FALSE
  OBVIOUS
<1>3. PICK m \in Bad : \A k \in Bad : m <= k
  BY <1>2, LeastNatural
<1>4. m # 0
  <2> DEFINE f == [i \in 0..0 |-> {}]
  <2>1. RoundsFor(nodes, f, 0)
    BY DEF RoundsFor
  <2> QED BY <2>1
<1>5. m \in Nat /\ m - 1 \in Nat /\ m - 1 \notin Bad
  BY <1>3, <1>4
<1>6. PICK f : RoundsFor(nodes, f, m - 1)
  BY <1>5
<1> DEFINE g == [i \in 0..m |-> IF i = m THEN Ready(nodes, f[m - 1]) ELSE f[i]]
<1>7. \A i \in 0..(m - 1) : f[i] = IF i = 0 THEN {} ELSE Ready(nodes, f[i - 1])
  BY <1>6 DEF RoundsFor
<1>8. \A i \in 0..m : g[i] = IF i = 0 THEN {} ELSE Ready(nodes, g[i - 1])
  BY <1>4, <1>5, <1>7
<1>9. RoundsFor(nodes, g, m)
  BY <1>8 DEF RoundsFor
<1> QED BY <1>9, <1>5

LEMMA ReachedRounds ==
  ASSUME NEW nodes, IsFiniteSet(DOMAIN nodes)
  PROVE  /\ Cardinality(DOMAIN nodes) \in Nat
         /\ RoundsFor(nodes, Reached(nodes), Cardinality(DOMAIN nodes))
<1>1. Cardinality(DOMAIN nodes) \in Nat
  BY FS_CardinalityType
<1>2. \E f : RoundsFor(nodes, f, Cardinality(DOMAIN nodes))
  BY <1>1, RoundsExist
<1>3. Reached(nodes) = CHOOSE f : RoundsFor(nodes, f, Cardinality(DOMAIN nodes))
  BY DEF Reached, RoundsFor, Ready
<1> QED BY <1>1, <1>2, <1>3

(* A round only adds to the ones before it.                                *)
LEMMA RoundsGrow ==
  ASSUME NEW nodes, NEW N \in Nat, NEW f, RoundsFor(nodes, f, N)
  PROVE  \A i, j \in 0..N : i <= j => f[i] \subseteq f[j]
<1>1. \A i \in 0..N : f[i] = IF i = 0 THEN {} ELSE Ready(nodes, f[i - 1])
  BY DEF RoundsFor
<1>2. \A i \in 1..N : f[i - 1] \subseteq f[i]
  <2> DEFINE Bad == {i \in 1..N : ~(f[i - 1] \subseteq f[i])}
  <2>1. SUFFICES ASSUME Bad # {} PROVE FALSE
    OBVIOUS
  <2>2. PICK m \in Bad : \A k \in Bad : m <= k
    <3>1. Bad \in SUBSET Nat
      OBVIOUS
    <3> QED BY <2>1, <3>1, LeastNatural
  <2>3. m # 1
    BY <1>1, <2>2
  <2>4. m \in 1..N /\ m - 1 \in 1..N /\ m - 1 \notin Bad
    BY <2>2, <2>3
  <2>5. f[m - 2] \subseteq f[m - 1]
    BY <2>4
  <2>6. f[m - 1] = Ready(nodes, f[m - 2]) /\ f[m] = Ready(nodes, f[m - 1])
    BY <1>1, <2>4
  <2>7. f[m - 1] \subseteq f[m]
    BY <2>5, <2>6 DEF Ready
  <2> QED BY <2>2, <2>7
<1>3. SUFFICES ASSUME NEW i \in 0..N PROVE \A j \in 0..N : i <= j => f[i] \subseteq f[j]
  OBVIOUS
<1> DEFINE Bad == {j \in 0..N : i <= j /\ ~(f[i] \subseteq f[j])}
<1>4. SUFFICES ASSUME Bad # {} PROVE FALSE
  OBVIOUS
<1>5. PICK m \in Bad : \A k \in Bad : m <= k
  <2>1. Bad \in SUBSET Nat
    OBVIOUS
  <2> QED BY <1>4, <2>1, LeastNatural
<1>6. m # i
  BY <1>5
<1>7. m \in 1..N /\ m - 1 \in 0..N /\ i <= m - 1 /\ m - 1 \notin Bad
  BY <1>5, <1>6
<1> QED BY <1>2, <1>5, <1>7

-----------------------------------------------------------------------------
(* What the passes keep of a graph.  Its nodes stay calls of the plan.      *)
PhysicalFields == {"op", "kind", "lit", "inputs", "uses", "over", "deps", "echo", "candidates",
                   "ranked"}

OfThePlan(g) ==
  /\ DOMAIN g = {"nodes", "waves"} /\ DOMAIN g.nodes \subseteq Known
  /\ \A i \in DOMAIN g.nodes :
        /\ DOMAIN g.nodes[i] = PhysicalFields /\ g.nodes[i].kind \in {"tool", "map"}
        /\ g.nodes[i].op = Logical(i).op /\ g.nodes[i].deps \subseteq Known
        /\ g.nodes[i].echo => Logical(i).echo
        /\ g.nodes[i].kind = "map" => Logical(i).over # 0

(* Its waves run every node once, and what a call needs before it.          *)
Scheduled(g) ==
  /\ DOMAIN g.waves \subseteq Nat
  /\ \A w \in DOMAIN g.waves : g.waves[w] \subseteq DOMAIN g.nodes
  /\ \A i \in DOMAIN g.nodes : \E w \in DOMAIN g.waves : i \in g.waves[w]
  /\ \A v, w \in DOMAIN g.waves : v # w => g.waves[v] \cap g.waves[w] = {}
  /\ \A i \in DOMAIN g.nodes : \A u \in WaitsFor(i) \cap DOMAIN g.nodes :
        \A v, w \in DOMAIN g.waves : u \in g.waves[v] /\ i \in g.waves[w] => v < w

(* What is gone could be repeated, or something else stands for it.         *)
Spared(i) == Logical(i).op \in Idempotent \/ Logical(i).echo \/ Logical(i).over # 0

Accounted(g) ==
  /\ \A i \in Known \ DOMAIN g.nodes : Spared(i)
  /\ \A i \in DOMAIN g.nodes : \A d \in g.nodes[i].deps \ DOMAIN g.nodes :
        Logical(d).echo \/ Logical(d).over # 0

Faithful(g) == OfThePlan(g) /\ Scheduled(g) /\ Accounted(g)

LEMMA KnownNumbers ==
  ASSUME Len(plan) \in Nat
  PROVE  Known \subseteq Nat /\ IsFiniteSet(Known)
<1>1. Known \subseteq 1..(2 * Len(plan))
  BY DEF Known, Ids
<1>2. 2 * Len(plan) \in Nat /\ IsFiniteSet(1..(2 * Len(plan)))
  BY FS_Interval
<1>3. IsFiniteSet(Known)
  BY <1>1, <1>2, FS_Subset
<1> QED BY <1>1, <1>2, <1>3

(* A graph that keeps some of the nodes, where the waves had them.          *)
LEMMA NarrowedSchedule ==
  ASSUME NEW g, NEW q, Scheduled(g),
         DOMAIN q.nodes \subseteq DOMAIN g.nodes, DOMAIN q.waves = DOMAIN g.waves,
         \A w \in DOMAIN g.waves : q.waves[w] = g.waves[w] \cap DOMAIN q.nodes
  PROVE  Scheduled(q)
BY DEF Scheduled

LEMMA PrunedSchedule ==
  ASSUME NEW g, NEW nodes, Scheduled(g), DOMAIN nodes \subseteq DOMAIN g.nodes
  PROVE  Scheduled(Pruned(g, nodes)) /\ Pruned(g, nodes).nodes = nodes
         /\ DOMAIN Pruned(g, nodes) = {"nodes", "waves"}
<1> DEFINE q == Pruned(g, nodes)
<1>1. q.nodes = nodes /\ DOMAIN q.waves = DOMAIN g.waves /\ DOMAIN q = {"nodes", "waves"}
  BY DEF Pruned, Prune
<1>2. \A w \in DOMAIN g.waves : q.waves[w] = g.waves[w] \cap DOMAIN nodes
  BY DEF Pruned, Prune
<1> HIDE DEF q
<1>3. Scheduled(q)
  BY <1>1, <1>2, NarrowedSchedule
<1> QED BY <1>1, <1>3 DEF q

(* input_enrichment and pass_candidate_ranking change neither the calls nor *)
(* their references.                                                        *)
LEMMA EnrichFaithful == ASSUME NEW g, Faithful(g) PROVE Faithful(Enrich(g))
<1> DEFINE q == Enrich(g)
<1>1. /\ DOMAIN q = {"nodes", "waves"} /\ q.waves = g.waves /\ DOMAIN q.nodes = DOMAIN g.nodes
      /\ \A i \in DOMAIN g.nodes : q.nodes[i] = Enriched(g.nodes[i])
  BY DEF Enrich, Faithful, OfThePlan
<1> HIDE DEF q
<1>2. \A i \in DOMAIN g.nodes :
        /\ DOMAIN q.nodes[i] = PhysicalFields /\ q.nodes[i].kind = g.nodes[i].kind
        /\ q.nodes[i].op = g.nodes[i].op /\ q.nodes[i].echo = g.nodes[i].echo
        /\ q.nodes[i].deps = g.nodes[i].deps
  <2>1. \A i \in DOMAIN g.nodes : DOMAIN g.nodes[i] = PhysicalFields
    BY DEF Faithful, OfThePlan
  <2> QED BY <1>1, <2>1 DEF Enriched, PhysicalFields
<1>3. OfThePlan(q) /\ Accounted(q)
  BY <1>1, <1>2 DEF Faithful, OfThePlan, Accounted
<1>4. \A w \in DOMAIN g.waves : q.waves[w] = g.waves[w] \cap DOMAIN q.nodes
  BY <1>1 DEF Faithful, Scheduled
<1>5. Scheduled(q)
  BY <1>1, <1>4, NarrowedSchedule DEF Faithful
<1> QED BY <1>3, <1>5 DEF Faithful, q

LEMMA RankFaithful == ASSUME NEW g, Faithful(g) PROVE Faithful(Rank(g))
<1> DEFINE q == Rank(g)
<1>1. /\ DOMAIN q = {"nodes", "waves"} /\ q.waves = g.waves /\ DOMAIN q.nodes = DOMAIN g.nodes
      /\ \A i \in DOMAIN g.nodes : q.nodes[i] = [g.nodes[i] EXCEPT !.ranked = TRUE]
  BY DEF Rank, Faithful, OfThePlan
<1> HIDE DEF q
<1>2. \A i \in DOMAIN g.nodes :
        /\ DOMAIN q.nodes[i] = PhysicalFields /\ q.nodes[i].kind = g.nodes[i].kind
        /\ q.nodes[i].op = g.nodes[i].op /\ q.nodes[i].echo = g.nodes[i].echo
        /\ q.nodes[i].deps = g.nodes[i].deps
  <2>1. \A i \in DOMAIN g.nodes : DOMAIN g.nodes[i] = PhysicalFields
    BY DEF Faithful, OfThePlan
  <2> QED BY <1>1, <2>1 DEF PhysicalFields
<1>3. OfThePlan(q) /\ Accounted(q)
  BY <1>1, <1>2 DEF Faithful, OfThePlan, Accounted
<1>4. \A w \in DOMAIN g.waves : q.waves[w] = g.waves[w] \cap DOMAIN q.nodes
  BY <1>1 DEF Faithful, Scheduled
<1>5. Scheduled(q)
  BY <1>1, <1>4, NarrowedSchedule DEF Faithful
<1> QED BY <1>3, <1>5 DEF Faithful, q

LEMMA GroupFaithful == ASSUME NEW g, Faithful(g) PROVE Faithful(Group(g))
<1> DEFINE q == Group(g)
<1>1. /\ DOMAIN q = {"nodes", "waves"} /\ q.nodes = g.nodes /\ DOMAIN q.waves = DOMAIN g.waves
      /\ \A w \in DOMAIN g.waves : q.waves[w] = g.waves[w] \cap DOMAIN g.nodes
  BY DEF Group, Prune, Faithful, OfThePlan
<1> HIDE DEF q
<1>2. Scheduled(q)
  BY <1>1, NarrowedSchedule DEF Faithful
<1>3. OfThePlan(q) /\ Accounted(q)
  BY <1>1 DEF Faithful, OfThePlan, Accounted
<1> QED BY <1>2, <1>3 DEF Faithful, q

(* pass_deduplication: the one that stays for a call stays for itself, so   *)
(* no dependency is led to a call that is removed.                          *)
LEMMA CanonicalFacts ==
  ASSUME NEW nodes, DOMAIN nodes \subseteq Nat, NEW i \in DOMAIN nodes
  PROVE  /\ Canonical(nodes, i) \in DOMAIN nodes
         /\ Canonical(nodes, Canonical(nodes, i)) = Canonical(nodes, i)
         /\ Canonical(nodes, i) # i => nodes[i].op \in Idempotent
<1> DEFINE S(j) == Same(nodes, j) \cup {j}
           c == Canonical(nodes, i)
<1>1. \A j \in DOMAIN nodes : S(j) \in SUBSET Nat /\ S(j) # {} /\ S(j) \subseteq DOMAIN nodes
  BY DEF Same
<1>2. \A j \in DOMAIN nodes : Canonical(nodes, j) \in S(j) /\ \A k \in S(j) : Canonical(nodes, j) <= k
  BY <1>1, MinFacts DEF Canonical
<1>3. c \in S(i) /\ c \in DOMAIN nodes
  BY <1>1, <1>2
<1>4. CASE c = i
  BY <1>3, <1>4
<1>5. CASE c # i
  <2>1. c \in Same(nodes, i)
    BY <1>3, <1>5
  <2>2. /\ nodes[i].op \in Idempotent /\ Signature(nodes, c) = Signature(nodes, i)
        /\ Mergeable(nodes[i]) /\ Mergeable(nodes[c])
    BY <2>1 DEF Same, Mergeable
  <2>3. S(c) = S(i)
    BY <2>1, <2>2, <1>3 DEF Same
  <2> QED BY <1>3, <2>2, <2>3 DEF Canonical
<1> QED BY <1>4, <1>5

LEMMA DedupFaithful ==
  ASSUME NEW g, Faithful(g), Len(plan) \in Nat
  PROVE  Faithful(Dedup(g))
<1> DEFINE kept == {i \in DOMAIN g.nodes : Canonical(g.nodes, i) = i}
           nodes == [i \in kept |-> Remapped(g.nodes, g.nodes[i])]
           q == Pruned(g, nodes)
<1>1. CASE kept = DOMAIN g.nodes
  BY <1>1 DEF Dedup
<1>2. CASE kept # DOMAIN g.nodes
  <2>0. DOMAIN g.nodes \subseteq Nat /\ OfThePlan(g) /\ Scheduled(g) /\ Accounted(g)
    BY KnownNumbers DEF Faithful, OfThePlan
  <2>1. Dedup(g) = q /\ DOMAIN nodes = kept
    BY <1>2 DEF Dedup
  <2>2. \A i \in kept :
          /\ DOMAIN nodes[i] = PhysicalFields /\ nodes[i].kind = g.nodes[i].kind
          /\ nodes[i].op = g.nodes[i].op /\ nodes[i].echo = g.nodes[i].echo
          /\ \A d \in nodes[i].deps : \E e \in g.nodes[i].deps :
                d = IF e \in DOMAIN g.nodes THEN Canonical(g.nodes, e) ELSE e
    BY <2>0 DEF Remapped, PhysicalFields, OfThePlan
  <2>3. \A i \in DOMAIN g.nodes :
          /\ Canonical(g.nodes, i) \in kept
          /\ i \notin kept => g.nodes[i].op \in Idempotent
    BY <2>0, CanonicalFacts
  <2>4. kept \subseteq DOMAIN g.nodes
    OBVIOUS
  <2> HIDE DEF nodes, kept
  <2>5. Scheduled(q) /\ q.nodes = nodes /\ DOMAIN q = {"nodes", "waves"}
    BY <2>0, <2>1, <2>2, <2>4, PrunedSchedule
  <2> HIDE DEF q
  <2>6. OfThePlan(q)
    <3>1. \A i \in kept : nodes[i].deps \subseteq Known
      BY <2>0, <2>2, <2>3, <2>4 DEF OfThePlan
    <3> QED BY <2>0, <2>1, <2>2, <2>4, <2>5, <3>1 DEF OfThePlan
  <2>7. \A i \in Known \ DOMAIN q.nodes : Spared(i)
    BY <2>0, <2>1, <2>3, <2>5 DEF OfThePlan, Accounted, Spared
  <2>8. \A i \in DOMAIN q.nodes : \A d \in q.nodes[i].deps \ DOMAIN q.nodes :
          Logical(d).echo \/ Logical(d).over # 0
    BY <2>0, <2>1, <2>2, <2>3, <2>4, <2>5 DEF Accounted
  <2> QED BY <2>1, <2>5, <2>6, <2>7, <2>8 DEF Faithful, Accounted
<1> QED BY <1>1, <1>2

(* pass_dead_task_elimination finds calls and maps only.                    *)
LEMMA EliminateFaithful == ASSUME NEW g, Faithful(g) PROVE Faithful(Eliminate(g))
<1>1. \A i \in DOMAIN g.nodes : g.nodes[i].kind \in {"tool", "map"}
  BY DEF Faithful, OfThePlan
<1>2. {i \in DOMAIN g.nodes :
          \/ g.nodes[i].kind \in {"tool", "map"}
          \/ \E j \in DOMAIN g.nodes : i \in g.nodes[j].deps} = DOMAIN g.nodes
  BY <1>1
<1>3. Eliminate(g) = g
  BY <1>2, Zenon DEF Eliminate
<1> QED BY <1>3

(* pass_dependency_simplification: what a removed pass-through waited for   *)
(* is waited for, or is a pass-through itself.                              *)
LEMMA SimplifyFaithful == ASSUME NEW g, Faithful(g) PROVE Faithful(Simplify(g))
<1> DEFINE gone == {i \in DOMAIN g.nodes : PassThrough(g.nodes[i])}
           Rewired(n) == [n EXCEPT !.deps =
                             (@ \ gone) \cup UNION {g.nodes[d].deps : d \in @ \cap gone}]
           nodes == [i \in DOMAIN g.nodes \ gone |-> Rewired(g.nodes[i])]
           q == Pruned(g, nodes)
<1>0. OfThePlan(g) /\ Scheduled(g) /\ Accounted(g)
  BY DEF Faithful
<1>1. CASE gone = {} \/ Cardinality(DOMAIN g.nodes) < 2
  BY <1>1 DEF Simplify
<1>2. CASE ~(gone = {} \/ Cardinality(DOMAIN g.nodes) < 2)
  <2>1. Simplify(g) = q /\ DOMAIN nodes = DOMAIN g.nodes \ gone
    BY <1>2 DEF Simplify
  <2>2. \A i \in DOMAIN nodes :
          /\ DOMAIN nodes[i] = PhysicalFields /\ nodes[i].kind = g.nodes[i].kind
          /\ nodes[i].op = g.nodes[i].op /\ nodes[i].echo = g.nodes[i].echo
          /\ \A d \in nodes[i].deps :
                \/ d \in g.nodes[i].deps \ gone
                \/ \E e \in gone : d \in g.nodes[e].deps
    BY <1>0 DEF PhysicalFields, OfThePlan
  <2>3. gone \subseteq DOMAIN g.nodes /\ \A i \in gone : Logical(i).echo
    BY <1>0 DEF PassThrough, OfThePlan
  <2> HIDE DEF nodes, gone
  <2>5. Scheduled(q) /\ q.nodes = nodes /\ DOMAIN q = {"nodes", "waves"}
    BY <1>0, <2>1, <2>2, PrunedSchedule
  <2> HIDE DEF q
  <2>6. OfThePlan(q)
    <3>1. \A i \in DOMAIN nodes : nodes[i].deps \subseteq Known
      BY <1>0, <2>1, <2>2, <2>3 DEF OfThePlan
    <3> QED BY <1>0, <2>1, <2>2, <2>5, <3>1 DEF OfThePlan
  <2>7. \A i \in Known \ DOMAIN q.nodes : Spared(i)
    BY <1>0, <2>1, <2>3, <2>5 DEF Accounted, Spared
  <2>8. \A i \in DOMAIN q.nodes : \A d \in q.nodes[i].deps \ DOMAIN q.nodes :
          Logical(d).echo \/ Logical(d).over # 0
    BY <1>0, <2>1, <2>2, <2>3, <2>5 DEF Accounted
  <2> QED BY <2>1, <2>5, <2>6, <2>7, <2>8 DEF Faithful, Accounted
<1> QED BY <1>1, <1>2

(* pass_parallel_fusion removes maps, and a fused call stands for a map.    *)
LEMMA FuseFaithful == ASSUME NEW g, Faithful(g) PROVE Faithful(Fuse(g))
<1> DEFINE kept == {i \in DOMAIN g.nodes : Fusible(g.nodes, i) => i = Min(Fellows(g.nodes, i))}
           nodes == [i \in kept |-> Fused(g.nodes, i)]
           q == Pruned(g, nodes)
<1>0. OfThePlan(g) /\ Scheduled(g) /\ Accounted(g)
  BY DEF Faithful
<1>1. CASE kept = DOMAIN g.nodes
  BY <1>1 DEF Fuse
<1>2. CASE kept # DOMAIN g.nodes
  <2>1. Fuse(g) = q /\ DOMAIN nodes = kept /\ kept \subseteq DOMAIN g.nodes
    BY <1>2 DEF Fuse
  <2>2. ASSUME NEW i \in DOMAIN g.nodes, Fusible(g.nodes, i)
        PROVE  g.nodes[i].kind = "map" /\ Logical(i).over # 0
    <3>1. Fellows(g.nodes, i) # {}
      BY <2>2, FS_EmptySet, LimitsAssumption DEF Fusible
    <3> QED BY <1>0, <3>1 DEF Fellows, OfThePlan
  <2>3. \A i \in kept :
          /\ DOMAIN nodes[i] = PhysicalFields /\ nodes[i].kind \in {"tool", "map"}
          /\ nodes[i].kind = "map" => g.nodes[i].kind = "map"
          /\ nodes[i].op = g.nodes[i].op /\ (nodes[i].echo => g.nodes[i].echo)
    <3> SUFFICES ASSUME NEW i \in kept
                 PROVE  /\ DOMAIN nodes[i] = PhysicalFields /\ nodes[i].kind \in {"tool", "map"}
                        /\ nodes[i].kind = "map" => g.nodes[i].kind = "map"
                        /\ nodes[i].op = g.nodes[i].op /\ (nodes[i].echo => g.nodes[i].echo)
      OBVIOUS
    <3>1. nodes[i] = Fused(g.nodes, i) /\ i \in DOMAIN g.nodes
      OBVIOUS
    <3>2. CASE Fusible(g.nodes, i)
      BY <1>0, <2>2, <3>1, <3>2 DEF Fused, PhysicalFields, OfThePlan
    <3>3. CASE ~Fusible(g.nodes, i)
      BY <1>0, <3>1, <3>3 DEF Fused, OfThePlan
    <3> QED BY <3>2, <3>3
  <2>4. \A i \in kept : \A d \in nodes[i].deps :
          d \in Known /\ (d \notin DOMAIN g.nodes => Logical(d).echo \/ Logical(d).over # 0)
    <3> SUFFICES ASSUME NEW i \in kept, NEW d \in nodes[i].deps
                 PROVE  d \in Known
                        /\ (d \notin DOMAIN g.nodes => Logical(d).echo \/ Logical(d).over # 0)
      OBVIOUS
    <3>1. \E j \in DOMAIN g.nodes : d \in g.nodes[j].deps
      <4>1. nodes[i] = Fused(g.nodes, i) /\ i \in DOMAIN g.nodes
        OBVIOUS
      <4>2. CASE Fusible(g.nodes, i)
        <5>1. nodes[i].deps = UNION {g.nodes[j].deps : j \in Fellows(g.nodes, i)}
          BY <1>0, <4>1, <4>2 DEF Fused, PhysicalFields, OfThePlan
        <5> QED BY <5>1 DEF Fellows
      <4>3. CASE ~Fusible(g.nodes, i)
        BY <4>1, <4>3 DEF Fused
      <4> QED BY <4>2, <4>3
    <3> QED BY <1>0, <3>1 DEF Accounted, OfThePlan
  <2>5. \A i \in DOMAIN g.nodes \ kept : Logical(i).over # 0
    BY <2>2
  <2> HIDE DEF nodes, kept
  <2>6. Scheduled(q) /\ q.nodes = nodes /\ DOMAIN q = {"nodes", "waves"}
    BY <1>0, <2>1, <2>3, PrunedSchedule
  <2> HIDE DEF q
  <2>7. OfThePlan(q)
    BY <1>0, <2>1, <2>3, <2>4, <2>6 DEF OfThePlan
  <2>8. \A i \in Known \ DOMAIN q.nodes : Spared(i)
    BY <1>0, <2>1, <2>5, <2>6 DEF Accounted, Spared
  <2>9. \A i \in DOMAIN q.nodes : \A d \in q.nodes[i].deps \ DOMAIN q.nodes :
          Logical(d).echo \/ Logical(d).over # 0
    BY <2>1, <2>4, <2>5, <2>6
  <2> QED BY <2>1, <2>6, <2>7, <2>8, <2>9 DEF Faithful, Accounted
<1> QED BY <1>1, <1>2

-----------------------------------------------------------------------------
(* Code generation.  An acyclic graph is scheduled by its rounds.           *)
LEMMA BuildFaithful ==
  ASSUME Len(plan) \in Nat, NEW nodes, nodes = [r \in Known |-> Physical(r)], Acyclic(nodes)
  PROVE  Faithful([nodes |-> nodes, waves |-> Waves(nodes)])
<1> DEFINE g == [nodes |-> nodes, waves |-> Waves(nodes)]
           N == Cardinality(DOMAIN nodes)
           by == Reached(nodes)
<1>1. DOMAIN nodes = Known /\ IsFiniteSet(DOMAIN nodes)
  BY KnownNumbers
<1>2. N \in Nat /\ RoundsFor(nodes, by, N)
  BY <1>1, ReachedRounds
<1>3. by[N] = DOMAIN nodes
  BY DEF Acyclic
<1>4. DOMAIN g.waves = 1..N /\ \A w \in 1..N : g.waves[w] = by[w] \ by[w - 1]
  BY DEF Waves
<1>5. g.nodes = nodes /\ DOMAIN g = {"nodes", "waves"}
  OBVIOUS
<1> HIDE DEF g, N, by
<1>6. \A i, j \in 0..N : i <= j => by[i] \subseteq by[j]
  BY <1>2, RoundsGrow
<1>7. by[0] = {} /\ \A w \in 1..N : by[w] = Ready(nodes, by[w - 1])
  <2>1. \A i \in 0..N : by[i] = IF i = 0 THEN {} ELSE Ready(nodes, by[i - 1])
    BY <1>2 DEF RoundsFor
  <2> QED BY <1>2, <2>1
<1>8. \A w \in 1..N : by[w] \subseteq DOMAIN nodes
  BY <1>7 DEF Ready
<1>9. \A i \in DOMAIN nodes : \E w \in 1..N : i \in by[w] \ by[w - 1]
  <2> SUFFICES ASSUME NEW i \in DOMAIN nodes PROVE \E w \in 1..N : i \in by[w] \ by[w - 1]
    OBVIOUS
  <2> DEFINE S == {w \in 0..N : i \in by[w]}
  <2>1. S \in SUBSET Nat /\ N \in S
    BY <1>2, <1>3
  <2>2. PICK m \in S : \A k \in S : m <= k
    BY <2>1, LeastNatural
  <2>3. m \in 1..N /\ m - 1 \in 0..N /\ m - 1 \notin S
    BY <1>2, <1>7, <2>2
  <2> QED BY <2>2, <2>3
<1>10. \A v, w \in 1..N : v < w => by[v] \subseteq by[w - 1]
  BY <1>2, <1>6
<1>11. \A v, w \in DOMAIN g.waves : v # w => g.waves[v] \cap g.waves[w] = {}
  <2> SUFFICES ASSUME NEW v \in 1..N, NEW w \in 1..N, v # w
               PROVE  g.waves[v] \cap g.waves[w] = {}
    BY <1>4
  <2>1. CASE v < w BY <1>4, <1>10, <2>1
  <2>2. CASE w < v BY <1>4, <1>10, <2>2
  <2> QED BY <1>2, <2>1, <2>2
<1>12. \A i \in Known : /\ DOMAIN nodes[i] = PhysicalFields /\ nodes[i].kind \in {"tool", "map"}
                        /\ nodes[i].op = Logical(i).op /\ nodes[i].deps \subseteq Known
                        /\ nodes[i].echo = Logical(i).echo
                        /\ nodes[i].kind = "map" => Logical(i).over # 0
                        /\ nodes[i].deps = WaitsFor(i) \cap Known
  BY DEF Physical, PhysicalFields, Wired, WaitsFor
<1>13. \A i \in DOMAIN nodes : \A u \in WaitsFor(i) \cap DOMAIN nodes : \A v, w \in 1..N :
          u \in g.waves[v] /\ i \in g.waves[w] => v < w
  <2> SUFFICES ASSUME NEW i \in DOMAIN nodes,
                      NEW u \in WaitsFor(i) \cap DOMAIN nodes, NEW v \in 1..N, NEW w \in 1..N,
                      u \in g.waves[v], i \in g.waves[w], ~(v < w)
               PROVE  FALSE
    OBVIOUS
  <2>1. u \in nodes[i].deps
    BY <1>1, <1>12
  <2>2. u \in by[w - 1]
    <3>1. i \in Ready(nodes, by[w - 1])
      BY <1>4, <1>7
    <3> QED BY <2>1, <3>1 DEF Ready
  <2>3. w - 1 \in 0..N /\ v - 1 \in 0..N /\ w - 1 <= v - 1
    BY <1>2
  <2>4. u \in by[v - 1]
    BY <1>6, <2>2, <2>3
  <2> QED BY <1>4, <2>4
<1>14. Scheduled(g)
  BY <1>4, <1>5, <1>8, <1>9, <1>11, <1>13 DEF Scheduled
<1>15. OfThePlan(g) /\ Accounted(g)
  BY <1>1, <1>5, <1>12 DEF OfThePlan, Accounted
<1> QED BY <1>14, <1>15 DEF Faithful, g

-----------------------------------------------------------------------------
(* The compilation.                                                         *)
PassesInv == /\ plan \in Plans
             /\ phase \in {"chains", "build", "passes", "done", "failed"}
             /\ pass \in 1..8 /\ round \in 1..MaxIterations /\ faults \in 0..MaxFaults
             /\ IF Compiled THEN Faithful(graph) ELSE DOMAIN graph.nodes = {}

LEMMA SamePlan ==
  ASSUME plan' = plan
  PROVE  Known' = Known /\ \A i : Logical(i)' = Logical(i)
BY DEF Known, Ids, HasChain, Producer, Logical

LEMMA FaithfulLater ==
  ASSUME NEW g, Faithful(g), plan' = plan, graph' = g
  PROVE  Faithful(graph)'
BY SamePlan DEF Faithful, OfThePlan, Scheduled, Accounted, Spared, WaitsFor

LEMMA ApplyFaithful ==
  ASSUME NEW g, Faithful(g), Len(plan) \in Nat, NEW p \in Passes
  PROVE  Faithful(Apply(p, g))
<1>1. p \in {1, 2, 3, 4, 5, 6, 7}
  BY DEF Passes
<1> QED BY <1>1, EnrichFaithful, RankFaithful, GroupFaithful, DedupFaithful, EliminateFaithful,
           SimplifyFaithful, FuseFaithful DEF Apply

LEMMA PassesStep == PassesInv /\ [PassesNext]_passesVars => PassesInv'
<1> SUFFICES ASSUME PassesInv, [PassesNext]_passesVars PROVE PassesInv'
  OBVIOUS
<1>0. Len(plan) \in Nat /\ MaxIterations \in Nat /\ MaxFaults \in Nat
  BY PlansAssumption, LimitsAssumption DEF PassesInv
<1>1. CASE Synthesize
  BY <1>1 DEF Synthesize, PassesInv, Compiled
<1>2. CASE RefuseChain
  BY <1>2 DEF RefuseChain, Fail, PassesInv, Compiled
<1>3. CASE Build
  <2> DEFINE nodes == [r \in Known |-> Physical(r)]
  <2>1. CASE Gated # {} \/ ~Acyclic(nodes)
    BY <1>3, <2>1 DEF Build, Fail, PassesInv, Compiled
  <2>2. CASE ~(Gated # {} \/ ~Acyclic(nodes))
    <3> DEFINE g == [nodes |-> nodes, waves |-> Waves(nodes)]
    <3>1. graph' = g /\ phase' = "passes" /\ plan' = plan
          /\ pass' = pass /\ round' = round /\ faults' = faults
      BY <1>3, <2>2 DEF Build
    <3>2. Faithful(g)
      BY <1>0, <2>2, BuildFaithful
    <3>3. Faithful(graph)'
      <4> HIDE DEF g
      <4> QED BY <3>1, <3>2, FaithfulLater
    <3> QED BY <3>1, <3>3 DEF PassesInv, Compiled
  <2> QED BY <2>1, <2>2
<1>4. CASE ResolverFails
  BY <1>0, <1>4 DEF ResolverFails, Fail, PassesInv, Compiled
<1>5. CASE RunPass
  <2>1. Faithful(graph) /\ pass \in Passes /\ plan' = plan /\ graph' = Apply(pass, graph)
    BY <1>5 DEF RunPass, PassesInv, Compiled
  <2>2. Faithful(Apply(pass, graph))
    BY <1>0, <2>1, ApplyFaithful
  <2>3. Faithful(graph)'
    BY <2>1, <2>2, FaithfulLater
  <2> QED BY <1>5, <2>1, <2>3 DEF RunPass, PassesInv, Compiled, Passes
<1>6. CASE PassFails
  <2>1. Faithful(graph) /\ plan' = plan /\ graph' = graph
    BY <1>6 DEF PassFails, PassesInv, Compiled
  <2>2. Faithful(graph)'
    BY <2>1, FaithfulLater
  <2> QED BY <1>0, <1>6, <2>2 DEF PassFails, PassesInv, Compiled
<1>7. CASE EndRound
  <2>1. Faithful(graph) /\ plan' = plan /\ graph' = graph
    BY <1>7 DEF EndRound, PassesInv, Compiled
  <2>2. Faithful(graph)'
    BY <2>1, FaithfulLater
  <2> QED BY <1>0, <1>7, <2>2 DEF EndRound, RoundsUsed, PassesInv, Compiled
<1>8. CASE UNCHANGED passesVars
  <2>1. CASE Compiled
    <3>1. Faithful(graph)'
      BY <1>8, <2>1, FaithfulLater DEF passesVars, PassesInv
    <3> QED BY <1>8, <2>1, <3>1 DEF passesVars, PassesInv, Compiled
  <2>2. CASE ~Compiled
    BY <1>8, <2>2 DEF passesVars, PassesInv, Compiled
  <2> QED BY <2>1, <2>2
<1> QED BY <1>1, <1>2, <1>3, <1>4, <1>5, <1>6, <1>7, <1>8 DEF PassesNext

LEMMA PassesInvariance == PassesSpec => []PassesInv
<1>1. PassesInit => PassesInv
  BY LimitsAssumption DEF PassesInit, PassesInv, Compiled, Empty
<1> QED BY <1>1, PassesStep, PTL DEF PassesSpec

(* The compiler never leaves its iterations or its settings, and its graph  *)
(* never names a call that the plan does not have.                          *)
THEOREM GraphTypeCorrect == PassesSpec => []GraphTypeOK
<1>1. PassesInv => GraphTypeOK
  BY DEF PassesInv, GraphTypeOK, Faithful, OfThePlan
<1> QED BY <1>1, PassesInvariance, PTL

(* Whatever the plan, and whatever the passes merged, removed and rewired:  *)
(* the executor runs every node of the graph once, no call before one that  *)
(* is still in the graph and that it needs (but for the placeholders in a   *)
(* map's body), every write that was not taken for a pass-through or        *)
(* batched, and no call waits for one that was merged into another.         *)
THEOREM SchedulesSurvivors == PassesSpec => []SurvivorsScheduled
<1>1. ASSUME PassesInv, Compiled PROVE SurvivorsScheduled
  <2>1. OfThePlan(graph) /\ Scheduled(graph) /\ Accounted(graph)
    BY <1>1 DEF PassesInv, Faithful
  <2>2. EveryNodeOnce
    BY <2>1 DEF EveryNodeOnce, Scheduled, Range
  <2>3. \A i \in DOMAIN graph.nodes : WaveOf(i) \in DOMAIN graph.waves /\ i \in graph.waves[WaveOf(i)]
    BY <2>1 DEF WaveOf, Scheduled
  <2>4. OrderedDataflow
    BY <2>1, <2>3 DEF OrderedDataflow, Scheduled
  <2>5. EffectsKept /\ DepsResolve
    BY <2>1 DEF EffectsKept, DepsResolve, Accounted, Spared
  <2> QED BY <2>2, <2>4, <2>5 DEF SurvivorsScheduled
<1>2. PassesInv => SurvivorsScheduled
  BY <1>1 DEF SurvivorsScheduled, EveryNodeOnce, OrderedDataflow, EffectsKept, DepsResolve
<1> QED BY <1>2, PassesInvariance, PTL
================================================================================
