----------------------------- MODULE Calls_proofs ------------------------------
(***************************************************************************)
(* Proofs about the calls to a model and of a tool.  For any callers,      *)
(* chain of models, prompts and policy, the attempts are bounded, an       *)
(* answer that was begun is not begun again, and what was refused for good *)
(* is not asked again.  For any tools, callers and limits, a provider acts *)
(* once for a call that must not be repeated, and what is called a success *)
(* was answered so.                                                        *)
(***************************************************************************)
EXTENDS LlmCalls, ToolCalls, TLAPS

CallParts == {"way", "at", "nth", "prompt", "tries", "again", "chunks", "reply"}
AskedParts == {"model", "times", "answer", "sent", "after"}

(* What a prompt is cut with: any sequence.  That the sizes in it are      *)
(* numbers is not needed.                                                  *)
IsSeq(p) == \E S : p \in Seq(S)

(* Where a call has asked nobody yet.                                      *)
Before == {"no", "resolve", "format", "probe", "prepare"}

(* One call k and what was asked for it, a: the attempts are counted from  *)
(* zero, and from zero once more when the prompt was shortened; an attempt *)
(* that follows another follows an answer that may pass, or has a shorter  *)
(* prompt.                                                                 *)
Attempts(k) == (IF k.again THEN MaxAttempts ELSE 0) + k.tries
Renewed(k, a) == \/ a.answer \in Retryable
                 \/ a.answer = "overflow" /\ Len(k.prompt) < Len(a.sent)

Shaped(k, a) == /\ DOMAIN k = CallParts /\ DOMAIN a = AskedParts
                /\ k.nth \in 1..Len(Chain) /\ k.tries \in Nat /\ k.again \in BOOLEAN
                /\ IsSeq(k.prompt) /\ a.times \in Nat
Blank(k, a) == /\ k.at \in Before => a.times = 0 /\ k.tries = 0 /\ k.again = FALSE
               /\ k.at \in Before \cup {"calling"} => k.chunks = 0
               /\ a.times = 0 => a.model = None
Underway(k, a) == k.at = "calling" =>
                    /\ k.tries < MaxAttempts /\ a.times <= Attempts(k)
                    /\ a.times > 0 => Renewed(k, a)
Spent(a) == a.times <= 2 * MaxAttempts /\ a.after = 0

Sound(k, a) == Shaped(k, a) /\ Blank(k, a) /\ Underway(k, a) /\ Spent(a)

CallInv == /\ DOMAIN call = Call /\ DOMAIN asked = Call
           /\ \A c \in Call : Sound(call[c], asked[c])

-----------------------------------------------------------------------------
LEMMA Bounds ==
  ASSUME LlmAssumption
  PROVE  MaxAttempts \in Nat /\ MaxAttempts > 0 /\ Chain \in Seq(Model) /\ None \notin Model
         /\ Len(Chain) \in Nat /\ 1 <= Len(Chain)
BY DEF LlmAssumption

(* Cutting a prompt gives a prompt.                                        *)
LEMMA CutIsSeq == ASSUME NEW p, IsSeq(p) PROVE IsSeq(Cut(p))
<1>1. PICK S : p \in Seq(S)
  BY DEF IsSeq
<1>2. Cut(p) \in Seq(S)
  <2>1. CASE Len(p) > 3
    <3>1. <<Head(p), Last(p)>> \in Seq(S)
      BY <1>1, <2>1 DEF Last
    <3> QED BY <2>1, <3>1 DEF Cut
  <2>2. CASE Len(p) = 3
    <3>1. <<p[2], p[3]>> \in Seq(S)
      BY <1>1, <2>2
    <3> QED BY <2>2, <3>1 DEF Cut
  <2>3. CASE Len(p) = 2
    <3>1. <<Last(p)>> \in Seq(S)
      BY <1>1, <2>3 DEF Last
    <3> QED BY <2>3, <3>1 DEF Cut
  <2>4. CASE Len(p) \notin {2, 3} /\ ~(Len(p) > 3)
    BY <1>1, <2>4 DEF Cut
  <2> QED BY <2>1, <2>2, <2>3, <2>4
<1> QED BY <1>2 DEF IsSeq

LEMMA TrimmedIsSeq == ASSUME NEW p, IsSeq(p), NEW q \in Trimmed(p) PROVE IsSeq(q)
<1>1. PICK S : p \in Seq(S)
  BY DEF IsSeq
<1>2. CASE q = p
  BY <1>2
<1>3. CASE q # p
  <2>1. PICK i \in 1..Len(p) : q = SubSeq(p, i, Len(p))
    BY <1>3 DEF Trimmed
  <2>2. q \in Seq(S)
    BY <1>1, <2>1
  <2> QED BY <2>2 DEF IsSeq
<1> QED BY <1>2, <1>3

LEMMA FlatIsSeq == ASSUME NEW c, NEW p, IsSeq(p) PROVE IsSeq(Flat(c, p))
<1> DEFINE n == Size(p)
<1>1. <<n>> \in Seq({n})
  <2> HIDE DEF n
  <2> QED OBVIOUS
<1>2. IsSeq(<<n>>)
  BY <1>1 DEF IsSeq
<1> QED BY <1>2 DEF Flat

(* Without its oldest messages a prompt is a shorter prompt.               *)
LEMMA QuarterIsShorter ==
  ASSUME NEW p, IsSeq(p), Len(p) > 2
  PROVE  IsSeq(Quarter(p)) /\ Len(Quarter(p)) < Len(p)
<1>1. PICK S : p \in Seq(S)
  BY DEF IsSeq
<1> DEFINE n == Len(p)
           k == IF n < 4 THEN 1 ELSE n \div 4
<1>2. n \in Nat /\ n > 2
  BY <1>1
<1>3. k \in Nat /\ 1 <= k /\ k + 2 <= n
  <2> HIDE DEF n
  <2>1. CASE n < 4
    BY <1>2, <2>1
  <2>2. CASE n >= 4
    <3>1. n \div 4 \in Nat /\ 4 * (n \div 4) <= n /\ n < 4 * (n \div 4) + 4
      BY <1>2
    <3> QED BY <1>2, <2>2, <3>1
  <2> QED BY <1>2, <2>1, <2>2
<1>4. Quarter(p) = <<Head(p)>> \o SubSeq(p, k + 2, n)
  BY DEF Quarter
<1> HIDE DEF k
<1>5. SubSeq(p, k + 2, n) \in Seq(S) /\ Len(SubSeq(p, k + 2, n)) = n - k - 1
  BY <1>1, <1>2, <1>3
<1>6. <<Head(p)>> \in Seq(S) /\ Len(<<Head(p)>>) = 1
  BY <1>1, <1>2
<1>7. /\ <<Head(p)>> \o SubSeq(p, k + 2, n) \in Seq(S)
      /\ Len(<<Head(p)>> \o SubSeq(p, k + 2, n)) = 1 + (n - k - 1)
  BY <1>5, <1>6
<1>8. Len(Quarter(p)) < n
  BY <1>2, <1>3, <1>4, <1>7
<1> QED BY <1>4, <1>7, <1>8 DEF IsSeq

-----------------------------------------------------------------------------
(* A step of one call leaves the others alone.                             *)
LEMMA OthersKeep ==
  ASSUME CallInv, NEW c \in Call, DOMAIN call' = Call, DOMAIN asked' = Call,
         \A d \in Call : d # c => call'[d] = call[d] /\ asked'[d] = asked[d],
         Sound(call'[c], asked'[c])
  PROVE  CallInv'
<1>1. \A d \in Call : Sound(call'[d], asked'[d])
  BY DEF CallInv
<1> QED BY <1>1 DEF CallInv, Sound, Shaped, Blank, Underway, Spent, Attempts, Renewed, IsSeq

LEMMA GoEffect ==
  ASSUME CallInv, NEW c \in Call, NEW new, Go(c, new)
  PROVE  /\ DOMAIN call' = Call /\ call'[c] = new
         /\ \A d \in Call : d # c => call'[d] = call[d]
BY DEF CallInv, Go

(* A step that moves the call and asks nothing.                            *)
LEMMA MoveKeeps ==
  ASSUME CallInv, NEW c \in Call, NEW new, Go(c, new), UNCHANGED asked, Sound(new, asked[c])
  PROVE  CallInv'
<1>1. /\ DOMAIN call' = Call /\ call'[c] = new
      /\ \A d \in Call : d # c => call'[d] = call[d]
  BY GoEffect
<1>2. DOMAIN asked' = Call /\ \A d \in Call : asked'[d] = asked[d]
  BY DEF CallInv
<1> QED BY <1>1, <1>2, OthersKeep

(* What was asked, and answered.                                           *)
LEMMA AnsweredEffect ==
  ASSUME CallInv, NEW c \in Call, NEW a, Answered(c, a)
  PROVE  /\ DOMAIN asked' = Call /\ DOMAIN asked'[c] = AskedParts
         /\ asked'[c].model = The(c) /\ asked'[c].answer = a
         /\ asked'[c].sent = call[c].prompt /\ asked'[c].after = call[c].chunks
         /\ asked'[c].times \in {1, asked[c].times + 1}
         /\ \A d \in Call : d # c => asked'[d] = asked[d]
<1> DEFINE new == [model |-> The(c),
                   times |-> IF asked[c].model = The(c) THEN asked[c].times + 1 ELSE 1,
                   answer |-> a, sent |-> call[c].prompt, after |-> call[c].chunks]
<1>1. asked' = [asked EXCEPT ![c] = new]
  BY DEF Answered
<1>2. /\ DOMAIN new = AskedParts /\ new.model = The(c) /\ new.answer = a
      /\ new.sent = call[c].prompt /\ new.after = call[c].chunks
      /\ new.times \in {1, asked[c].times + 1}
  BY DEF AskedParts
<1> HIDE DEF new
<1> QED BY <1>1, <1>2 DEF CallInv

LEMMA AnswerKeeps ==
  ASSUME LlmAssumption, CallInv, NEW c \in Call, NEW new, NEW a, Go(c, new), Answered(c, a),
         call[c].at = "calling", DOMAIN new = CallParts, new.nth = call[c].nth,
         new.tries \in Nat, new.again \in BOOLEAN, IsSeq(new.prompt),
         new.at \notin Before,
         new.at = "calling" =>
            /\ new.chunks = 0 /\ new.tries < MaxAttempts /\ Attempts(call[c]) + 1 <= Attempts(new)
            /\ \/ a \in Retryable
               \/ a = "overflow" /\ Len(new.prompt) < Len(call[c].prompt)
  PROVE  CallInv'
<1>1. /\ DOMAIN call' = Call /\ call'[c] = new
      /\ \A d \in Call : d # c => call'[d] = call[d]
  BY GoEffect
<1> DEFINE b == asked'[c]
<1>2. /\ DOMAIN asked' = Call /\ DOMAIN b = AskedParts
      /\ b.answer = a /\ b.sent = call[c].prompt /\ b.after = call[c].chunks
      /\ b.times \in {1, asked[c].times + 1}
      /\ \A d \in Call : d # c => asked'[d] = asked[d]
  BY AnsweredEffect
<1> HIDE DEF b
<1>3. /\ call[c].nth \in 1..Len(Chain) /\ call[c].tries \in Nat /\ call[c].again \in BOOLEAN
      /\ asked[c].times \in Nat /\ call[c].chunks = 0 /\ call[c].tries < MaxAttempts
      /\ asked[c].times <= Attempts(call[c])
  BY DEF CallInv, Sound, Shaped, Blank, Underway
<1>4. MaxAttempts \in Nat
  BY Bounds
<1>5. Attempts(call[c]) \in Nat /\ Attempts(call[c]) + 1 <= 2 * MaxAttempts
  BY <1>3, <1>4 DEF Attempts
<1>6. b.times \in Nat /\ 0 < b.times /\ b.times <= Attempts(call[c]) + 1
  BY <1>2, <1>3, <1>5
<1>7. Attempts(new) \in Nat
  BY <1>4 DEF Attempts
<1>8. Shaped(new, b)
  BY <1>2, <1>3, <1>6 DEF Shaped
<1>9. Blank(new, b)
  BY <1>6 DEF Blank
<1>10. Underway(new, b)
  <2> SUFFICES ASSUME new.at = "calling"
               PROVE  new.tries < MaxAttempts /\ b.times <= Attempts(new) /\ Renewed(new, b)
    BY DEF Underway
  <2>1. b.times <= Attempts(new)
    BY <1>5, <1>6, <1>7
  <2> QED BY <1>2, <2>1 DEF Renewed
<1>11. Spent(b)
  BY <1>2, <1>3, <1>4, <1>5, <1>6 DEF Spent
<1>12. Sound(call'[c], asked'[c])
  BY <1>1, <1>8, <1>9, <1>10, <1>11 DEF Sound, b
<1> QED BY <1>1, <1>2, <1>12, OthersKeep

-----------------------------------------------------------------------------
(* A call that ends without another question.                              *)
LEMMA EndedIsSound ==
  ASSUME CallInv, NEW c \in Call, NEW reply
  PROVE  Sound([call[c] EXCEPT !.at = "over", !.reply = reply], asked[c])
<1> DEFINE k == call[c]
           new == [k EXCEPT !.at = "over", !.reply = reply]
<1>1. Sound(k, asked[c])
  BY DEF CallInv
<1> HIDE DEF k
<1>2. DOMAIN k = CallParts
  BY <1>1 DEF Sound, Shaped
<1>3. /\ DOMAIN new = CallParts /\ new.at = "over" /\ new.nth = k.nth /\ new.prompt = k.prompt
      /\ new.tries = k.tries /\ new.again = k.again /\ new.chunks = k.chunks
  BY <1>2 DEF CallParts
<1> HIDE DEF new
<1>4. Sound(new, asked[c])
  BY <1>1, <1>3 DEF Sound, Shaped, Blank, Underway, Spent, Before
<1> QED BY <1>4 DEF new, k

LEMMA OverKeeps ==
  ASSUME CallInv, NEW c \in Call, NEW reply, Over(c, reply), UNCHANGED asked
  PROVE  CallInv'
BY EndedIsSound, MoveKeeps DEF Over

(* A call that has asked nobody goes on to another place before the        *)
(* question, or to another model.                                          *)
LEMMA EarlySound ==
  ASSUME CallInv, NEW c \in Call, call[c].at \in Before, NEW new, DOMAIN new = CallParts,
         new.at \in Before, new.nth \in 1..Len(Chain), IsSeq(new.prompt), new.tries = 0,
         new.again = FALSE, new.chunks = call[c].chunks
  PROVE  Sound(new, asked[c])
<1>1. Sound(call[c], asked[c])
  BY DEF CallInv
<1>2. Shaped(new, asked[c])
  <2>1. new.tries \in Nat
    OBVIOUS
  <2>3. new.again \in BOOLEAN
    OBVIOUS
  <2>2. DOMAIN asked[c] = AskedParts /\ asked[c].times \in Nat
    BY <1>1 DEF Sound, Shaped
  <2> QED BY <2>1, <2>2, <2>3 DEF Shaped
<1>3. Blank(new, asked[c]) /\ Spent(asked[c])
  BY <1>1 DEF Sound, Blank
<1>4. Underway(new, asked[c])
  BY DEF Underway, Before
<1> QED BY <1>2, <1>3, <1>4 DEF Sound

LEMMA EarlyFacts ==
  ASSUME CallInv, NEW c \in Call
  PROVE  /\ DOMAIN call[c] = CallParts /\ call[c].nth \in 1..Len(Chain) /\ IsSeq(call[c].prompt)
         /\ call[c].at \in Before => call[c].tries = 0 /\ call[c].again = FALSE
BY DEF CallInv, Sound, Shaped, Blank

LEMMA AskKeeps ==
  ASSUME LlmAssumption, CallInv, NEW c \in Call, NEW way \in Way, NEW p \in Prompt,
         Ask(c, way, p)
  PROVE  CallInv'
<1>1. PICK n \in 1..Len(Chain) :
        Go(c, [call[c] EXCEPT !.way = way, !.nth = n, !.prompt = p, !.at = "resolve"])
  BY DEF Ask
<1> DEFINE k == call[c]
           new == [k EXCEPT !.way = way, !.nth = n, !.prompt = p, !.at = "resolve"]
<1>2. k.at \in Before /\ UNCHANGED asked
  BY DEF Ask, Before
<1>3. DOMAIN k = CallParts /\ k.tries = 0 /\ k.again = FALSE
  BY <1>2, EarlyFacts
<1>4. IsSeq(p)
  BY DEF LlmAssumption, IsSeq
<1>5. /\ DOMAIN new = CallParts /\ new.at \in Before /\ new.nth = n /\ new.prompt = p
      /\ new.tries = 0 /\ new.again = FALSE /\ new.chunks = k.chunks
  BY <1>3 DEF CallParts, Before
<1>6. Go(c, new)
  BY <1>1
<1> HIDE DEF new
<1>7. Sound(new, asked[c])
  BY <1>2, <1>4, <1>5, EarlySound
<1> QED BY <1>2, <1>6, <1>7, MoveKeeps

LEMMA PlaceKeeps ==
  ASSUME CallInv, NEW c \in Call, call[c].at \in Before, NEW at \in Before,
         Go(c, [call[c] EXCEPT !.at = at]), UNCHANGED asked
  PROVE  CallInv'
<1> DEFINE k == call[c]
           new == [k EXCEPT !.at = at]
<1>1. DOMAIN k = CallParts /\ k.nth \in 1..Len(Chain) /\ IsSeq(k.prompt) /\ k.tries = 0
      /\ k.again = FALSE
  BY EarlyFacts
<1>2. /\ DOMAIN new = CallParts /\ new.at = at /\ new.nth = k.nth /\ new.prompt = k.prompt
      /\ new.tries = 0 /\ new.again = FALSE /\ new.chunks = k.chunks
  BY <1>1 DEF CallParts
<1>3. Go(c, new)
  OBVIOUS
<1> HIDE DEF new
<1>4. Sound(new, asked[c])
  BY <1>1, <1>2, EarlySound
<1> QED BY <1>3, <1>4, MoveKeeps

(* The question is put: the first attempt of the call.                     *)
LEMMA SentKeeps ==
  ASSUME LlmAssumption, CallInv, NEW c \in Call, call[c].at \in Before, NEW p, IsSeq(p),
         Go(c, [call[c] EXCEPT !.at = "calling", !.prompt = p]), UNCHANGED asked
  PROVE  CallInv'
<1> DEFINE k == call[c]
           new == [k EXCEPT !.at = "calling", !.prompt = p]
<1>1. Sound(k, asked[c])
  BY DEF CallInv
<1>2. DOMAIN k = CallParts
  BY EarlyFacts
<1>3. /\ DOMAIN new = CallParts /\ new.at = "calling" /\ new.nth = k.nth /\ new.prompt = p
      /\ new.tries = k.tries /\ new.again = k.again /\ new.chunks = k.chunks
  BY <1>2 DEF CallParts
<1>4. Go(c, new)
  OBVIOUS
<1> HIDE DEF new
<1>5. /\ k.tries = 0 /\ k.again = FALSE /\ k.chunks = 0 /\ asked[c].times = 0
  BY <1>1 DEF Sound, Blank
<1>6. Shaped(new, asked[c])
  BY <1>1, <1>3 DEF Sound, Shaped
<1>7. Blank(new, asked[c]) /\ Spent(asked[c])
  BY <1>1, <1>3, <1>5 DEF Sound, Blank, Before
<1>8. Underway(new, asked[c])
  BY <1>3, <1>5, Bounds DEF Underway, Attempts
<1>9. Sound(new, asked[c])
  BY <1>6, <1>7, <1>8 DEF Sound
<1> QED BY <1>4, <1>9, MoveKeeps

(* The chain goes on only before anybody was asked.                        *)
LEMMA ResolveKeeps ==
  ASSUME LlmAssumption, CallInv, NEW c \in Call, Resolve(c)
  PROVE  CallInv'
<1>1. call[c].at = "resolve" /\ call[c].at \in Before /\ UNCHANGED asked
  BY DEF Resolve, Before
<1>2. CASE The(c) \in Served /\ call[c].way = "embed"
  <2> DEFINE k == call[c]
  <2>1. Go(c, [k EXCEPT !.at = "calling"])
    BY <1>2 DEF Resolve
  <2>2. DOMAIN k = CallParts /\ IsSeq(k.prompt)
    BY EarlyFacts
  <2>3. k.prompt = [k EXCEPT !.at = "calling"].prompt
    BY <2>2 DEF CallParts
  <2>4. Go(c, [k EXCEPT !.at = "calling", !.prompt = k.prompt])
    BY <2>1, <2>2, <2>3 DEF CallParts
  <2> QED BY <1>1, <2>2, <2>4, SentKeeps
<1>3. CASE The(c) \in Served /\ call[c].way # "embed"
  <2>1. Go(c, [call[c] EXCEPT !.at = "format"])
    BY <1>3 DEF Resolve
  <2> QED BY <1>1, <2>1, PlaceKeeps DEF Before
<1>4. CASE The(c) \notin Served
  <2>1. Raises(c, "unserved")
    BY <1>4 DEF Resolve
  <2>2. CASE Over(c, "raised")
    BY <1>1, <2>2, OverKeeps
  <2>3. CASE ~Over(c, "raised")
    <3> DEFINE k == call[c]
               new == [k EXCEPT !.nth = @ + 1, !.at = "resolve", !.tries = 0, !.again = FALSE]
    <3>1. Go(c, new) /\ k.nth < Len(Chain)
      BY <2>1, <2>3 DEF Raises
    <3>2. DOMAIN k = CallParts /\ k.nth \in 1..Len(Chain) /\ IsSeq(k.prompt)
      BY EarlyFacts
    <3>3. /\ DOMAIN new = CallParts /\ new.at = "resolve" /\ new.nth = k.nth + 1
          /\ new.prompt = k.prompt /\ new.tries = 0 /\ new.again = FALSE
          /\ new.chunks = k.chunks
      BY <3>2 DEF CallParts
    <3> HIDE DEF new
    <3>4. k.nth + 1 \in 1..Len(Chain)
      BY <3>1, <3>2, Bounds
    <3>5. Sound(new, asked[c])
      BY <1>1, <3>2, <3>3, <3>4, EarlySound
    <3> QED BY <1>1, <3>1, <3>5, MoveKeeps
  <2> QED BY <2>2, <2>3
<1> QED BY <1>2, <1>3, <1>4

LEMMA FormatKeeps ==
  ASSUME CallInv, NEW c \in Call, Format(c) \/ Probe(c)
  PROVE  CallInv'
<1>1. call[c].at \in Before /\ UNCHANGED asked
  BY DEF Format, Probe, Before
<1>2. PICK at \in {"prepare", "probe"} : Go(c, [call[c] EXCEPT !.at = at])
  BY DEF Format, Probe
<1> QED BY <1>1, <1>2, PlaceKeeps DEF Before

LEMMA PrepareKeeps ==
  ASSUME LlmAssumption, CallInv, NEW c \in Call, Prepare(c)
  PROVE  CallInv'
<1> DEFINE p == Flat(c, call[c].prompt)
<1>1. call[c].at \in Before /\ UNCHANGED asked
  BY DEF Prepare, Before
<1>2. IsSeq(p)
  BY EarlyFacts, FlatIsSeq
<1>3. \/ Sent(c, p)
      \/ (\E q \in Trimmed(p) : Sent(c, q) \/ Sent(c, Cut(q)) \/ Over(c, "empty"))
  BY DEF Prepare
<1> HIDE DEF p
<1>4. ASSUME NEW q, IsSeq(q), Sent(c, q) PROVE CallInv'
  BY <1>1, <1>4, SentKeeps DEF Sent
<1>5. ASSUME NEW q \in Trimmed(p), Sent(c, q) \/ Sent(c, Cut(q)) \/ Over(c, "empty")
      PROVE  CallInv'
  <2>1. IsSeq(q) /\ IsSeq(Cut(q))
    BY <1>2, TrimmedIsSeq, CutIsSeq
  <2> QED BY <1>1, <1>4, <1>5, <2>1, OverKeeps
<1> QED BY <1>2, <1>3, <1>4, <1>5

-----------------------------------------------------------------------------
(* An answer after which the call is over, or streams.                     *)
LEMMA LastAnswerKeeps ==
  ASSUME LlmAssumption, CallInv, NEW c \in Call, NEW a, NEW at \in {"over", "streaming"},
         NEW reply, call[c].at = "calling", Answered(c, a),
         Go(c, [call[c] EXCEPT !.at = at, !.reply = reply])
  PROVE  CallInv'
<1> DEFINE k == call[c]
           new == [k EXCEPT !.at = at, !.reply = reply]
<1>1. Shaped(k, asked[c])
  BY DEF CallInv, Sound
<1>2. /\ DOMAIN new = CallParts /\ new.at = at /\ new.nth = k.nth /\ new.prompt = k.prompt
      /\ new.tries = k.tries /\ new.again = k.again
  BY <1>1 DEF Shaped, CallParts
<1>3. Go(c, new)
  OBVIOUS
<1> HIDE DEF new
<1>4. new.at \notin Before /\ new.at # "calling"
  BY <1>2 DEF Before
<1>5. new.tries \in Nat /\ new.again \in BOOLEAN /\ IsSeq(new.prompt)
  BY <1>1, <1>2 DEF Shaped
<1> QED BY <1>2, <1>3, <1>4, <1>5, AnswerKeeps

LEMMA OverAnswered ==
  ASSUME LlmAssumption, CallInv, NEW c \in Call, NEW a, NEW reply, call[c].at = "calling",
         Answered(c, a), Over(c, reply)
  PROVE  CallInv'
BY LastAnswerKeeps DEF Over

LEMMA RetryKeeps ==
  ASSUME LlmAssumption, CallInv, NEW c \in Call, NEW a, call[c].at = "calling",
         Answered(c, a), Retries(c, a), Go(c, [call[c] EXCEPT !.tries = @ + 1])
  PROVE  CallInv'
<1> DEFINE k == call[c]
           new == [k EXCEPT !.tries = @ + 1]
<1>1. Shaped(k, asked[c]) /\ k.chunks = 0
  BY DEF CallInv, Sound, Blank
<1>2. /\ DOMAIN new = CallParts /\ new.at = "calling" /\ new.nth = k.nth
      /\ new.prompt = k.prompt /\ new.tries = k.tries + 1 /\ new.again = k.again
      /\ new.chunks = 0
  BY <1>1 DEF Shaped, CallParts
<1>3. Go(c, new)
  OBVIOUS
<1>4. a \in Retryable /\ k.tries + 1 < MaxAttempts
  BY DEF Retries, Retried
<1> HIDE DEF new
<1>5. new.tries \in Nat /\ new.again \in BOOLEAN /\ IsSeq(new.prompt) /\ new.tries < MaxAttempts
  BY <1>1, <1>2, <1>4 DEF Shaped
<1>6. Attempts(k) + 1 <= Attempts(new)
  BY <1>1, <1>2, Bounds DEF Attempts, Shaped
<1>7. new.at \notin Before
  BY <1>2 DEF Before
<1> QED BY <1>2, <1>3, <1>4, <1>5, <1>6, <1>7, AnswerKeeps

LEMMA ShortenKeeps ==
  ASSUME LlmAssumption, CallInv, NEW c \in Call, call[c].at = "calling",
         Answered(c, "overflow"), Shortened(c),
         Go(c, [call[c] EXCEPT !.again = TRUE, !.tries = 0, !.prompt = Quarter(@)])
  PROVE  CallInv'
<1> DEFINE k == call[c]
           new == [k EXCEPT !.again = TRUE, !.tries = 0, !.prompt = Quarter(@)]
<1>1. Shaped(k, asked[c]) /\ k.chunks = 0 /\ k.tries < MaxAttempts
  BY DEF CallInv, Sound, Blank, Underway
<1>2. /\ DOMAIN new = CallParts /\ new.at = "calling" /\ new.nth = k.nth
      /\ new.prompt = Quarter(k.prompt) /\ new.tries = 0 /\ new.again = TRUE
      /\ new.chunks = 0
  BY <1>1 DEF Shaped, CallParts
<1>3. Go(c, new)
  OBVIOUS
<1>4. k.again = FALSE /\ Len(k.prompt) > 2
  BY <1>1 DEF Shortened, Shaped
<1> HIDE DEF new
<1>5. IsSeq(new.prompt) /\ Len(new.prompt) < Len(k.prompt)
  BY <1>1, <1>2, <1>4, QuarterIsShorter DEF Shaped
<1>6. Attempts(k) + 1 <= Attempts(new) /\ new.tries \in Nat /\ new.tries < MaxAttempts
  BY <1>1, <1>2, <1>4, Bounds DEF Attempts, Shaped
<1>7. new.at \notin Before /\ new.again \in BOOLEAN
  BY <1>2 DEF Before
<1> QED BY <1>2, <1>3, <1>5, <1>6, <1>7, AnswerKeeps

LEMMA FailsKeeps ==
  ASSUME LlmAssumption, CallInv, NEW c \in Call, NEW f \in Failure, Fails(c, f)
  PROVE  CallInv'
<1>1. call[c].at = "calling" /\ Answered(c, f)
  BY DEF Fails
<1>2. CASE Retries(c, f)
  <2>1. Go(c, [call[c] EXCEPT !.tries = @ + 1])
    BY <1>2 DEF Fails
  <2> QED BY <1>1, <1>2, <2>1, RetryKeeps
<1>3. CASE ~Retries(c, f) /\ f # "overflow"
  <2>1. Over(c, "error")
    BY <1>3 DEF Fails
  <2> QED BY <1>1, <2>1, OverAnswered
<1>4. CASE ~Retries(c, f) /\ f = "overflow" /\ Shortened(c)
  <2>1. Go(c, [call[c] EXCEPT !.again = TRUE, !.tries = 0, !.prompt = Quarter(@)])
    BY <1>4 DEF Fails
  <2> QED BY <1>1, <1>4, <2>1, ShortenKeeps
<1>5. CASE ~Retries(c, f) /\ f = "overflow" /\ ~Shortened(c)
  <2>1. Raises(c, "overflow")
    BY <1>5 DEF Fails
  <2>2. Over(c, "raised")
    BY <2>1 DEF Raises, Definite
  <2> QED BY <1>1, <2>2, OverAnswered
<1> QED BY <1>2, <1>3, <1>4, <1>5

LEMMA RefusesKeeps ==
  ASSUME LlmAssumption, CallInv, NEW c \in Call, NEW f \in Failure, RefusesStream(c, f)
  PROVE  CallInv'
<1>1. call[c].at = "calling" /\ Answered(c, f)
  BY DEF RefusesStream
<1>2. CASE Retries(c, f)
  <2>1. Go(c, [call[c] EXCEPT !.tries = @ + 1])
    BY <1>2 DEF RefusesStream
  <2> QED BY <1>1, <1>2, <2>1, RetryKeeps
<1>3. CASE ~Retries(c, f)
  <2>1. Over(c, "raised")
    BY <1>3 DEF RefusesStream
  <2> QED BY <1>1, <2>1, OverAnswered
<1> QED BY <1>2, <1>3

LEMMA OpensKeeps ==
  ASSUME LlmAssumption, CallInv, NEW c \in Call, Opens(c)
  PROVE  CallInv'
<1> DEFINE k == call[c]
           new == [k EXCEPT !.at = "streaming"]
<1>1. k.at = "calling" /\ Answered(c, "ok") /\ Go(c, new)
  BY DEF Opens
<1>2. Shaped(k, asked[c])
  BY DEF CallInv, Sound
<1>3. /\ DOMAIN new = CallParts /\ new.at = "streaming" /\ new.nth = k.nth
      /\ new.prompt = k.prompt /\ new.tries = k.tries /\ new.again = k.again
  BY <1>2 DEF Shaped, CallParts
<1> HIDE DEF new
<1>4. new.at \notin Before /\ new.at # "calling"
  BY <1>3 DEF Before
<1>5. new.tries \in Nat /\ new.again \in BOOLEAN /\ IsSeq(new.prompt)
  BY <1>2, <1>3 DEF Shaped
<1> QED BY <1>1, <1>3, <1>4, <1>5, AnswerKeeps

LEMMA ChunkKeeps ==
  ASSUME CallInv, NEW c \in Call, Chunk(c)
  PROVE  CallInv'
<1> DEFINE k == call[c]
           new == [k EXCEPT !.chunks = @ + 1]
<1>1. k.at = "streaming" /\ Go(c, new) /\ UNCHANGED asked
  BY DEF Chunk
<1>2. Sound(k, asked[c])
  BY DEF CallInv
<1>3. DOMAIN k = CallParts
  BY EarlyFacts
<1>4. /\ DOMAIN new = CallParts /\ new.at = "streaming" /\ new.nth = k.nth
      /\ new.prompt = k.prompt /\ new.tries = k.tries /\ new.again = k.again
  BY <1>1, <1>3 DEF CallParts
<1> HIDE DEF new
<1>5. Shaped(new, asked[c])
  BY <1>2, <1>4 DEF Sound, Shaped
<1>6. Blank(new, asked[c]) /\ Underway(new, asked[c]) /\ Spent(asked[c])
  BY <1>2, <1>4 DEF Sound, Blank, Underway, Before
<1>7. Sound(new, asked[c])
  BY <1>5, <1>6 DEF Sound
<1> QED BY <1>1, <1>7, MoveKeeps

LEMMA StepKeeps ==
  ASSUME LlmAssumption, CallInv, NEW c \in Call, Step(c)
  PROVE  CallInv'
<1>1. CASE Resolve(c) \/ Format(c) \/ Probe(c) \/ Prepare(c)
  BY <1>1, ResolveKeeps, FormatKeeps, PrepareKeeps
<1>2. CASE Succeeds(c)
  <2>1. PICK reply : Over(c, reply)
    BY <1>2 DEF Succeeds
  <2> QED BY <1>2, <2>1, OverAnswered DEF Succeeds
<1>3. CASE Opens(c) \/ Chunk(c)
  BY <1>3, OpensKeeps, ChunkKeeps
<1>4. CASE StreamEnds(c) \/ Breaks(c)
  BY <1>4, OverKeeps DEF StreamEnds, Breaks
<1>5. CASE \E f \in Failure : Fails(c, f) \/ RefusesStream(c, f)
  BY <1>5, FailsKeeps, RefusesKeeps
<1>6. CASE \E a \in Failure \cup {"ok"} : Embeds(c, a)
  <2>1. PICK a : Embeds(c, a)
    BY <1>6
  <2>2. PICK reply : Over(c, reply)
    BY <2>1 DEF Embeds
  <2> QED BY <2>1, <2>2, OverAnswered DEF Embeds
<1> QED BY <1>1, <1>2, <1>3, <1>4, <1>5, <1>6 DEF Step

LEMMA CallInit == ASSUME LlmAssumption, Init PROVE CallInv
<1>1. DOMAIN call = Call /\ DOMAIN asked = Call
  BY DEF Init
<1>2. ASSUME NEW c \in Call PROVE Sound(call[c], asked[c])
  <2>1. /\ DOMAIN call[c] = CallParts /\ call[c].nth = 1 /\ call[c].tries = 0
        /\ call[c].again = FALSE /\ call[c].prompt = <<>> /\ call[c].at = "no"
        /\ call[c].chunks = 0
    BY DEF Init, CallParts
  <2>2. /\ DOMAIN asked[c] = AskedParts /\ asked[c].times = 0 /\ asked[c].model = None
        /\ asked[c].after = 0
    BY DEF Init, AskedParts
  <2>3. IsSeq(<<>>)
    <3>1. <<>> \in Seq(Nat)
      OBVIOUS
    <3> QED BY <3>1 DEF IsSeq
  <2>4. Shaped(call[c], asked[c])
    <3>1. call[c].nth \in 1..Len(Chain) /\ call[c].tries \in Nat /\ asked[c].times \in Nat
      BY <2>1, <2>2, Bounds
    <3>2. call[c].again \in BOOLEAN
      BY <2>1
    <3> QED BY <2>1, <2>2, <2>3, <3>1, <3>2 DEF Shaped
  <2>5. Blank(call[c], asked[c]) /\ Underway(call[c], asked[c]) /\ Spent(asked[c])
    BY <2>1, <2>2, Bounds DEF Blank, Underway, Spent
  <2> QED BY <2>4, <2>5 DEF Sound
<1> QED BY <1>1, <1>2 DEF CallInv

LEMMA CallNext ==
  ASSUME LlmAssumption, CallInv, [Next]_vars
  PROVE  CallInv'
<1>1. CASE Next
  BY <1>1, StepKeeps, AskKeeps DEF Next
<1>2. CASE UNCHANGED vars
  BY <1>2 DEF vars, CallInv, Sound, Shaped, Blank, Underway, Spent, Attempts, Renewed, IsSeq
<1> QED BY <1>1, <1>2

LEMMA CallAlways == ASSUME LlmAssumption PROVE Spec => []CallInv
<1>1. Init => CallInv
  BY CallInit
<1>2. CallInv /\ [Next]_vars => CallInv'
  BY CallNext
<1> QED BY <1>1, <1>2, PTL DEF Spec

(* For any policy and any answers of the providers, no request is sent     *)
(* more often than twice the attempts of the settings, the probe of the    *)
(* prompt format not counted (retries.py, client.py).                      *)
THEOREM BoundsAttempts == ASSUME LlmAssumption PROVE Spec => []AttemptsAreBounded
<1>1. CallInv => AttemptsAreBounded
  BY DEF CallInv, Sound, Spent, AttemptsAreBounded
<1> QED BY <1>1, CallAlways, PTL

(* Whatever breaks in a stream, its consumer is not given another answer's *)
(* beginning after a part of one (client.py 362-363).                      *)
THEOREM ReplaysNothing == ASSUME LlmAssumption PROVE Spec => []NoReplay
<1>1. CallInv => NoReplay
  BY DEF CallInv, Sound, Spent, NoReplay
<1> QED BY <1>1, CallAlways, PTL

-----------------------------------------------------------------------------
(* Who is asked is asked from one place.                                   *)
LEMMA OnlyCallsAsk ==
  ASSUME NEW c \in Call, Step(c)
  PROVE  \/ UNCHANGED asked
         \/ call[c].at = "calling" /\ (\E a : Answered(c, a))
<1>1. CASE Resolve(c) \/ Format(c) \/ Probe(c) \/ Prepare(c) \/ Chunk(c) \/ StreamEnds(c) \/ Breaks(c)
  BY <1>1 DEF Resolve, Format, Probe, Prepare, Chunk, StreamEnds, Breaks
<1>2. CASE Succeeds(c) \/ Opens(c)
  BY <1>2 DEF Succeeds, Opens
<1>3. CASE \E f \in Failure : Fails(c, f) \/ RefusesStream(c, f)
  BY <1>3 DEF Fails, RefusesStream
<1>4. CASE \E a \in Failure \cup {"ok"} : Embeds(c, a)
  BY <1>4 DEF Embeds
<1> QED BY <1>1, <1>2, <1>3, <1>4 DEF Step

(* A provider is asked again only after an answer that may pass, or with a *)
(* shorter prompt than the one it found too long (client.py 302-303).      *)
THEOREM FailsAtOnce == ASSUME LlmAssumption PROVE Spec => FailsFast
<1> DEFINE Again(d) ==
      asked[d].model = asked'[d].model /\ asked[d].times < asked'[d].times =>
            \/ asked[d].answer \in Retryable
            \/ asked[d].answer = "overflow" /\ Len(asked'[d].sent) < Len(asked[d].sent)
      Asks(d) == \/ asked'[d] = asked[d]
                 \/ call[d].at = "calling" /\ (\E a : Answered(d, a))
<1>1. ASSUME CallInv, [Next]_vars, NEW d \in Call PROVE Again(d)
  <2>1. asked[d].times \in Nat /\ Sound(call[d], asked[d])
    BY <1>1 DEF CallInv, Sound, Shaped
  <2>2. CASE asked'[d] = asked[d]
    BY <2>1, <2>2
  <2>3. CASE call[d].at = "calling" /\ (\E a : Answered(d, a))
    <3>1. asked'[d].model = The(d) /\ asked'[d].sent = call[d].prompt
      BY <1>1, <2>3, AnsweredEffect
    <3>2. The(d) # None
      <4>1. call[d].nth \in 1..Len(Chain)
        BY <2>1 DEF Sound, Shaped
      <4> QED BY <4>1, Bounds DEF The
    <3>3. asked[d].times > 0 => Renewed(call[d], asked[d])
      BY <2>1, <2>3 DEF Sound, Underway
    <3>4. asked[d].times = 0 => asked[d].model = None
      BY <2>1 DEF Sound, Blank
    <3> QED BY <2>1, <3>1, <3>2, <3>3, <3>4 DEF Renewed
  <2>4. Asks(d)
    <3>1. CASE UNCHANGED vars
      BY <3>1 DEF vars
    <3>2. ASSUME NEW c \in Call, Step(c) PROVE Asks(d)
      <4>1. CASE UNCHANGED asked
        BY <4>1
      <4>2. CASE call[c].at = "calling" /\ (\E a : Answered(c, a))
        BY <1>1, <4>2, AnsweredEffect
      <4> QED BY <3>2, <4>1, <4>2, OnlyCallsAsk
    <3>3. ASSUME NEW c \in Call, NEW way \in Way, NEW p \in Prompt, Ask(c, way, p)
          PROVE  asked'[d] = asked[d]
      BY <3>3 DEF Ask
    <3> QED BY <1>1, <3>1, <3>2, <3>3 DEF Next
  <2> QED BY <2>2, <2>3, <2>4
<1>2. CallInv /\ [Next]_vars =>
        [\A c \in Call :
            asked[c].model = asked'[c].model /\ asked[c].times < asked'[c].times =>
                \/ asked[c].answer \in Retryable
                \/ asked[c].answer = "overflow" /\ Len(asked'[c].sent) < Len(asked[c].sent)]_vars
  BY <1>1
<1> QED BY <1>2, CallAlways, PTL DEF Spec, FailsFast

-----------------------------------------------------------------------------
(* A call of a tool, k, with its unanswered requests n and what was done   *)
(* for it, m.  Open: the provider may still act on the request under way,  *)
(* or on the one a redirection repeats.  Every deed, unanswered request    *)
(* and open request is of an attempt of its own.                           *)
ToolParts == {"at", "tries", "hops", "wire", "safe", "response", "error", "status",
              "row", "update", "base"}
Early == {"idle", "limit", "send", "wait"}

Open(k) == ~k.safe /\ (k.wire = "sent" \/ (k.at = "send" /\ k.hops > 0))

Formed(k) == /\ DOMAIN k = ToolParts /\ k.tries \in Nat /\ k.hops \in Nat /\ k.safe \in BOOLEAN
             /\ k.at = "wait" <=> k.wire # "none"
             /\ k.wire \in {"none", "sent", "served"}
             /\ k.at \in {"idle", "limit"} => k.tries = 0 /\ k.hops = 0

Within(t, k) == /\ k.tries <= EffectiveMaxAttempts(t)
                /\ k.at = "send" /\ k.hops = 0 => k.tries < EffectiveMaxAttempts(t)

Tallied(t, k, n, m) == /\ n \in Nat /\ m \in Nat
                       /\ n + m + (IF Open(k) THEN 1 ELSE 0) <= k.tries
                       /\ t \in Keyed => m <= 1

Told(k, m) == /\ k.wire = "served" => m > 0 \/ k.safe
              /\ k.at \in Early => k.response # "ok" /\ k.status = "none" /\ k.row = "none"
              /\ k.status = "success" => k.response = "ok" /\ (m > 0 \/ k.safe)
              /\ k.row # "none" => k.row = k.status

One(t, k, n, m) == Formed(k) /\ Within(t, k) /\ Tallied(t, k, n, m) /\ Told(k, m)

Stands(c) == One(ToolOf[c], toolCall[c], stray[c], acted[c])
ToolInv == /\ DOMAIN toolCall = ToolCall /\ stray \in [ToolCall -> Nat] /\ acted \in [ToolCall -> Nat]
           /\ \A c \in ToolCall : Stands(c)

With(k, changes) == [x \in DOMAIN k |-> IF x \in DOMAIN changes THEN changes[x] ELSE k[x]]

-----------------------------------------------------------------------------
LEMMA ToolBounds ==
  ASSUME NEW c \in ToolCall
  PROVE  /\ EffectiveMaxAttempts(ToolOf[c]) \in Nat \ {0}
         /\ MaxRetries[ToolOf[c]] \in Nat
         /\ ToolOf[c] \notin Idempotent => EffectiveMaxAttempts(ToolOf[c]) = 1
         /\ ToolOf[c] \in Idempotent =>
                EffectiveMaxAttempts(ToolOf[c]) = MaxRetries[ToolOf[c]] + 1
<1>1. ToolOf[c] \in Tool
  BY ToolAssumption
<1>2. MaxRetries[ToolOf[c]] \in Nat
  BY <1>1, ToolAssumption
<1> QED BY <1>2 DEF EffectiveMaxAttempts

(* A step of one call leaves the others as they are.                       *)
LEMMA OneMoves ==
  ASSUME ToolInv, NEW c \in ToolCall, NEW k, NEW n, NEW m,
         toolCall' = [toolCall EXCEPT ![c] = k],
         stray' = [stray EXCEPT ![c] = n], acted' = [acted EXCEPT ![c] = m],
         One(ToolOf[c], k, n, m)
  PROVE  ToolInv'
<1>1. DOMAIN toolCall' = ToolCall /\ stray' \in [ToolCall -> Nat] /\ acted' \in [ToolCall -> Nat]
  BY DEF ToolInv, One, Tallied
<1>2. ASSUME NEW d \in ToolCall PROVE Stands(d)'
  <2>1. CASE d = c
    <3>1. toolCall'[d] = k /\ stray'[d] = n /\ acted'[d] = m
      BY <2>1 DEF ToolInv
    <3> QED BY <2>1, <3>1 DEF Stands
  <2>2. CASE d # c
    <3>1. toolCall'[d] = toolCall[d] /\ stray'[d] = stray[d] /\ acted'[d] = acted[d]
      BY <2>2 DEF ToolInv
    <3> QED BY <3>1 DEF Stands, ToolInv
  <2> QED BY <2>1, <2>2
<1> QED BY <1>1, <1>2 DEF ToolInv

LEMMA CallMoves ==
  ASSUME ToolInv, NEW c \in ToolCall, NEW k,
         toolCall' = [toolCall EXCEPT ![c] = k], UNCHANGED <<stray, acted>>,
         One(ToolOf[c], k, stray[c], acted[c])
  PROVE  ToolInv'
<1>1. PICK n, m : n = stray[c] /\ m = acted[c]
  OBVIOUS
<1>2. stray' = [stray EXCEPT ![c] = n] /\ acted' = [acted EXCEPT ![c] = m]
  BY <1>1 DEF ToolInv
<1>3. One(ToolOf[c], k, n, m)
  BY <1>1
<1> QED BY <1>2, <1>3, OneMoves

LEMMA WithGives ==
  ASSUME NEW k, DOMAIN k = ToolParts, NEW changes
  PROVE  /\ DOMAIN With(k, changes) = ToolParts
         /\ \A x \in ToolParts :
                With(k, changes)[x] = IF x \in DOMAIN changes THEN changes[x] ELSE k[x]
BY DEF With

LEMMA GoesIsWith ==
  ASSUME ToolInv, NEW c \in ToolCall, NEW changes, Goes(c, changes)
  PROVE  toolCall' = [toolCall EXCEPT ![c] = With(toolCall[c], changes)]
BY DEF ToolInv, Goes, With

(* Moves that change nothing the invariant counts.                         *)
LEMMA ReturnsKeeps ==
  ASSUME ToolInv, NEW c \in ToolCall, NEW status, status # "success",
         toolCall[c].at \in {"idle", "limit"},
         Returns(c, status), UNCHANGED <<stray, acted>>
  PROVE  ToolInv'
<1> DEFINE k == toolCall[c]
           ch == [at |-> "returned", status |-> status]
           j == With(k, ch)
<1>1. One(ToolOf[c], k, stray[c], acted[c])
  BY DEF ToolInv, Stands
<1>2. DOMAIN k = ToolParts
  BY <1>1 DEF One, Formed
<1>3. /\ DOMAIN j = ToolParts /\ j.at = "returned" /\ j.status = status
      /\ j.tries = k.tries /\ j.hops = k.hops /\ j.wire = k.wire /\ j.safe = k.safe
      /\ j.response = k.response /\ j.row = k.row
  BY <1>2, WithGives DEF ToolParts
<1> HIDE DEF j
<1>4. One(ToolOf[c], j, stray[c], acted[c])
  <2>1. Formed(j)
    BY <1>1, <1>3 DEF One, Formed
  <2>2. Within(ToolOf[c], j)
    BY <1>1, <1>3 DEF One, Within
  <2>3. Tallied(ToolOf[c], j, stray[c], acted[c])
    BY <1>1, <1>3 DEF One, Tallied, Open, Formed
  <2>4. Told(j, acted[c])
    BY <1>1, <1>3 DEF One, Told, Early, Formed
  <2> QED BY <2>1, <2>2, <2>3, <2>4 DEF One
<1>5. toolCall' = [toolCall EXCEPT ![c] = j]
  BY GoesIsWith DEF Returns, j
<1> QED BY <1>4, <1>5, CallMoves

LEMMA RaisesKeeps ==
  ASSUME ToolInv, NEW c \in ToolCall, toolCall[c].wire = "none",
         Throws(c), UNCHANGED <<stray, acted>>
  PROVE  ToolInv'
<1> DEFINE k == toolCall[c]
           ch == [at |-> "raised"]
           j == With(k, ch)
<1>1. One(ToolOf[c], k, stray[c], acted[c])
  BY DEF ToolInv, Stands
<1>2. DOMAIN k = ToolParts
  BY <1>1 DEF One, Formed
<1>3. /\ DOMAIN j = ToolParts /\ j.at = "raised" /\ j.status = k.status
      /\ j.tries = k.tries /\ j.hops = k.hops /\ j.wire = "none" /\ j.safe = k.safe
      /\ j.response = k.response /\ j.row = k.row
  BY <1>2, WithGives DEF ToolParts
<1> HIDE DEF j
<1>4. One(ToolOf[c], j, stray[c], acted[c])
  <2>1. Formed(j)
    BY <1>1, <1>3 DEF One, Formed
  <2>2. Within(ToolOf[c], j)
    BY <1>1, <1>3 DEF One, Within
  <2>3. Tallied(ToolOf[c], j, stray[c], acted[c])
    BY <1>1, <1>3 DEF One, Tallied, Open, Formed
  <2>4. Told(j, acted[c])
    BY <1>1, <1>3 DEF One, Told, Early, Formed
  <2> QED BY <2>1, <2>2, <2>3, <2>4 DEF One
<1>5. toolCall' = [toolCall EXCEPT ![c] = j]
  BY GoesIsWith DEF Throws, j
<1> QED BY <1>4, <1>5, CallMoves

(* The attempts are over.                                                  *)
LEMMA ConcludesKeeps ==
  ASSUME ToolInv, NEW c \in ToolCall, NEW k, Concludes(c, k),
         NEW n \in Nat, stray' = [stray EXCEPT ![c] = n], UNCHANGED acted,
         DOMAIN k = ToolParts, k.wire = "none", k.row = "none", k.safe \in BOOLEAN,
         k.tries \in Nat, k.hops \in Nat, k.tries <= EffectiveMaxAttempts(ToolOf[c]),
         n + acted[c] <= k.tries,
         k.response = "ok" => acted[c] > 0 \/ k.safe
  PROVE  ToolInv'
<1>1. PICK status \in {BuildResult(k)} \cup
            (IF BuildResult(k) = "success" /\ ToolOf[c] \in Checked
             THEN {"validation_error"} ELSE {}) :
          toolCall' = [toolCall EXCEPT ![c] = [k EXCEPT !.at = "persist", !.status = status]]
  BY DEF Concludes
<1>2. status = "success" => k.response = "ok"
  BY <1>1 DEF BuildResult
<1>3. PICK j : j = [k EXCEPT !.at = "persist", !.status = status]
  OBVIOUS
<1>4. /\ DOMAIN j = ToolParts /\ j.at = "persist" /\ j.status = status
      /\ j.tries = k.tries /\ j.hops = k.hops /\ j.wire = "none" /\ j.safe = k.safe
      /\ j.response = k.response /\ j.row = "none"
  BY <1>3 DEF ToolParts
<1>5. acted[c] \in Nat /\ (ToolOf[c] \in Keyed => acted[c] <= 1)
  BY DEF ToolInv, Stands, One, Tallied
<1>6. One(ToolOf[c], j, n, acted[c])
  <2>1. Formed(j) /\ Within(ToolOf[c], j)
    BY <1>4 DEF Formed, Within
  <2>2. Tallied(ToolOf[c], j, n, acted[c])
    BY <1>4, <1>5 DEF Tallied, Open
  <2>3. Told(j, acted[c])
    BY <1>2, <1>4 DEF Told, Early
  <2> QED BY <2>1, <2>2, <2>3 DEF One
<1>7. PICK m : m = acted[c]
  OBVIOUS
<1>8. acted' = [acted EXCEPT ![c] = m] /\ One(ToolOf[c], j, n, m)
  BY <1>6, <1>7 DEF ToolInv
<1>9. toolCall' = [toolCall EXCEPT ![c] = j]
  BY <1>1, <1>3
<1> QED BY <1>8, <1>9, OneMoves

(* A new attempt, or the end, with n unanswered requests.                  *)
LEMMA RetriedKeeps ==
  ASSUME ToolInv, NEW c \in ToolCall, NEW k, Resends(c, k),
         NEW n \in Nat, stray' = [stray EXCEPT ![c] = n], UNCHANGED acted,
         DOMAIN k = ToolParts, k.wire = "none", k.row = "none", k.status = "none",
         k.response # "ok", k.tries \in Nat,
         k.tries < EffectiveMaxAttempts(ToolOf[c]),
         n + acted[c] <= k.tries
  PROVE  ToolInv'
<1>1. PICK j : j = [k EXCEPT !.at = "send", !.hops = 0, !.safe = FALSE]
  OBVIOUS
<1>2. /\ DOMAIN j = ToolParts /\ j.at = "send" /\ j.status = "none"
      /\ j.tries = k.tries /\ j.hops = 0 /\ j.wire = "none" /\ ~j.safe /\ j.safe \in BOOLEAN
      /\ j.response = k.response /\ j.row = "none"
  BY <1>1 DEF ToolParts
<1>3. acted[c] \in Nat /\ (ToolOf[c] \in Keyed => acted[c] <= 1)
  BY DEF ToolInv, Stands, One, Tallied
<1>4. One(ToolOf[c], j, n, acted[c])
  <2>1. Formed(j)
    BY <1>2 DEF Formed
  <2>2. Within(ToolOf[c], j)
    BY <1>2, ToolBounds DEF Within
  <2>3. Tallied(ToolOf[c], j, n, acted[c])
    BY <1>2, <1>3 DEF Tallied, Open
  <2>4. Told(j, acted[c])
    BY <1>2, ToolBounds DEF Told
  <2> QED BY <2>1, <2>2, <2>3, <2>4 DEF One
<1>5. PICK m : m = acted[c]
  OBVIOUS
<1>6. acted' = [acted EXCEPT ![c] = m] /\ One(ToolOf[c], j, n, m)
  BY <1>4, <1>5 DEF ToolInv
<1>7. toolCall' = [toolCall EXCEPT ![c] = j]
  BY <1>1 DEF Resends
<1> QED BY <1>6, <1>7, OneMoves

LEMMA RetryOrKeeps ==
  ASSUME ToolInv, NEW c \in ToolCall, NEW k, RetryOr(c, k),
         NEW n \in Nat, stray' = [stray EXCEPT ![c] = n], UNCHANGED acted,
         DOMAIN k = ToolParts, k.wire = "none", k.row = "none", k.status = "none",
         k.safe \in BOOLEAN, k.response # "ok", k.tries \in Nat, k.hops \in Nat,
         k.tries <= EffectiveMaxAttempts(ToolOf[c]),
         n + acted[c] <= k.tries
  PROVE  ToolInv'
<1>1. CASE k.tries < EffectiveMaxAttempts(ToolOf[c])
  BY <1>1, RetriedKeeps DEF RetryOr
<1>2. CASE ~(k.tries < EffectiveMaxAttempts(ToolOf[c]))
  BY <1>2, ConcludesKeeps DEF RetryOr
<1> QED BY <1>1, <1>2

(* What is known of a call that waits for its answer.                      *)
LEMMA Waiting ==
  ASSUME ToolInv, NEW c \in ToolCall, toolCall[c].at = "wait"
  PROVE  /\ DOMAIN toolCall[c] = ToolParts /\ toolCall[c].wire \in {"sent", "served"}
         /\ toolCall[c].tries \in Nat /\ toolCall[c].hops \in Nat /\ toolCall[c].safe \in BOOLEAN
         /\ toolCall[c].row = "none" /\ toolCall[c].status = "none" /\ toolCall[c].response # "ok"
         /\ toolCall[c].tries <= EffectiveMaxAttempts(ToolOf[c])
         /\ stray[c] \in Nat /\ acted[c] \in Nat /\ (ToolOf[c] \in Keyed => acted[c] <= 1)
         /\ stray[c] + acted[c] <= toolCall[c].tries
         /\ (toolCall[c].wire = "sent" /\ ~toolCall[c].safe =>
                stray[c] + 1 + acted[c] <= toolCall[c].tries)
         /\ (toolCall[c].wire = "served" => acted[c] > 0 \/ toolCall[c].safe)
<1>1. One(ToolOf[c], toolCall[c], stray[c], acted[c])
  BY DEF ToolInv, Stands
<1>2. Formed(toolCall[c]) /\ Within(ToolOf[c], toolCall[c]) /\ Told(toolCall[c], acted[c])
      /\ Tallied(ToolOf[c], toolCall[c], stray[c], acted[c])
  BY <1>1 DEF One
<1>3. stray[c] \in Nat /\ acted[c] \in Nat
      /\ stray[c] + acted[c] + (IF Open(toolCall[c]) THEN 1 ELSE 0) <= toolCall[c].tries
      /\ toolCall[c].tries \in Nat
  BY <1>2 DEF Tallied, Formed
<1>4. toolCall[c].wire = "sent" /\ ~toolCall[c].safe => Open(toolCall[c])
  BY DEF Open
<1> QED BY <1>2, <1>3, <1>4 DEF Formed, Within, Told, Early, Tallied

LEMMA ReceiveKeeps ==
  ASSUME ToolInv, NEW c \in ToolCall, NEW answer, Receive(c, answer)
  PROVE  ToolInv'
<1>1. PICK k : k = [toolCall[c] EXCEPT !.wire = "none"]
  OBVIOUS
<1>2. PICK heard : heard = [k EXCEPT !.response = answer]
  OBVIOUS
<1>3. toolCall[c].at = "wait" /\ answer \in Answers(toolCall[c].wire) /\ UNCHANGED <<stray, acted>>
  BY DEF Receive
<1>4. /\ DOMAIN toolCall[c] = ToolParts /\ toolCall[c].row = "none" /\ toolCall[c].status = "none"
      /\ toolCall[c].response # "ok" /\ toolCall[c].tries \in Nat /\ toolCall[c].hops \in Nat
      /\ toolCall[c].safe \in BOOLEAN /\ toolCall[c].tries <= EffectiveMaxAttempts(ToolOf[c])
      /\ stray[c] + acted[c] <= toolCall[c].tries
      /\ (toolCall[c].wire = "served" => acted[c] > 0 \/ toolCall[c].safe)
  BY <1>3, Waiting
<1>5. /\ DOMAIN k = ToolParts /\ k.wire = "none" /\ k.tries = toolCall[c].tries
      /\ k.hops = toolCall[c].hops /\ k.safe = toolCall[c].safe /\ k.status = "none"
      /\ k.response # "ok" /\ k.row = "none" /\ k.at = "wait"
  BY <1>1, <1>3, <1>4 DEF ToolParts
<1>6. /\ DOMAIN heard = ToolParts /\ heard.wire = "none" /\ heard.tries = toolCall[c].tries
      /\ heard.hops = toolCall[c].hops /\ heard.safe = toolCall[c].safe /\ heard.status = "none"
      /\ heard.response = answer /\ heard.row = "none"
  BY <1>2, <1>5 DEF ToolParts
<1>7. PICK n, m : n = stray[c] /\ m = acted[c]
  OBVIOUS
<1>8. stray' = [stray EXCEPT ![c] = n] /\ acted' = [acted EXCEPT ![c] = m] /\ n \in Nat
      /\ UNCHANGED acted
  BY <1>3, <1>7 DEF ToolInv
<1>9. CASE answer = "busy"
  <2>1. RetryOr(c, heard)
    BY <1>1, <1>2, <1>9 DEF Receive
  <2> QED BY <1>3, <1>6, <1>7, <1>8, <1>9, <2>1, Waiting, RetryOrKeeps
<1>10. CASE answer = "astray"
  <2>1. Concludes(c, [k EXCEPT !.error = "blocked"])
    BY <1>1, <1>2, <1>10 DEF Receive
  <2>2. PICK j : j = [k EXCEPT !.error = "blocked"]
    OBVIOUS
  <2>3. /\ DOMAIN j = ToolParts /\ j.wire = "none" /\ j.tries = toolCall[c].tries
        /\ j.hops = toolCall[c].hops /\ j.safe = toolCall[c].safe
        /\ j.response # "ok" /\ j.row = "none"
    BY <1>5, <2>2 DEF ToolParts
  <2>4. /\ j.safe \in BOOLEAN /\ j.tries \in Nat /\ j.hops \in Nat
        /\ j.tries <= EffectiveMaxAttempts(ToolOf[c]) /\ n + acted[c] <= j.tries
    BY <1>4, <1>7, <2>3
  <2> QED BY <1>8, <2>1, <2>2, <2>3, <2>4, ConcludesKeeps
<1>11. CASE answer \in {"see", "same"} /\ toolCall[c].hops < MaxHops
  <2>1. PICK j : j = [k EXCEPT !.at = "send", !.hops = @ + 1, !.safe = @ \/ answer = "see"]
    OBVIOUS
  <2>2. toolCall' = [toolCall EXCEPT ![c] = j]
    BY <1>1, <1>5, <1>11, <2>1 DEF Receive
  <2>3. /\ DOMAIN j = ToolParts /\ j.wire = "none" /\ j.tries = toolCall[c].tries
        /\ j.hops = toolCall[c].hops + 1 /\ j.at = "send" /\ j.status = "none"
        /\ j.response # "ok" /\ j.row = "none"
    BY <1>5, <2>1 DEF ToolParts
  <2>4. j.safe \in BOOLEAN /\ (~j.safe => ~toolCall[c].safe /\ toolCall[c].wire = "sent")
    <3>1. j.safe = (toolCall[c].safe \/ answer = "see")
      BY <1>5, <2>1 DEF ToolParts
    <3>2. answer = "same" => toolCall[c].wire = "sent"
      BY <1>3, Waiting DEF Answers
    <3> QED BY <1>3, <1>11, <3>1, <3>2, Waiting
  <2>5. One(ToolOf[c], j, n, m)
    <3>1. Formed(j) /\ Within(ToolOf[c], j)
      BY <1>3, <2>3, <2>4, Waiting DEF Formed, Within
    <3>2. Tallied(ToolOf[c], j, n, m)
      <4>1. CASE Open(j)
        BY <1>3, <1>7, <2>3, <2>4, <4>1, Waiting DEF Tallied, Open
      <4>2. CASE ~Open(j)
        BY <1>3, <1>7, <2>3, <2>4, <4>2, Waiting DEF Tallied
      <4> QED BY <4>1, <4>2
    <3>3. Told(j, m)
      BY <2>3, ToolBounds DEF Told
    <3> QED BY <3>1, <3>2, <3>3 DEF One
  <2> QED BY <1>8, <2>2, <2>5, OneMoves
<1>12. CASE ~(answer \in {"busy", "astray"}) /\ ~(answer \in {"see", "same"} /\ toolCall[c].hops < MaxHops)
  <2>1. Concludes(c, heard)
    BY <1>1, <1>2, <1>5, <1>12 DEF Receive
  <2>2. answer = "ok" => toolCall[c].wire = "served"
    BY <1>3, Waiting DEF Answers
  <2>3. /\ heard.wire = "none" /\ heard.row = "none" /\ heard.safe \in BOOLEAN
        /\ heard.tries \in Nat /\ heard.hops \in Nat
        /\ heard.tries <= EffectiveMaxAttempts(ToolOf[c]) /\ n + acted[c] <= heard.tries
        /\ (heard.response = "ok" => acted[c] > 0 \/ heard.safe)
    BY <1>4, <1>6, <1>7, <2>2
  <2> QED BY <1>6, <1>8, <2>1, <2>3, ConcludesKeeps
<1> QED BY <1>9, <1>10, <1>11, <1>12

LEMMA ReceiveMcpKeeps ==
  ASSUME ToolInv, NEW c \in ToolCall, NEW answer, ReceiveMcp(c, answer)
  PROVE  ToolInv'
<1>1. PICK k : k = [toolCall[c] EXCEPT !.wire = "none"]
  OBVIOUS
<1>2. toolCall[c].at = "wait" /\ answer \in Answers(toolCall[c].wire) /\ UNCHANGED <<stray, acted>>
  BY DEF ReceiveMcp
<1>3. /\ DOMAIN k = ToolParts /\ k.wire = "none" /\ k.tries = toolCall[c].tries
      /\ k.hops = toolCall[c].hops /\ k.safe = toolCall[c].safe /\ k.status = "none"
      /\ k.response # "ok" /\ k.row = "none"
  BY <1>1, <1>2, Waiting DEF ToolParts
<1>4. PICK n, m : n = stray[c] /\ m = acted[c]
  OBVIOUS
<1>5. stray' = [stray EXCEPT ![c] = n] /\ acted' = [acted EXCEPT ![c] = m] /\ n \in Nat
      /\ UNCHANGED acted
  BY <1>2, <1>4 DEF ToolInv
<1>6. CASE answer \in {"ok", "failed"}
  <2>1. Concludes(c, [k EXCEPT !.response = answer])
    BY <1>1, <1>6 DEF ReceiveMcp
  <2>2. PICK j : j = [k EXCEPT !.response = answer]
    OBVIOUS
  <2>3. /\ DOMAIN j = ToolParts /\ j.wire = "none" /\ j.tries = toolCall[c].tries
        /\ j.hops = toolCall[c].hops /\ j.safe = toolCall[c].safe
        /\ j.response = answer /\ j.row = "none"
    BY <1>3, <2>2 DEF ToolParts
  <2>4. answer = "ok" => toolCall[c].wire = "served"
    BY <1>2, Waiting DEF Answers
  <2>5. /\ j.safe \in BOOLEAN /\ j.tries \in Nat /\ j.hops \in Nat
        /\ j.tries <= EffectiveMaxAttempts(ToolOf[c]) /\ n + acted[c] <= j.tries
        /\ (j.response = "ok" => acted[c] > 0 \/ j.safe)
    BY <1>2, <1>4, <2>3, <2>4, Waiting
  <2>6. Concludes(c, j)
    BY <2>1, <2>2
  <2> QED BY <1>5, <2>3, <2>5, <2>6, ConcludesKeeps
<1>7. CASE answer \notin {"ok", "failed"}
  <2>1. PICK j : j = [k EXCEPT !.at = "raised"]
    OBVIOUS
  <2>2. toolCall' = [toolCall EXCEPT ![c] = j]
    BY <1>1, <1>7, <2>1 DEF ReceiveMcp
  <2>3. /\ DOMAIN j = ToolParts /\ j.wire = "none" /\ j.tries = toolCall[c].tries
        /\ j.hops = toolCall[c].hops /\ j.safe = toolCall[c].safe /\ j.at = "raised"
        /\ j.status = "none" /\ j.row = "none"
    BY <1>3, <2>1 DEF ToolParts
  <2>4. One(ToolOf[c], j, n, m)
    <3>1. Formed(j) /\ Within(ToolOf[c], j)
      BY <1>2, <2>3, Waiting DEF Formed, Within
    <3>2. Tallied(ToolOf[c], j, n, m)
      BY <1>2, <1>4, <2>3, Waiting DEF Tallied, Open
    <3>3. Told(j, m)
      BY <2>3, ToolBounds DEF Told, Early
    <3> QED BY <3>1, <3>2, <3>3 DEF One
  <2> QED BY <1>5, <2>2, <2>4, OneMoves
<1> QED BY <1>6, <1>7

(* A request that is given up counts as unanswered if it may still be      *)
(* acted on.                                                               *)
LEMMA AbandonsEffect ==
  ASSUME ToolInv, NEW c \in ToolCall, Abandons(c)
  PROVE  \E n \in Nat : /\ stray' = [stray EXCEPT ![c] = n]
                        /\ n = IF toolCall[c].wire = "sent" /\ ~toolCall[c].safe
                               THEN stray[c] + 1 ELSE stray[c]
<1>1. stray \in [ToolCall -> Nat]
  BY DEF ToolInv
<1>2. CASE toolCall[c].wire = "sent" /\ ~toolCall[c].safe
  <2>1. stray' = [stray EXCEPT ![c] = stray[c] + 1]
    BY <1>2 DEF Abandons
  <2>2. stray[c] + 1 \in Nat
    BY <1>1
  <2> QED BY <1>2, <2>1, <2>2
<1>3. CASE ~(toolCall[c].wire = "sent" /\ ~toolCall[c].safe)
  BY <1>1, <1>3 DEF Abandons
<1> QED BY <1>2, <1>3

LEMMA LoseKeeps ==
  ASSUME ToolInv, NEW c \in ToolCall, NEW error, Lose(c, error)
  PROVE  ToolInv'
<1>1. PICK k : k = [toolCall[c] EXCEPT !.wire = "none", !.error = error]
  OBVIOUS
<1>2. toolCall[c].at = "wait" /\ RetryOr(c, k) /\ Abandons(c) /\ UNCHANGED acted
  BY <1>1 DEF Lose
<1>3. /\ DOMAIN k = ToolParts /\ k.wire = "none" /\ k.tries = toolCall[c].tries
      /\ k.hops = toolCall[c].hops /\ k.safe = toolCall[c].safe /\ k.status = "none"
      /\ k.response # "ok" /\ k.row = "none"
  BY <1>1, <1>2, Waiting DEF ToolParts
<1>4. PICK n \in Nat : /\ stray' = [stray EXCEPT ![c] = n]
                       /\ n = IF toolCall[c].wire = "sent" /\ ~toolCall[c].safe
                              THEN stray[c] + 1 ELSE stray[c]
  BY <1>2, AbandonsEffect
<1>5. n + acted[c] <= k.tries
  BY <1>2, <1>3, <1>4, Waiting
<1> QED BY <1>2, <1>3, <1>4, <1>5, Waiting, RetryOrKeeps

LEMMA CancelKeeps ==
  ASSUME ToolInv, NEW c \in ToolCall, Cancel(c)
  PROVE  ToolInv'
<1> DEFINE k == toolCall[c]
           ch == [at |-> "cancelled", wire |-> "none"]
           j == With(k, ch)
<1>1. One(ToolOf[c], k, stray[c], acted[c])
  BY DEF ToolInv, Stands
<1>2. DOMAIN k = ToolParts
  BY <1>1 DEF One, Formed
<1>3. /\ DOMAIN j = ToolParts /\ j.at = "cancelled" /\ j.status = k.status
      /\ j.tries = k.tries /\ j.hops = k.hops /\ j.wire = "none" /\ j.safe = k.safe
      /\ j.response = k.response /\ j.row = k.row
  BY <1>2, WithGives DEF ToolParts
<1>4. PICK n \in Nat : /\ stray' = [stray EXCEPT ![c] = n]
                       /\ n = IF k.wire = "sent" /\ ~k.safe THEN stray[c] + 1 ELSE stray[c]
  BY AbandonsEffect DEF Cancel
<1>5. toolCall' = [toolCall EXCEPT ![c] = j]
  BY GoesIsWith DEF Cancel
<1>6. PICK m : m = acted[c]
  OBVIOUS
<1>7. acted' = [acted EXCEPT ![c] = m]
  BY <1>6 DEF Cancel, ToolInv
<1> HIDE DEF j
<1>8. One(ToolOf[c], j, n, m)
  <2>1. Formed(j) /\ Within(ToolOf[c], j)
    BY <1>1, <1>3 DEF One, Formed, Within
  <2>2. Tallied(ToolOf[c], j, n, m)
    <3>1. stray[c] \in Nat /\ acted[c] \in Nat /\ k.tries \in Nat
          /\ stray[c] + acted[c] + (IF Open(k) THEN 1 ELSE 0) <= k.tries
          /\ (ToolOf[c] \in Keyed => acted[c] <= 1)
      BY <1>1 DEF One, Tallied, Formed
    <3>2. n + m <= k.tries
      BY <1>4, <1>6, <3>1 DEF Open
    <3> QED BY <1>3, <1>6, <3>1, <3>2 DEF Tallied, Open
  <2>3. Told(j, m)
    BY <1>1, <1>3, <1>6 DEF One, Told, Early
  <2> QED BY <2>1, <2>2, <2>3 DEF One
<1> QED BY <1>5, <1>4, <1>7, <1>8, OneMoves

LEMMA SendKeeps ==
  ASSUME ToolInv, NEW c \in ToolCall, Send(c)
  PROVE  ToolInv'
<1> DEFINE k == toolCall[c]
<1>1. One(ToolOf[c], k, stray[c], acted[c])
  BY DEF ToolInv, Stands
<1>2. DOMAIN k = ToolParts /\ k.tries \in Nat /\ k.hops \in Nat /\ k.safe \in BOOLEAN
  BY <1>1 DEF One, Formed
<1>3. k.at = "send" /\ k.wire = "none" /\ UNCHANGED <<stray, acted>>
  BY <1>1 DEF One, Formed, Send
<1>4. PICK n, m : n = stray[c] /\ m = acted[c]
  OBVIOUS
<1>5. stray' = [stray EXCEPT ![c] = n] /\ acted' = [acted EXCEPT ![c] = m] /\ UNCHANGED acted
      /\ n \in Nat
  BY <1>3, <1>4 DEF ToolInv
<1>6. /\ n + m + (IF Open(k) THEN 1 ELSE 0) <= k.tries /\ m \in Nat
      /\ (ToolOf[c] \in Keyed => m <= 1)
  BY <1>1, <1>4 DEF One, Tallied
<1>7. /\ k.tries <= EffectiveMaxAttempts(ToolOf[c])
      /\ (k.hops = 0 => k.tries < EffectiveMaxAttempts(ToolOf[c]))
  BY <1>1, <1>3 DEF One, Within
<1>8. k.response # "ok" /\ k.status = "none" /\ k.row = "none"
  BY <1>1, <1>3 DEF One, Told, Early
<1>9. CASE Goes(c, [at |-> "wait", wire |-> "sent",
                          tries |-> IF k.hops = 0 THEN k.tries + 1 ELSE k.tries])
  <2>0. PICK t : t = IF k.hops = 0 THEN k.tries + 1 ELSE k.tries
    OBVIOUS
  <2> DEFINE ch == [at |-> "wait", wire |-> "sent", tries |-> t]
             j == With(k, ch)
  <2>1. /\ DOMAIN j = ToolParts /\ j.at = "wait" /\ j.wire = "sent" /\ j.status = k.status
        /\ j.tries = t /\ j.hops = k.hops /\ j.safe = k.safe
        /\ j.response = k.response /\ j.row = k.row
    BY <1>2, WithGives DEF ToolParts
  <2>2. toolCall' = [toolCall EXCEPT ![c] = j]
    BY <1>9, <2>0, GoesIsWith
  <2> HIDE DEF j
  <2>3. One(ToolOf[c], j, n, m)
    <3>1. Formed(j)
      BY <1>2, <2>0, <2>1 DEF Formed
    <3>2. Within(ToolOf[c], j)
      BY <1>2, <1>7, <2>0, <2>1, ToolBounds DEF Within
    <3>3. Tallied(ToolOf[c], j, n, m)
      <4>1. CASE k.hops = 0
        <5>1. n + m <= k.tries
          BY <1>2, <1>5, <1>6
        <5> QED BY <1>2, <1>5, <1>6, <2>0, <2>1, <4>1, <5>1 DEF Tallied, Open
      <4>2. CASE k.hops > 0 /\ ~k.safe
        <5>1. Open(k) /\ Open(j)
          BY <1>3, <2>0, <2>1, <4>2 DEF Open
        <5> QED BY <1>2, <1>5, <1>6, <2>0, <2>1, <4>2, <5>1 DEF Tallied
      <4>3. CASE k.hops > 0 /\ k.safe
        <5>1. ~Open(j)
          BY <2>0, <2>1, <4>3 DEF Open
        <5>2. n + m <= k.tries
          BY <1>2, <1>5, <1>6
        <5> QED BY <1>2, <1>5, <1>6, <2>0, <2>1, <4>3, <5>1, <5>2 DEF Tallied
      <4> QED BY <1>2, <4>1, <4>2, <4>3
    <3>4. Told(j, m)
      BY <1>8, <2>0, <2>1, ToolBounds DEF Told
    <3> QED BY <3>1, <3>2, <3>3, <3>4 DEF One
  <2> QED BY <1>5, <2>2, <2>3, OneMoves
<1>10. CASE Throws(c)
  BY <1>3, <1>10, RaisesKeeps
<1>11. CASE Concludes(c, [k EXCEPT !.error = "blocked"])
  <2>1. PICK j : j = [k EXCEPT !.error = "blocked"]
    OBVIOUS
  <2>2. /\ DOMAIN j = ToolParts /\ j.wire = "none" /\ j.tries = k.tries /\ j.hops = k.hops
        /\ j.safe = k.safe /\ j.response # "ok" /\ j.row = "none"
    BY <1>2, <1>3, <1>8, <2>1 DEF ToolParts
  <2>3. n + acted[c] <= j.tries
    BY <1>2, <1>4, <1>5, <1>6, <2>2
  <2> QED BY <1>2, <1>5, <1>7, <1>11, <2>1, <2>2, <2>3, ConcludesKeeps
<1> QED BY <1>9, <1>10, <1>11 DEF Send

LEMMA AdmitKeeps ==
  ASSUME ToolInv, NEW c \in ToolCall, Admit(c)
  PROVE  ToolInv'
<1> DEFINE k == toolCall[c]
           there == IF ToolOf[c] \in Http /\ Rate[ToolOf[c]] > 0 THEN "limit" ELSE "send"
           ch == [at |-> there]
           j == With(k, ch)
<1>1. One(ToolOf[c], k, stray[c], acted[c]) /\ k.at = "idle" /\ UNCHANGED <<stray, acted>>
  BY DEF ToolInv, Stands, Admit
<1>2. CASE Unfit(c) \/ Barred(c)
  BY <1>1, <1>2, ReturnsKeeps DEF Unfit, Barred
<1>3. CASE Goes(c, ch)
  <2>1. DOMAIN k = ToolParts
    BY <1>1 DEF One, Formed
  <2>2. /\ DOMAIN j = ToolParts /\ j.at \in {"limit", "send"} /\ j.status = k.status
        /\ j.tries = k.tries /\ j.hops = k.hops /\ j.wire = k.wire /\ j.safe = k.safe
        /\ j.response = k.response /\ j.row = k.row
    BY <2>1, WithGives DEF ToolParts
  <2>3. toolCall' = [toolCall EXCEPT ![c] = j]
    BY <1>3, GoesIsWith
  <2> HIDE DEF j
  <2>4. Formed(j) /\ Within(ToolOf[c], j)
    BY <1>1, <2>2, ToolBounds DEF One, Formed, Within
  <2>5. Tallied(ToolOf[c], j, stray[c], acted[c])
    BY <1>1, <2>2 DEF One, Tallied, Open, Formed
  <2>6. Told(j, acted[c])
    BY <1>1, <2>2 DEF One, Told, Early
  <2>7. One(ToolOf[c], j, stray[c], acted[c])
    BY <2>4, <2>5, <2>6 DEF One
  <2> QED BY <1>1, <2>3, <2>7, CallMoves
<1> QED BY <1>2, <1>3 DEF Admit

LEMMA AcquireKeeps ==
  ASSUME ToolInv, NEW c \in ToolCall, Acquire(c)
  PROVE  ToolInv'
<1> DEFINE k == toolCall[c]
           ch == [at |-> "send"]
           j == With(k, ch)
<1>1. One(ToolOf[c], k, stray[c], acted[c]) /\ k.at = "limit" /\ UNCHANGED <<stray, acted>>
  BY DEF ToolInv, Stands, Acquire
<1>2. CASE Goes(c, ch)
  <2>1. DOMAIN k = ToolParts
    BY <1>1 DEF One, Formed
  <2>2. /\ DOMAIN j = ToolParts /\ j.at = "send" /\ j.status = k.status
        /\ j.tries = k.tries /\ j.hops = k.hops /\ j.wire = k.wire /\ j.safe = k.safe
        /\ j.response = k.response /\ j.row = k.row
    BY <2>1, WithGives DEF ToolParts
  <2>3. toolCall' = [toolCall EXCEPT ![c] = j]
    BY <1>2, GoesIsWith
  <2> HIDE DEF j
  <2>4. Formed(j) /\ Within(ToolOf[c], j)
    BY <1>1, <2>2, ToolBounds DEF One, Formed, Within
  <2>5. Tallied(ToolOf[c], j, stray[c], acted[c])
    BY <1>1, <2>2 DEF One, Tallied, Open, Formed
  <2>6. Told(j, acted[c])
    BY <1>1, <2>2 DEF One, Told, Early
  <2>7. One(ToolOf[c], j, stray[c], acted[c])
    BY <2>4, <2>5, <2>6 DEF One
  <2> QED BY <1>1, <2>3, <2>7, CallMoves
<1>3. CASE Returns(c, "rate_limited")
  BY <1>1, <1>3, ReturnsKeeps
<1>4. CASE Throws(c)
  <2>1. k.wire = "none"
    BY <1>1 DEF One, Formed
  <2> QED BY <1>1, <1>4, <2>1, RaisesKeeps
<1> QED BY <1>2, <1>3, <1>4 DEF Acquire

(* The provider acts: for a tool whose requests carry a key, not again.    *)
LEMMA ActsEffect ==
  ASSUME ToolInv, NEW c \in ToolCall, Acts(c)
  PROVE  \E m \in Nat : /\ acted' = [acted EXCEPT ![c] = m]
                        /\ m \in acted[c]..(acted[c] + 1) /\ m > 0
                        /\ ToolOf[c] \in Keyed => m <= 1
<1>1. acted \in [ToolCall -> Nat] /\ (ToolOf[c] \in Keyed => acted[c] <= 1)
  BY DEF ToolInv, Stands, One, Tallied
<1>2. CASE ToolOf[c] \in Keyed /\ acted[c] > 0
  <2>1. acted' = [acted EXCEPT ![c] = acted[c]]
    BY <1>1, <1>2 DEF Acts
  <2>2. /\ acted[c] \in Nat /\ acted[c] \in acted[c]..(acted[c] + 1) /\ acted[c] > 0
        /\ ToolOf[c] \in Keyed => acted[c] <= 1
    BY <1>1, <1>2
  <2> QED BY <2>1, <2>2
<1>3. CASE ~(ToolOf[c] \in Keyed /\ acted[c] > 0)
  <2>1. acted' = [acted EXCEPT ![c] = acted[c] + 1]
    BY <1>3 DEF Acts
  <2>2. /\ acted[c] + 1 \in Nat /\ acted[c] + 1 \in acted[c]..(acted[c] + 1) /\ acted[c] + 1 > 0
        /\ ToolOf[c] \in Keyed => acted[c] + 1 <= 1
    BY <1>1, <1>3
  <2> QED BY <2>1, <2>2
<1> QED BY <1>2, <1>3

LEMMA ServeStrayKeeps ==
  ASSUME ToolInv, NEW c \in ToolCall, ServeStray(c)
  PROVE  ToolInv'
<1>1. One(ToolOf[c], toolCall[c], stray[c], acted[c])
  BY DEF ToolInv, Stands
<1>2. PICK m \in Nat : /\ acted' = [acted EXCEPT ![c] = m]
                       /\ m \in acted[c]..(acted[c] + 1) /\ m > 0
                       /\ ToolOf[c] \in Keyed => m <= 1
  BY ActsEffect DEF ServeStray
<1>3. PICK n : n = stray[c] - 1
  OBVIOUS
<1>4. PICK k : k = toolCall[c]
  OBVIOUS
<1>5. stray' = [stray EXCEPT ![c] = n] /\ UNCHANGED toolCall
  BY <1>3 DEF ServeStray
<1>6. One(ToolOf[c], k, n, m)
  <2>1. Formed(k) /\ Within(ToolOf[c], k)
    BY <1>1, <1>4 DEF One
  <2>2. /\ stray[c] \in Nat /\ acted[c] \in Nat /\ k.tries \in Nat
        /\ stray[c] + acted[c] + (IF Open(k) THEN 1 ELSE 0) <= k.tries
    BY <1>1, <1>4 DEF One, Tallied, Formed
  <2>3. n \in Nat /\ n + m <= stray[c] + acted[c]
    BY <1>2, <1>3, <2>2 DEF ServeStray
  <2>4. Tallied(ToolOf[c], k, n, m)
    BY <1>2, <2>2, <2>3 DEF Tallied
  <2>5. Told(k, m)
    BY <1>1, <1>2, <1>4 DEF One, Told
  <2> QED BY <2>1, <2>4, <2>5 DEF One
<1>7. stray' \in [ToolCall -> Nat] /\ acted' \in [ToolCall -> Nat]
  BY <1>2, <1>5, <1>6 DEF ToolInv, One, Tallied
<1>8. ASSUME NEW d \in ToolCall PROVE Stands(d)'
  <2>1. CASE d = c
    <3>1. stray'[d] = n /\ acted'[d] = m /\ toolCall'[d] = k
      BY <1>2, <1>4, <1>5, <2>1 DEF ToolInv
    <3> QED BY <1>6, <2>1, <3>1 DEF Stands
  <2>2. CASE d # c
    <3>1. stray'[d] = stray[d] /\ acted'[d] = acted[d] /\ toolCall'[d] = toolCall[d]
      BY <1>2, <1>5, <2>2 DEF ToolInv
    <3> QED BY <3>1 DEF Stands, ToolInv
  <2> QED BY <2>1, <2>2
<1> QED BY <1>5, <1>7, <1>8 DEF ToolInv

LEMMA ServeKeeps ==
  ASSUME ToolInv, NEW c \in ToolCall, Serve(c)
  PROVE  ToolInv'
<1> DEFINE k == toolCall[c]
           ch == [wire |-> "served"]
           j == With(k, ch)
<1>1. One(ToolOf[c], k, stray[c], acted[c]) /\ k.wire = "sent" /\ UNCHANGED stray
  BY DEF ToolInv, Stands, Serve
<1>2. DOMAIN k = ToolParts /\ k.at = "wait" /\ k.tries \in Nat /\ k.safe \in BOOLEAN
  BY <1>1 DEF One, Formed
<1>3. /\ DOMAIN j = ToolParts /\ j.at = "wait" /\ j.status = k.status
      /\ j.tries = k.tries /\ j.hops = k.hops /\ j.wire = "served" /\ j.safe = k.safe
      /\ j.response = k.response /\ j.row = k.row
  BY <1>2, WithGives DEF ToolParts
<1>4. toolCall' = [toolCall EXCEPT ![c] = j]
  BY GoesIsWith DEF Serve
<1> HIDE DEF j
<1>5. /\ stray[c] \in Nat /\ acted[c] \in Nat /\ (ToolOf[c] \in Keyed => acted[c] <= 1)
      /\ stray[c] + acted[c] <= k.tries
      /\ (~k.safe => stray[c] + acted[c] + 1 <= k.tries)
  <2>1. ~k.safe => Open(k)
    BY <1>1 DEF Open
  <2> QED BY <1>1, <1>2, <2>1 DEF One, Tallied
<1>6. Formed(j) /\ Within(ToolOf[c], j) /\ ~Open(j)
  BY <1>1, <1>2, <1>3 DEF One, Formed, Within, Open
<1>7. PICK n : n = stray[c]
  OBVIOUS
<1>8. stray' = [stray EXCEPT ![c] = n]
  BY <1>1, <1>7 DEF ToolInv
<1>9. CASE k.safe
  <2>1. UNCHANGED acted
    BY <1>9 DEF Serve
  <2>2. Tallied(ToolOf[c], j, stray[c], acted[c])
    BY <1>2, <1>3, <1>5, <1>6 DEF Tallied
  <2>3. Told(j, acted[c])
    BY <1>1, <1>2, <1>3, <1>9 DEF One, Told, Early
  <2>4. One(ToolOf[c], j, stray[c], acted[c])
    BY <1>6, <2>2, <2>3 DEF One
  <2> QED BY <1>1, <1>4, <2>1, <2>4, CallMoves
<1>10. CASE ~k.safe
  <2>1. PICK m \in Nat : /\ acted' = [acted EXCEPT ![c] = m]
                         /\ m \in acted[c]..(acted[c] + 1) /\ m > 0
                         /\ ToolOf[c] \in Keyed => m <= 1
    BY <1>10, ActsEffect DEF Serve
  <2>2. Tallied(ToolOf[c], j, n, m)
    BY <1>2, <1>3, <1>5, <1>6, <1>7, <1>10, <2>1 DEF Tallied
  <2>3. Told(j, m)
    BY <1>1, <1>2, <1>3, <2>1 DEF One, Told, Early
  <2>4. One(ToolOf[c], j, n, m)
    BY <1>6, <2>2, <2>3 DEF One
  <2> QED BY <1>4, <1>8, <2>1, <2>4, OneMoves
<1> QED BY <1>9, <1>10

(* A record of the call is written: its status goes to the row.            *)
LEMMA PersistKeeps ==
  ASSUME ToolInv, NEW c \in ToolCall, PersistExecution(c)
  PROVE  ToolInv'
<1> DEFINE k == toolCall[c]
<1>1. One(ToolOf[c], k, stray[c], acted[c]) /\ k.at = "persist" /\ UNCHANGED <<stray, acted>>
  BY DEF ToolInv, Stands, PersistExecution
<1>2. DOMAIN k = ToolParts
  BY <1>1 DEF One, Formed
<1>3. ASSUME NEW j, toolCall' = [toolCall EXCEPT ![c] = j],
             DOMAIN j = ToolParts, j.at = "publish", j.status = k.status, j.tries = k.tries,
             j.hops = k.hops, j.wire = k.wire, j.safe = k.safe, j.response = k.response,
             j.row = k.row \/ j.row = k.status
      PROVE  ToolInv'
  <2>1. Formed(j) /\ Within(ToolOf[c], j)
    BY <1>1, <1>3 DEF One, Formed, Within
  <2>2. Tallied(ToolOf[c], j, stray[c], acted[c])
    BY <1>1, <1>3 DEF One, Tallied, Open, Formed
  <2>3. Told(j, acted[c])
    BY <1>1, <1>3 DEF One, Told, Early
  <2>4. One(ToolOf[c], j, stray[c], acted[c])
    BY <2>1, <2>2, <2>3 DEF One
  <2> QED BY <1>1, <1>3, <2>4, CallMoves
<1>4. CASE Goes(c, [at |-> "publish", row |-> k.status, update |-> "due"])
  <2> DEFINE j == With(k, [at |-> "publish", row |-> k.status, update |-> "due"])
  <2>1. toolCall' = [toolCall EXCEPT ![c] = j]
    BY <1>4, GoesIsWith
  <2>2. /\ DOMAIN j = ToolParts /\ j.at = "publish" /\ j.status = k.status /\ j.tries = k.tries
        /\ j.hops = k.hops /\ j.wire = k.wire /\ j.safe = k.safe /\ j.response = k.response
        /\ j.row = k.status
    BY <1>2, WithGives DEF ToolParts
  <2> HIDE DEF j
  <2> QED BY <1>3, <2>1, <2>2
<1>5. CASE Goes(c, [at |-> "publish"])
  <2> DEFINE j == With(k, [at |-> "publish"])
  <2>1. toolCall' = [toolCall EXCEPT ![c] = j]
    BY <1>5, GoesIsWith
  <2>2. /\ DOMAIN j = ToolParts /\ j.at = "publish" /\ j.status = k.status /\ j.tries = k.tries
        /\ j.hops = k.hops /\ j.wire = k.wire /\ j.safe = k.safe /\ j.response = k.response
        /\ j.row = k.row
    BY <1>2, WithGives DEF ToolParts
  <2> HIDE DEF j
  <2> QED BY <1>3, <2>1, <2>2
<1> QED BY <1>4, <1>5 DEF PersistExecution

LEMMA PublishKeeps ==
  ASSUME ToolInv, NEW c \in ToolCall, PublishEvent(c)
  PROVE  ToolInv'
<1> DEFINE k == toolCall[c]
           j == With(k, [at |-> "returned"])
<1>1. One(ToolOf[c], k, stray[c], acted[c]) /\ k.at = "publish" /\ UNCHANGED <<stray, acted>>
  BY DEF ToolInv, Stands, PublishEvent
<1>2. DOMAIN k = ToolParts /\ k.wire = "none"
  BY <1>1 DEF One, Formed
<1>3. CASE Goes(c, [at |-> "returned"])
  <2>1. /\ DOMAIN j = ToolParts /\ j.at = "returned" /\ j.status = k.status /\ j.tries = k.tries
        /\ j.hops = k.hops /\ j.wire = k.wire /\ j.safe = k.safe /\ j.response = k.response
        /\ j.row = k.row
    BY <1>2, WithGives DEF ToolParts
  <2>2. toolCall' = [toolCall EXCEPT ![c] = j]
    BY <1>3, GoesIsWith
  <2> HIDE DEF j
  <2>3. One(ToolOf[c], j, stray[c], acted[c])
    BY <1>1, <2>1 DEF One, Formed, Within, Tallied, Open, Told, Early
  <2> QED BY <1>1, <2>2, <2>3, CallMoves
<1>4. CASE Throws(c)
  BY <1>1, <1>2, <1>4, RaisesKeeps
<1> QED BY <1>3, <1>4 DEF PublishEvent

(* The reliability score changes nothing of the call.                      *)
LEMMA ScoreKeeps ==
  ASSUME ToolInv, NEW c \in ToolCall, ReadScore(c) \/ WriteScore(c)
  PROVE  ToolInv'
<1> DEFINE k == toolCall[c]
<1>1. One(ToolOf[c], k, stray[c], acted[c]) /\ UNCHANGED <<stray, acted>>
  BY DEF ToolInv, Stands, ReadScore, WriteScore
<1>2. DOMAIN k = ToolParts
  BY <1>1 DEF One, Formed
<1>3. PICK changes : Goes(c, changes) /\ DOMAIN changes \subseteq {"update", "base"}
  <2>1. CASE Goes(c, [update |-> "read", base |-> score[ToolOf[c]]])
    BY <2>1
  <2>2. CASE Goes(c, [update |-> "done"])
    BY <2>2
  <2>3. CASE Goes(c, [update |-> "done", base |-> {}])
    BY <2>3
  <2> QED BY <2>1, <2>2, <2>3 DEF ReadScore, WriteScore
<1> DEFINE j == With(k, changes)
<1>4. /\ DOMAIN j = ToolParts /\ j.at = k.at /\ j.status = k.status /\ j.tries = k.tries
      /\ j.hops = k.hops /\ j.wire = k.wire /\ j.safe = k.safe /\ j.response = k.response
      /\ j.row = k.row
  BY <1>2, <1>3, WithGives DEF ToolParts
<1>5. toolCall' = [toolCall EXCEPT ![c] = j]
  BY <1>3, GoesIsWith
<1> HIDE DEF j
<1>6. One(ToolOf[c], j, stray[c], acted[c])
  BY <1>1, <1>4 DEF One, Formed, Within, Tallied, Open, Told, Early
<1> QED BY <1>1, <1>5, <1>6, CallMoves

LEMMA ToolStart == ASSUME ToolInit PROVE ToolInv
<1>1. DOMAIN toolCall = ToolCall /\ stray \in [ToolCall -> Nat] /\ acted \in [ToolCall -> Nat]
  BY DEF ToolInit
<1>2. ASSUME NEW c \in ToolCall PROVE Stands(c)
  <2>1. stray[c] = 0 /\ acted[c] = 0
    BY DEF ToolInit
  <2>2. PICK k : k = Fresh
    OBVIOUS
  <2>3. /\ DOMAIN k = ToolParts /\ k.at = "idle" /\ k.tries = 0 /\ k.hops = 0 /\ k.wire = "none"
        /\ k.safe \in BOOLEAN /\ k.response = "none" /\ k.status = "none" /\ k.row = "none"
    BY <2>2 DEF Fresh, ToolParts
  <2>4. Formed(k) /\ Within(ToolOf[c], k)
    BY <2>3, ToolBounds DEF Formed, Within
  <2>5. Tallied(ToolOf[c], k, 0, 0)
    BY <2>3 DEF Tallied, Open
  <2>6. Told(k, 0)
    BY <2>3 DEF Told, Early
  <2>7. toolCall[c] = k
    BY <2>2 DEF ToolInit
  <2> QED BY <2>1, <2>4, <2>5, <2>6, <2>7 DEF Stands, One
<1> QED BY <1>1, <1>2 DEF ToolInv

LEMMA ToolStep ==
  ASSUME ToolInv, [ToolNext]_toolVars
  PROVE  ToolInv'
<1>1. ASSUME NEW c \in ToolCall, Admit(c) \/ Acquire(c) \/ Send(c)
      PROVE  ToolInv'
  BY <1>1, AdmitKeeps, AcquireKeeps, SendKeeps
<1>2. ASSUME NEW c \in ToolCall, Serve(c) \/ ServeStray(c)
      PROVE  ToolInv'
  BY <1>2, ServeKeeps, ServeStrayKeeps
<1>3. ASSUME NEW c \in ToolCall, NEW answer, Receive(c, answer) \/ ReceiveMcp(c, answer)
      PROVE  ToolInv'
  BY <1>3, ReceiveKeeps, ReceiveMcpKeeps
<1>4. ASSUME NEW c \in ToolCall, NEW error, Lose(c, error)
      PROVE  ToolInv'
  BY <1>4, LoseKeeps
<1>5. ASSUME NEW c \in ToolCall,
             \/ PersistExecution(c) \/ PublishEvent(c)
             \/ ReadScore(c) \/ WriteScore(c)
      PROVE  ToolInv'
  BY <1>5, PersistKeeps, PublishKeeps, ScoreKeeps
<1>6. ASSUME NEW c \in ToolCall, Cancel(c)
      PROVE  ToolInv'
  BY <1>6, CancelKeeps
<1>7. CASE UNCHANGED <<toolCall, stray, acted>>
  BY <1>7 DEF ToolInv, Stands
<1>8. ASSUME NEW t \in Tool, Refill(t)
      PROVE  ToolInv'
  BY <1>7, <1>8 DEF Refill
<1>9. CASE ToolNext
  BY <1>1, <1>2, <1>3, <1>4, <1>5, <1>6, <1>8, <1>9 DEF ToolNext
<1> QED BY <1>7, <1>9 DEF toolVars

LEMMA ToolAlways == ToolSpec => []ToolInv
<1>1. ToolInit => ToolInv
  BY ToolStart
<1>2. ToolInv /\ [ToolNext]_toolVars => ToolInv'
  BY ToolStep
<1> QED BY <1>1, <1>2, PTL DEF ToolSpec

(* For any tools, policies and orders of requests and answers, a provider  *)
(* acts once at most where an action must not be repeated, and elsewhere   *)
(* once for every attempt granted (executor.py, mcp_client.py).            *)
THEOREM FiresOnce == ToolSpec => []FiredOnce
<1>1. ToolInv => FiredOnce
  <2>1. ASSUME ToolInv, NEW c \in ToolCall
        PROVE  acted[c] <= IF ToolOf[c] \in Idempotent \ Keyed
                           THEN MaxRetries[ToolOf[c]] + 1 ELSE 1
    <3>1. /\ acted[c] \in Nat /\ stray[c] \in Nat /\ toolCall[c].tries \in Nat
          /\ stray[c] + acted[c] + (IF Open(toolCall[c]) THEN 1 ELSE 0) <= toolCall[c].tries
          /\ (ToolOf[c] \in Keyed => acted[c] <= 1)
          /\ toolCall[c].tries <= EffectiveMaxAttempts(ToolOf[c])
      BY <2>1 DEF ToolInv, Stands, One, Tallied, Formed, Within
    <3> QED BY <3>1, ToolBounds
  <2> QED BY <2>1 DEF FiredOnce
<1> QED BY <1>1, ToolAlways, PTL

(* What is told or recorded as a success was acted on and answered so, on  *)
(* whichever attempt and after whatever redirections (executor.py).        *)
THEOREM AnswersSuccess == ToolSpec => []SuccessIsAnswered
<1>1. ASSUME ToolInv PROVE SuccessIsAnswered
  <2>1. ASSUME NEW c \in ToolCall
        PROVE  /\ "success" \in {toolCall[c].status, toolCall[c].row} =>
                        (acted[c] > 0 \/ toolCall[c].safe) /\ toolCall[c].response = "ok"
               /\ toolCall[c].row # "none" => toolCall[c].row = toolCall[c].status
    <3>1. Told(toolCall[c], acted[c])
      BY <1>1, ToolBounds DEF ToolInv, Stands, One
    <3> QED BY <3>1 DEF Told
  <2> QED BY <2>1 DEF SuccessIsAnswered
<1> QED BY <1>1, ToolAlways, PTL
================================================================================
