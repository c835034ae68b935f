------------------------------- MODULE ToolCalls -------------------------------
(***************************************************************************)
(* One call of a capability to the outside: tools/executor.py, with the    *)
(* retries of tools/retries.py, the MCP servers of tools/mcp_client.py,    *)
(* the token buckets of redis_client/rate_limiter.py and the reliability   *)
(* scores of metrics/store.py.  Calls of several executors run side by     *)
(* side; buckets and scores are shared.  A request may reach the provider  *)
(* whether or not its answer reaches the executor, and later.              *)
(*                                                                         *)
(* Answers: "ok"; "failed", an error an MCP server says in a good reply;   *)
(* "refused", a status nobody retries (4xx), for which the provider did    *)
(* nothing; "busy", one that is retried (408, 429, 5xx), for which it may  *)
(* have; a redirection, "see" with a GET (301 to 303) or "same" with the   *)
(* request repeated (307, 308), allowed by the sandbox, or "astray" where  *)
(* it is not; "nowhere", a redirection without a location.  An answer may  *)
(* be "late" (a timeout) or "broken" (the transport).                      *)
(*                                                                         *)
(* The circuit breakers are never registered and so never open, and the    *)
(* tracker of latencies has no reader: neither is modelled.                *)
(***************************************************************************)
EXTENDS Naturals, FiniteSets

CONSTANTS
    ToolCall,    \* the calls
    Batches,     \* the sets of calls that may be made in one behaviour (a bound)
    Tool,        \* the capabilities
    ToolOf,      \* call -> the tool called
    Http,        \* tools called over HTTP, the others over MCP
    Idempotent,  \* tools declared idempotent
    Keyed,       \* tools whose provider deduplicates by the idempotency header
    MaxRetries,  \* tool -> the retries its policy grants (mcp: the setting, less one)
    Rate,        \* tool -> rate_limit_per_minute; 0: not limited
    Checked,     \* tools with an output schema
    Registered,  \* tools with a row in the registry
    Named,       \* tools whose provider's row has their very name
    MaxHops,     \* redirections followed in one attempt (5)
    MaxFaults    \* failures of Redis and the database (a bound)

ASSUME ToolAssumption ==
    /\ ToolOf \in [ToolCall -> Tool]
    /\ MaxRetries \in [Tool -> Nat] /\ Rate \in [Tool -> Nat]

VARIABLES
    wanted,    \* the calls that are made
    toolCall,  \* call -> where it is and what it knows
    stray,     \* call -> its unanswered requests that may still be acted on
    acted,     \* call -> how often the provider acted for it
    tokens,    \* tool -> what is left in its bucket
    score,     \* tool -> the calls whose outcome its reliability holds
    faults

toolVars == <<wanted, toolCall, stray, acted, tokens, score, faults>>

Fresh == [at |-> "idle", tries |-> 0, hops |-> 0, wire |-> "none", safe |-> FALSE,
          response |-> "none", error |-> "none", status |-> "none", row |-> "none",
          update |-> "none", base |-> {}]

ToolInit ==
    /\ wanted \in Batches
    /\ toolCall = [c \in ToolCall |-> Fresh]
    /\ stray = [c \in ToolCall |-> 0] /\ acted = [c \in ToolCall |-> 0]
    /\ tokens = Rate
    /\ score = [t \in Tool |-> {}]
    /\ faults = 0

Fault == faults < MaxFaults /\ faults' = faults + 1

Goes(c, changes) ==
    toolCall' = [toolCall EXCEPT ![c] =
                    [x \in DOMAIN @ |-> IF x \in DOMAIN changes THEN changes[x] ELSE @[x]]]

Returns(c, status) == Goes(c, [at |-> "returned", status |-> status])

Throws(c) == Goes(c, [at |-> "raised"])

--------------------------------------------------------------------------------
(* Before the first request.                                               *)

(* Inputs that do not fit the schema and, with its defaults filled in,     *)
(* cannot be coerced to it; a contract with code in it; a body too large.  *)
Unfit(c) == Returns(c, "validation_error")

(* A host, or a caller, that is not allowed.                               *)
Barred(c) == Returns(c, "error")

(* A call that is turned away makes no request and leaves no record.       *)
Admit(c) ==
    /\ c \in wanted /\ toolCall[c].at = "idle"
    /\ \/ Unfit(c) \/ Barred(c)
       \/ Goes(c, [at |-> IF ToolOf[c] \in Http /\ Rate[ToolOf[c]] > 0 THEN "limit" ELSE "send"])
    /\ UNCHANGED <<stray, acted, tokens, score, faults>>

(* One script of Redis refills the bucket and takes a token from it.       *)
Acquire(c) ==
    LET t == ToolOf[c] IN
    /\ toolCall[c].at = "limit"
    /\ \/ /\ tokens[t] > 0
          /\ tokens' = [tokens EXCEPT ![t] = @ - 1]
          /\ Goes(c, [at |-> "send"]) /\ UNCHANGED faults
       \/ /\ tokens[t] = 0
          /\ Returns(c, "rate_limited") /\ UNCHANGED <<tokens, faults>>
       \/ Fault /\ Throws(c) /\ UNCHANGED tokens
    /\ UNCHANGED <<stray, acted, score>>

Refill(t) ==
    /\ tokens[t] < Rate[t]
    /\ tokens' = [tokens EXCEPT ![t] = @ + 1]
    /\ UNCHANGED <<toolCall, stray, acted, score, faults>>

--------------------------------------------------------------------------------
(* The attempts.                                                           *)

(* A slip: every tool gets the retries of its policy.                      *)
SlipEffectiveMaxAttempts(t) == MaxRetries[t] + 1

(* A tool that is not idempotent is tried once, over HTTP and over MCP.    *)
EffectiveMaxAttempts(t) == IF t \in Idempotent THEN MaxRetries[t] + 1 ELSE 1

(* The provider acts, unless the request only reads what another did or    *)
(* carries the key of one it has acted on: the key is the same for all     *)
(* attempts.                                                               *)
Acts(c) ==
    acted' = IF ToolOf[c] \in Keyed /\ acted[c] > 0 THEN acted
             ELSE [acted EXCEPT ![c] = @ + 1]

Serve(c) ==
    /\ toolCall[c].wire = "sent"
    /\ Goes(c, [wire |-> "served"])
    /\ IF toolCall[c].safe THEN UNCHANGED acted ELSE Acts(c)
    /\ UNCHANGED <<stray, tokens, score, faults>>

ServeStray(c) ==
    /\ stray[c] > 0
    /\ stray' = [stray EXCEPT ![c] = @ - 1]
    /\ Acts(c)
    /\ UNCHANGED <<toolCall, tokens, score, faults>>

(* The answers there can be to a request the provider has or has not acted *)
(* on.                                                                     *)
Answers(wire) ==
    IF wire = "served" THEN {"ok", "failed", "busy", "see"}
    ELSE {"failed", "refused", "busy", "see", "same", "astray", "nowhere"}

(* A slip: whatever came back is a success.                                *)
SlipBuildResult(k) == IF k.response # "none" THEN "success"
                      ELSE IF k.error = "late" THEN "timeout" ELSE "error"

(* The response of an earlier attempt is still there when the last one has *)
(* none.                                                                   *)
BuildResult(k) ==
    IF k.response # "none" THEN IF k.response = "ok" THEN "success" ELSE "error"
    ELSE IF k.error = "late" THEN "timeout" ELSE "error"

(* The attempts are over: the status, and the check of what a success      *)
(* returned against the output schema.  (An error of an MCP server has no  *)
(* data to be checked.)                                                    *)
Concludes(c, k) ==
    \E status \in {BuildResult(k)} \cup
            (IF BuildResult(k) = "success" /\ ToolOf[c] \in Checked THEN {"validation_error"} ELSE {}) :
        toolCall' = [toolCall EXCEPT ![c] = [k EXCEPT !.at = "persist", !.status = status]]

(* The request leaves.  A required part of its path may be missing, or its *)
(* inputs may lead it where the sandbox does not let it go.                *)
Send(c) ==
    LET k == toolCall[c] IN
    /\ k.at = "send"
    /\ \/ Goes(c, [at |-> "wait", wire |-> "sent", tries |-> IF k.hops = 0 THEN k.tries + 1 ELSE k.tries])
       \/ k.tries = 0 /\ ToolOf[c] \in Http /\ (Throws(c) \/ Concludes(c, [k EXCEPT !.error = "blocked"]))
    /\ UNCHANGED <<stray, acted, tokens, score, faults>>

Resends(c, k) ==
    toolCall' = [toolCall EXCEPT ![c] = [k EXCEPT !.at = "send", !.hops = 0, !.safe = FALSE]]

(* A status that is retried, a timeout and a broken transport are tried    *)
(* again while there are attempts.                                         *)
RetryOr(c, k) ==
    IF k.tries < EffectiveMaxAttempts(ToolOf[c]) THEN Resends(c, k) ELSE Concludes(c, k)

(* Every redirection is checked before it is followed.                     *)
Receive(c, answer) ==
    LET k == [toolCall[c] EXCEPT !.wire = "none"]
        heard == [k EXCEPT !.response = answer]
    IN  /\ k.at = "wait" /\ ToolOf[c] \in Http
        /\ answer \in Answers(toolCall[c].wire) \ {"failed"}
        /\ CASE answer = "busy" -> RetryOr(c, heard)
             [] answer = "astray" -> Concludes(c, [k EXCEPT !.error = "blocked"])
             [] answer \in {"see", "same"} /\ k.hops < MaxHops ->
                    toolCall' = [toolCall EXCEPT ![c] = [k EXCEPT !.at = "send", !.hops = @ + 1,
                                                          !.safe = @ \/ answer = "see"]]
             [] OTHER -> Concludes(c, heard)
        /\ UNCHANGED <<stray, acted, tokens, score, faults>>

(* No redirection is followed, and a status that is no success is raised.  *)
ReceiveMcp(c, answer) ==
    LET k == [toolCall[c] EXCEPT !.wire = "none"] IN
    /\ k.at = "wait" /\ ToolOf[c] \notin Http
    /\ answer \in Answers(toolCall[c].wire)
    /\ IF answer \in {"ok", "failed"} THEN Concludes(c, [k EXCEPT !.response = answer])
       ELSE toolCall' = [toolCall EXCEPT ![c] = [k EXCEPT !.at = "raised"]]
    /\ UNCHANGED <<stray, acted, tokens, score, faults>>

(* The provider may not have seen the request yet.                         *)
Abandons(c) ==
    stray' = IF toolCall[c].wire = "sent" /\ ~toolCall[c].safe THEN [stray EXCEPT ![c] = @ + 1] ELSE stray

Lose(c, error) ==
    /\ toolCall[c].at = "wait"
    /\ RetryOr(c, [toolCall[c] EXCEPT !.wire = "none", !.error = error])
    /\ Abandons(c)
    /\ UNCHANGED <<acted, tokens, score, faults>>

--------------------------------------------------------------------------------
(* The record.                                                             *)

(* The row is committed here, and the reliability updated in a task of its *)
(* own; a failing database is logged.  A tool without a row in the         *)
(* registry leaves none.                                                   *)
PersistExecution(c) ==
    /\ toolCall[c].at = "persist"
    /\ \/ /\ ToolOf[c] \in Registered
          /\ Goes(c, [at |-> "publish", row |-> toolCall[c].status, update |-> "due"])
          /\ UNCHANGED faults
       \/ /\ ToolOf[c] \notin Registered
          /\ Goes(c, [at |-> "publish"]) /\ UNCHANGED faults
       \/ ToolOf[c] \in Registered /\ Fault /\ Goes(c, [at |-> "publish"])
    /\ UNCHANGED <<stray, acted, tokens, score>>

(* A failing Redis is raised, whatever the call achieved.                  *)
PublishEvent(c) ==
    /\ toolCall[c].at = "publish"
    /\ \/ Goes(c, [at |-> "returned"]) /\ UNCHANGED faults
       \/ Fault /\ Throws(c)
    /\ UNCHANGED <<stray, acted, tokens, score>>

(* The score is read, and written from what was read, without a lock; the  *)
(* row is found by the tool's name with or without a suffix and updated by *)
(* the name without.                                                       *)
ReadScore(c) ==
    /\ toolCall[c].update = "due"
    /\ \/ Goes(c, [update |-> "read", base |-> score[ToolOf[c]]]) /\ UNCHANGED faults
       \/ Fault /\ Goes(c, [update |-> "done"])
    /\ UNCHANGED <<stray, acted, tokens, score>>

WriteScore(c) ==
    LET t == ToolOf[c] IN
    /\ toolCall[c].update = "read"
    /\ score' = IF t \in Named THEN [score EXCEPT ![t] = toolCall[c].base \cup {c}] ELSE score
    /\ Goes(c, [update |-> "done", base |-> {}])
    /\ UNCHANGED <<stray, acted, tokens, faults>>

(* The executor's timeout, or the end of the run, strikes at an await.     *)
Cancel(c) ==
    /\ toolCall[c].at \in {"limit", "send", "wait", "persist", "publish"}
    /\ toolCall[c].at = "send" => toolCall[c].tries > 0
    /\ Goes(c, [at |-> "cancelled", wire |-> "none"])
    /\ Abandons(c)
    /\ UNCHANGED <<acted, tokens, score, faults>>

ToolNext ==
    /\ UNCHANGED wanted
    /\ \/ \E c \in ToolCall :
           \/ Admit(c) \/ Acquire(c) \/ Send(c) \/ Serve(c) \/ ServeStray(c)
           \/ \E answer \in Answers("sent") \cup Answers("served") :
                   Receive(c, answer) \/ ReceiveMcp(c, answer)
           \/ \E error \in {"late", "broken"} : Lose(c, error)
           \/ PersistExecution(c) \/ PublishEvent(c) \/ ReadScore(c) \/ WriteScore(c) \/ Cancel(c)
       \/ \E t \in Tool : Refill(t)

ToolSpec == ToolInit /\ [][ToolNext]_toolVars

--------------------------------------------------------------------------------
(* A provider acts at most once for a call of a tool that is not           *)
(* idempotent, or whose attempts carry one key, through retries,           *)
(* redirections and answers that come late; and for any other at most once *)
(* for every attempt (tools/executor.py, mcp_client.py).                   *)
FiredOnce ==
    \A c \in ToolCall :
        acted[c] <=
            IF ToolOf[c] \in Idempotent \ Keyed THEN MaxRetries[ToolOf[c]] + 1 ELSE 1

(* What is told or recorded as a success was acted on by the provider and  *)
(* answered so, and its row says what the caller is told.                  *)
SuccessIsAnswered ==
    \A c \in ToolCall : LET k == toolCall[c] IN
        /\ "success" \in {k.status, k.row} => (acted[c] > 0 \/ k.safe) /\ k.response = "ok"
        /\ k.row # "none" => k.row = k.status
================================================================================
