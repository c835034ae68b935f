------------------------------- MODULE MCStages -------------------------------
(***************************************************************************)
(* Stages of a turn that keep no state in common, one at a time: planning, *)
(* the graph passes, and the answer.  A behaviour runs one of them from    *)
(* each of its initial states; the others hold nothing.                    *)
(***************************************************************************)
EXTENDS Answer, Planner, GraphPasses

CONSTANT MaxNodes

VARIABLE stage    \* the one that runs

NoPassing == /\ plan = None /\ user = None /\ graph = None /\ phase = None
             /\ pass = None /\ round = None /\ start = None /\ faults = None

--------------------------------------------------------------------------------
(* Planning: a request to mail a forecast, planned in chunks, one for a    *)
(* forecast and no mail, and one for a forecast.  The drafts leave an      *)
(* operation out, invent a coordinate and an operation's name, name two    *)
(* places, or are empty.                                                   *)
Service == {"geocode", "forecast", "mail"}
NeedsOf == [o \in Service |-> CASE o = "geocode" -> <<"place">> [] o = "forecast" -> <<"coord">>
                                [] OTHER -> <<"text">>]
KnowsOf == [o \in Service |-> IF o = "forecast" THEN {"units"} ELSE {}]
GivesOf == [o \in Service |-> CASE o = "geocode" -> {"coord"} [] o = "forecast" -> {"text"}
                                [] OTHER -> {}]
Stated  == [kind |-> "said", words |-> {"oslo"}, from |-> None]
Invented == [kind |-> "guess", words |-> {}, from |-> None]
Call(o, in, over) == [op |-> o, ref |-> <<o>>, about |-> {"oslo"}, inputs |-> in, deps |-> {}, over |-> over]
Locate  == Call("geocode", [place |-> Stated], "no")
Second == [Call("geocode", [place |-> [Stated EXCEPT !.words = {"bergen"}]], "no") EXCEPT !.ref = <<"other">>]
Sky    == Call("forecast", <<>>, "no")
Letter == Call("mail", <<>>, "no")

UnitOf(o, negated) == [negated |-> negated, bridge |-> {o}, ranked |-> <<o>>, order |-> <<o>>,
                     strong |-> TRUE, dominant |-> TRUE]
UnitsOf == [both |-> {UnitOf("forecast", FALSE), UnitOf("mail", FALSE)},
            quiet |-> {UnitOf("forecast", FALSE), UnitOf("mail", TRUE)},
            sky |-> {UnitOf("forecast", FALSE)}]
DraftOf == [both  |-> {<<Locate, Letter>>, <<>>}, sky |-> {<<Locate>>, <<Sky>>},
            quiet |-> {<<Locate, Second, Sky>>, <<Call("weather", [coord |-> Invented], "no"), Letter>>}]
HomeOf      == [s1 |-> "p1", s2 |-> "p2"]
AliasOf     == [weather |-> "forecast"]
RetrievedOf == [both |-> Service, quiet |-> {"geocode", "forecast"}, sky |-> Service]
FavouredOf  == [both |-> None, quiet |-> "forecast", sky |-> None]
PartsOf     == [both |-> <<<<Locate, Sky>>, <<Letter>>>>, quiet |-> <<>>, sky |-> <<>>]

(* Two sessions that share the cache and a request, one that sends the     *)
(* others, or none while another stage runs.                               *)
NoWishes == [s1 |-> {}, s2 |-> {}]
WishesOf == {[s1 |-> {"sky"}, s2 |-> {"sky"}], [s1 |-> {"both", "quiet"}, s2 |-> {}], NoWishes}

--------------------------------------------------------------------------------
(* Graph passes: plans of up to three calls, a reading and a writing       *)
(* capability that share placeholders and dependencies in every way, with  *)
(* at most one of the unusual shapes (map, echo, chain, branch, policy     *)
(* key) per node.                                                          *)
Bare == [op |-> "read", lit |-> 0, uses |-> {}, deps |-> {}, over |-> 0, echo |-> FALSE,
          chain |-> "none", gates |-> {}, inputs |-> <<>>]

NodesOf ==
    {[Bare EXCEPT !.op = o, !.uses = u, !.deps = d] :
        o \in {"read", "write"}, u \in {{}, {1}, {2}}, d \in {{}, {3}}}
    \cup {[Bare EXCEPT !.over = 1, !.op = o, !.uses = u] : o \in {"read", "write"}, u \in {{}, {2}}}
    \cup {[Bare EXCEPT !.echo = TRUE, !.op = o, !.uses = u] : o \in {"read", "write"}, u \in {{}, {2}}}
    \cup {[Bare EXCEPT !.chain = c] : c \in {"read", "gone", "bad"}}
    \cup {[Bare EXCEPT !.gates = {1}], [Bare EXCEPT !.op = "gone"]}
    \cup {[Bare EXCEPT !.inputs = [k |-> "given"]], [Bare EXCEPT !.inputs = [profile |-> "given"]]}

Catalog == {"read", "write", "gone"}
Endpoint(n, b, o) == [on |-> TRUE, needs |-> n, base |-> b, old |-> o]
EndpointsOf == [o \in Catalog |->
    IF o = "read" THEN <<Endpoint(FALSE, 2, FALSE), Endpoint(TRUE, 1, FALSE)>>
    ELSE IF o = "write" THEN <<Endpoint(FALSE, 1, TRUE)>>
    ELSE <<[Endpoint(FALSE, 2, FALSE) EXCEPT !.on = FALSE]>>]
PolicyOf == [o \in Catalog |->
    IF o = "read" THEN [profile |-> [m |-> "profile"], defaults |-> [k |-> "default"],
                        rename |-> <<"k", "m">>]
    ELSE [profile |-> <<>>, defaults |-> <<>>, rename |-> <<>>]]

PlansOf == UNION {[1..n -> NodesOf] : n \in 0..MaxNodes}

(* A forecast of a city and an address, whose values are their own, and a  *)
(* code of two letters.                                                    *)
FactOf == [a \in Artifact |-> IF a = "code" THEN "brief" ELSE "own"]
EntityOf == [a \in Artifact |-> IF a = "forecast" THEN "oslo" ELSE None]

ASSUME StagesAssumption == AnswerAssumption

--------------------------------------------------------------------------------
StagesInit ==
    /\ Init /\ PlanInit
    /\ \/ stage = "answer" /\ wishes = NoWishes /\ NoPassing
       \/ stage = "passes" /\ wishes = NoWishes /\ PassesInit
       \/ stage = "planning" /\ wishes # NoWishes /\ NoPassing

StagesNext ==
    /\ UNCHANGED stage
    /\ \/ stage = "answer" /\ Next /\ UNCHANGED <<passesVars, planVars>>
       \/ stage = "passes" /\ PassesNext /\ UNCHANGED <<vars, planVars>>
       \/ stage = "planning" /\ PlanNext /\ UNCHANGED <<vars, passesVars>>

StagesSpec == StagesInit /\ [][StagesNext]_<<stage, vars, passesVars, planVars>>
================================================================================
