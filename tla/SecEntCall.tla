----------------------------- MODULE SecEntCall -----------------------------
(***************************************************************************)
(* What one request to the security entity promises to the code that makes *)
(* it (sec_ent_process in ssl/ieee1609dot2.c), whatever TCP does to the    *)
(* bytes: the caller gets the entity's whole answer, or the fact that the  *)
(* entity refused the request, or nothing.  Never a part of an answer,     *)
(* never an answer that does not fit the receive buffer.                   *)
(***************************************************************************)
EXTENDS Integers

CONSTANTS MsgTypes,   \* message types of the security-entity protocol
          MaxData     \* largest payload that fits the receive buffer

FAILURE == "FAILURE"

\* The entity's answer: a type byte and the length of the payload.
Answers == [type : MsgTypes, len : Nat]
NoAnswer == [type |-> "none", len |-> 0]

\* What the caller of sec_ent_process sees.
Null     == [type |-> "NULL", len |-> 0]
Refused  == [type |-> FAILURE, len |-> 0]
Replies  == [type : MsgTypes \ {FAILURE}, len : 1..MaxData]
Outcomes == Replies \cup {Null, Refused}

VARIABLES phase,    \* "idle", or "busy": a request is in progress
          answer,   \* the answer the entity has sent in full, or NoAnswer
          outcome   \* what the last request returned

callVars == <<phase, answer, outcome>>

CallInit ==
    /\ phase = "idle"
    /\ answer = NoAnswer
    /\ outcome = Null

Request ==
    /\ phase = "idle"
    /\ phase' = "busy"
    /\ answer' = NoAnswer
    /\ outcome' = Null

AnswerSent ==
    /\ phase = "busy"
    /\ answer = NoAnswer
    /\ answer' \in Answers
    /\ UNCHANGED <<phase, outcome>>

\* The outcomes a request may return once the entity has sent answer a.
OutcomesOf(a) ==
    {Null} \cup (IF a \in Replies THEN {a} ELSE {})
           \cup (IF a.type = FAILURE /\ a.len \in 1..MaxData THEN {Refused} ELSE {})

Return ==
    /\ phase = "busy"
    /\ outcome' \in OutcomesOf(answer)
    /\ phase' = "idle"
    /\ UNCHANGED answer

CallNext == Request \/ AnswerSent \/ Return

CallSpec == CallInit /\ [][CallNext]_callVars
=============================================================================
