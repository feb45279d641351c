------------------------ MODULE SecEntExchange_proofs ------------------------
(***************************************************************************)
(* Proofs about SecEntExchange for every value of its constants: every     *)
(* header and buffer size, every set of message types, every bound.        *)
(***************************************************************************)
EXTENDS SecEntExchange, TLAPS

\* The three kinds of outcome are distinct, and an answer of a given type and
\* length is a reply exactly when it fits the buffer.
LEMMA OutcomeFacts ==
  /\ Call!Null \in Call!Outcomes /\ Call!Refused \in Call!Outcomes
  /\ Call!Null # Call!Refused
  /\ Call!Null \notin Call!Replies /\ Call!Refused \notin Call!Replies
  /\ Call!Null.type = "NULL" /\ Call!Refused.type = "FAILURE"
  /\ Call!Replies \subseteq Call!Outcomes
  /\ \A a \in [type : MsgTypes, len : Nat] :
        a.type # "FAILURE" /\ a.len > 0 /\ HdrLen + a.len <= BuffLen
          => a \in Call!Replies
BY SecEntAssumption
   DEF Call!Null, Call!Refused, Call!Replies, Call!Outcomes, Call!FAILURE, MaxData

\* The initial state satisfies the inductive invariant.
LEMMA InitIInv == Init => IInv
BY SecEntAssumption, OutcomeFacts
   DEF Init, IInv, TypeOK, NoOverrun, WholeAnswer, SocketReleased, NoAnswer, Messages

\* Every step of the requesting side and of the entity preserves it.
LEMMA NextIInv == IInv /\ [Next]_vars => IInv'
<1> SUFFICES ASSUME IInv, [Next]_vars PROVE IInv'
  OBVIOUS
<1> USE SecEntAssumption, OutcomeFacts
    DEF IInv, TypeOK, NoOverrun, WholeAnswer, SocketReleased, NoAnswer, Messages
<1>1. ASSUME NEW n \in 0..MaxReq, sec_ent_process(n) PROVE IInv'
  BY <1>1 DEF sec_ent_process
<1>2. CASE connect_server
  BY <1>2 DEF connect_server, entityVars
<1>3. ASSUME NEW k \in 1..(HdrLen + MaxReq), Write(k) PROVE IInv'
  <2>1. toWrite' \in 0..(HdrLen + MaxReq)
    BY <1>3 DEF Write
  <2>2. CASE k = toWrite
    BY <1>3, <2>1, <2>2 DEF Write, entityVars
  <2>3. CASE k # toWrite
    BY <1>3, <2>1, <2>3 DEF Write, entityVars
  <2> QED
    BY <2>2, <2>3
<1>4. CASE WriteError
  BY <1>4 DEF WriteError, Fail, entityVars
<1>5. ASSUME NEW k \in 1..BuffLen, Read(k) PROVE IInv'
  BY <1>5 DEF Read, entityVars
<1>6. CASE ReadShort
  BY <1>6 DEF ReadShort, Fail, entityVars
<1>7. CASE HeaderRead
  <2>1. msg \in Messages /\ got = HdrLen
    BY <1>7 DEF HeaderRead
  <2>2. CASE TooLong
    BY <1>7, <2>1, <2>2 DEF HeaderRead, entityVars
  <2>3. CASE ~TooLong
    <3>1. MsgLen = msg.len /\ HdrLen + msg.len <= BuffLen
      BY <2>1, <2>3 DEF TooLong, MsgLen
    <3> QED
      BY <1>7, <2>1, <2>3, <3>1 DEF HeaderRead, entityVars
  <2> QED
    BY <2>2, <2>3
<1>8. CASE BodyRead
  BY <1>8 DEF BodyRead, Parsed, entityVars
<1>9. CASE disconnect_server
  BY <1>9 DEF disconnect_server, entityVars
<1>10. ASSUME NEW m \in Messages, EntityAnswer(m) PROVE IInv'
  BY <1>10 DEF EntityAnswer, clientVars
<1>11. ASSUME NEW k \in 1..(HdrLen + MaxLen), EntitySend(k) PROVE IInv'
  BY <1>11 DEF EntitySend, clientVars
<1>12. CASE EntityClose
  BY <1>12 DEF EntityClose, clientVars
<1>13. CASE UNCHANGED vars
  BY <1>13 DEF vars
<1> QED
  BY <1>1, <1>2, <1>3, <1>4, <1>5, <1>6, <1>7, <1>8, <1>9, <1>10, <1>11, <1>12,
     <1>13 DEF Next, ClientStep, EntityStep

\* The inductive invariant holds in every state of every behaviour.
THEOREM ExchangeInvariant == Spec => []IInv
BY InitIInv, NextIInv, PTL DEF Spec

\* Type correctness of the exchange, for every value of the constants.
THEOREM ExchangeTypeOK == Spec => []TypeOK
<1>1. IInv => TypeOK
  BY DEF IInv
<1> QED
  BY <1>1, ExchangeInvariant, PTL

\* For every header size, buffer size and announced length: the receive buffer
\* is never overrun, a returned message is the entity's whole answer, and no
\* socket outlives its request (send_recv_server, sec_ent_process).
THEOREM ExchangeSafe == Spec => [](NoOverrun /\ WholeAnswer /\ SocketReleased)
<1>1. IInv => NoOverrun /\ WholeAnswer /\ SocketReleased
  BY DEF IInv
<1> QED
  BY <1>1, ExchangeInvariant, PTL

\* An outcome other than NULL is the entity's whole answer, or its refusal
\* (sec_ent_process), however TCP split or cut the bytes.
THEOREM ExchangeWholeAnswer == Spec => []WholeAnswer
BY ExchangeSafe, PTL

-----------------------------------------------------------------------------
(* Refinement of SecEntCall. *)

\* A step of the exchange is a step of the abstract call, or leaves it alone.
LEMMA StepSimulation ==
  IInv /\ IInv' /\ [Next]_vars => [Call!CallNext]_(Call!callVars)
<1> SUFFICES ASSUME IInv, IInv', [Next]_vars
             PROVE  [Call!CallNext]_(Call!callVars)
  OBVIOUS
<1> USE SecEntAssumption, OutcomeFacts
    DEF IInv, TypeOK, NoAnswer, Messages, Call!CallNext, Call!callVars, Call!NoAnswer
<1>1. ASSUME NEW n \in 0..MaxReq, sec_ent_process(n) PROVE Call!Request
  BY <1>1 DEF sec_ent_process, Call!Request, Call!Null
<1>2. CASE connect_server
  BY <1>2 DEF connect_server, entityVars, Call!Return, Call!OutcomesOf
<1>3. ASSUME NEW k \in 1..(HdrLen + MaxReq), Write(k)
      PROVE UNCHANGED Call!callVars
  BY <1>3 DEF Write, entityVars
<1>4. CASE WriteError
  BY <1>4 DEF WriteError, Fail, entityVars
<1>5. ASSUME NEW k \in 1..BuffLen, Read(k) PROVE UNCHANGED Call!callVars
  BY <1>5 DEF Read, entityVars
<1>6. CASE ReadShort
  BY <1>6 DEF ReadShort, Fail, entityVars
<1>7. CASE HeaderRead
  BY <1>7 DEF HeaderRead, entityVars
<1>8. CASE BodyRead
  BY <1>8 DEF BodyRead, entityVars
<1>9. CASE disconnect_server
  <2>1. ret \in Call!OutcomesOf(IF msg.type # "none" /\ sent = HdrLen + msg.len
                                THEN msg ELSE [type |-> "none", len |-> 0])
    BY DEF Call!OutcomesOf, Call!Outcomes, Call!FAILURE, WholeAnswer, MaxData
  <2>2. Call!Return
    BY <1>9, <2>1 DEF disconnect_server, entityVars, Call!Return
  <2> QED
    BY <2>2
<1>10. ASSUME NEW m \in Messages, EntityAnswer(m) PROVE UNCHANGED Call!callVars
  BY <1>10 DEF EntityAnswer, clientVars
<1>11. ASSUME NEW k \in 1..(HdrLen + MaxLen), EntitySend(k)
       PROVE [Call!CallNext]_(Call!callVars)
  BY <1>11 DEF EntitySend, clientVars, SocketReleased, Call!AnswerSent, Call!Answers
<1>12. CASE EntityClose
  BY <1>12 DEF EntityClose, clientVars
<1>13. CASE UNCHANGED vars
  BY <1>13 DEF vars
<1> QED
  BY <1>1, <1>2, <1>3, <1>4, <1>5, <1>6, <1>7, <1>8, <1>9, <1>10, <1>11, <1>12,
     <1>13 DEF Next, ClientStep, EntityStep

\* sec_ent_process implements the abstract call: whatever TCP does, its caller
\* sees the entity's whole answer, its refusal, or nothing.
THEOREM ExchangeRefinesCall == Spec => ImplementsCall
<1>1. Init => Call!CallInit
  BY DEF Init, Call!CallInit, NoAnswer, Call!NoAnswer
<1>2. IInv /\ IInv' /\ [Next]_vars => [Call!CallNext]_(Call!callVars)
  BY StepSimulation
<1> QED
  BY <1>1, <1>2, ExchangeInvariant, PTL DEF Spec, ImplementsCall, Call!CallSpec
=============================================================================
