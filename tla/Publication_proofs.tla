------------------------- MODULE Publication_proofs -------------------------
(***************************************************************************)
(* For any publishers, identities, contexts and numbers of attempts: what  *)
(* is confirmed is stored, what cannot be confirmed in a try without any   *)
(* trouble cannot be stored, and the client and the server together keep   *)
(* the promise of EvidenceStore.                                           *)
(***************************************************************************)
EXTENDS PublicationRetry, TLAPS

(* The server says "success" only of the run it keeps, and nobody waits    *)
(* for an answer but a publisher that is posting.                          *)
AnswersAreTrue ==
  \A p \in Publishers :
    /\ answer[p] = "success" => stored = payload[p]
    /\ answer[p] # "none" => pc[p] = "posting"

(* A request still on its way was sent by one of the publishers.           *)
LateWasOffered ==
  \A q \in late : \E p \in Publishers : Matches(q, payload[p])

IInv == TypeOK /\ ConfirmedIsStored /\ AnswersAreTrue /\ LateWasOffered

LEMMA InitIInv == Init => IInv
BY PublicationAssumption DEF Init, IInv, TypeOK, ConfirmedIsStored, AnswersAreTrue,
  LateWasOffered, Final

(* A payload is a record, and Nothing is none.                             *)
LEMMA PayloadFacts ==
  /\ Nothing \notin Payloads
  /\ \A q \in Payloads, c \in Contexts :
       [q EXCEPT !.context = c] \in Payloads /\ [q EXCEPT !.context = c].identity = q.identity
BY PublicationAssumption DEF Payloads

LEMMA StepIInv == IInv /\ [Next]_vars => IInv'
<1> SUFFICES ASSUME IInv, [Next]_vars PROVE IInv'
  OBVIOUS
<1> USE DEF IInv, TypeOK, ConfirmedIsStored, AnswersAreTrue, LateWasOffered,
            Final, Answers, Goto, Matches
<1>1. CASE HandleLate
  <2>1. PICK q \in late : /\ late' = late \ {q}
                          /\ stored' \in {stored, IF stored = Nothing THEN q ELSE stored}
    BY <1>1 DEF HandleLate
  <2>2. UNCHANGED <<configured, payload, pc, answer, attempt, runs>>
    BY <1>1 DEF HandleLate
  <2>3. \A p \in Publishers : payload[p] # Nothing
    BY PayloadFacts
  <2>4. stored # Nothing => stored' = stored
    BY <2>1
  <2>5. TypeOK'
    BY <2>1, <2>2
  <2>6. ConfirmedIsStored'
    BY <2>2, <2>4
  <2>7. AnswersAreTrue'
    BY <2>2, <2>3, <2>4
  <2>8. LateWasOffered'
    BY <2>1, <2>2
  <2> QED
    BY <2>5, <2>6, <2>7, <2>8
<1>2. ASSUME NEW p \in Publishers, Publish(p) PROVE IInv'
  BY <1>2 DEF Publish
<1>3. ASSUME NEW p \in Publishers, Handle(p) PROVE IInv'
  <2>1. /\ answer[p] = "pending" /\ stored' \in {stored, payload[p]}
        /\ UNCHANGED <<configured, payload, pc, attempt, runs, late>>
    BY <1>3 DEF Handle
  <2>2. PICK a \in Answers : /\ answer' = [answer EXCEPT ![p] = a]
                             /\ a = "success" => stored' = payload[p]
    BY <1>3 DEF Handle
  <2>3. stored # Nothing => stored' = stored
    BY <1>3, PayloadFacts DEF Handle
  <2>4. \A r \in Publishers : payload[r] # Nothing
    BY PayloadFacts
  <2>5. TypeOK'
    BY <2>1, <2>2
  <2>6. ConfirmedIsStored'
    BY <2>1, <2>3
  <2>7. AnswersAreTrue'
    BY <2>1, <2>2, <2>3, <2>4
  <2>8. LateWasOffered'
    BY <2>1
  <2> QED
    BY <2>5, <2>6, <2>7, <2>8
<1>4. ASSUME NEW p \in Publishers, GiveUp(p) PROVE IInv'
  <2>1. late' \subseteq late \cup {payload[p]}
    BY <1>4 DEF GiveUp
  <2>2. LateWasOffered'
    BY <1>4, <2>1 DEF GiveUp
  <2>3. TypeOK'
    BY <1>4, <2>1, PublicationAssumption DEF GiveUp
  <2> QED
    BY <1>4, <2>2, <2>3 DEF GiveUp
<1>5. ASSUME NEW p \in Publishers, Hear(p) PROVE IInv'
  <2>1. TypeOK'
    BY <1>5, PublicationAssumption DEF Hear
  <2>2. ConfirmedIsStored'
    BY <1>5, PayloadFacts DEF Hear
  <2> QED
    BY <1>5, <2>1, <2>2 DEF Hear
<1>6. ASSUME NEW p \in Publishers, LookInVain(p) PROVE IInv'
  <2>1. TypeOK'
    BY <1>6, PublicationAssumption DEF LookInVain
  <2> QED
    BY <1>6, <2>1 DEF LookInVain
<1>7. ASSUME NEW p \in Publishers, Decide(p) PROVE IInv'
  BY <1>7 DEF Decide
<1>8. ASSUME NEW p \in Publishers, Rerun(p) PROVE IInv'
  <2>1. PICK c \in Contexts : payload' = [payload EXCEPT ![p].context = c]
    BY <1>8 DEF Rerun
  <2>2. payload' \in [Publishers -> Payloads]
    BY <2>1, PayloadFacts
  <2>3. \A r \in Publishers : /\ payload'[r].identity = payload[r].identity
                              /\ r # p => payload'[r] = payload[r]
    BY <2>1, PayloadFacts
  <2>4. answer[p] = "none"
    BY <1>8 DEF Rerun
  <2>5. UNCHANGED <<configured, answer, attempt, runs, stored, late>>
        /\ pc' = [pc EXCEPT ![p] = "idle"]
    BY <1>8 DEF Rerun
  <2>6. TypeOK'
    BY <2>2, <2>5
  <2>7. ConfirmedIsStored'
    BY <2>3, <2>5
  <2>8. AnswersAreTrue'
    BY <2>3, <2>4, <2>5
  <2>9. LateWasOffered'
    BY <2>3, <2>5
  <2> QED
    BY <2>6, <2>7, <2>8, <2>9
<1>9. CASE UNCHANGED vars
  BY <1>9 DEF vars
<1> QED
  BY <1>1, <1>2, <1>3, <1>4, <1>5, <1>6, <1>7, <1>8, <1>9 DEF Next, Client

LEMMA InvariantIInv == Spec => []IInv
<1> QED
  BY InitIInv, StepIInv, PTL DEF Spec

(* For any number of publishers and attempts, "success" means that the     *)
(* publisher's own evidence is stored (database_client.py:272-323).        *)
THEOREM ConfirmedEvidence == Spec => []ConfirmedIsStored
<1>1. IInv => ConfirmedIsStored
  BY DEF IInv
<1> QED
  BY InvariantIInv, <1>1, PTL

-----------------------------------------------------------------------------

LEMMA InitMaps == Init => Store!Init
BY DEF Init, Store!Init, Store!Payloads, Payloads, Final

(* The server's commits are Keep; the end of a call is Confirm or Refuse;  *)
(* a rerun is Again; everything between is invisible.                      *)
LEMMA StepMaps == IInv /\ [Next]_vars => [Store!Next]_(Store!vars)
<1> SUFFICES ASSUME IInv, [Next]_vars PROVE Store!Next \/ UNCHANGED Store!vars
  OBVIOUS
<1> DEFINE verdict == [p \in Publishers |-> IF pc[p] \in Final THEN pc[p] ELSE "open"]
<1>0. Payloads = Store!Payloads
  BY DEF Payloads, Store!Payloads
<1> USE DEF Store!vars, Goto, Final
<1>1. ASSUME stored = Nothing, stored' # Nothing, UNCHANGED <<payload, pc>>,
             NEW q \in Payloads, stored' = q,
             \E p \in Publishers : Matches(q, payload[p])
      PROVE  Store!Next
  <2>1. q # Nothing
    BY PayloadFacts
  <2>2. Store!Keep
    BY <1>0, <1>1, <2>1 DEF Store!Keep, Store!Matches, Matches
  <2> QED
    BY <2>2 DEF Store!Next
<1>2. CASE HandleLate
  <2>1. PICK q \in late : stored' \in {stored, IF stored = Nothing THEN q ELSE stored}
    BY <1>2 DEF HandleLate
  <2>2. UNCHANGED <<payload, pc>>
    BY <1>2 DEF HandleLate
  <2>3. CASE stored' = stored
    BY <2>2, <2>3
  <2>4. CASE stored' # stored
    BY <1>1, <2>1, <2>2, <2>4, PayloadFacts DEF IInv, TypeOK, LateWasOffered
  <2> QED
    BY <2>3, <2>4
<1>3. ASSUME NEW p \in Publishers, Handle(p) PROVE Store!Next \/ UNCHANGED Store!vars
  <2>1. UNCHANGED <<payload, pc>> /\ stored' \in {stored, payload[p]}
        /\ (stored # Nothing => stored' = stored)
    BY <1>3, PayloadFacts DEF Handle
  <2>2. payload[p] \in Payloads /\ Matches(payload[p], payload[p])
    BY DEF IInv, TypeOK, Matches
  <2>3. CASE stored' = stored
    BY <2>1, <2>3
  <2>4. CASE stored' # stored
    BY <1>1, <2>1, <2>2, <2>4, PayloadFacts
  <2> QED
    BY <2>3, <2>4
<1>4. ASSUME NEW p \in Publishers, pc[p] \notin Final, UNCHANGED <<payload, stored>>,
             NEW v, pc' = [pc EXCEPT ![p] = v]
      PROVE  verdict' = IF v \in Final THEN [verdict EXCEPT ![p] = v] ELSE verdict
  BY <1>4 DEF IInv, TypeOK
<1>5. ASSUME NEW p \in Publishers, Publish(p) PROVE Store!Next \/ UNCHANGED Store!vars
  <2>1. pc[p] \notin Final /\ UNCHANGED <<payload, stored>>
    BY <1>5 DEF Publish
  <2>2. CASE pc' = [pc EXCEPT ![p] = "posting"]
    <3>1. verdict' = verdict
      BY <1>4, <2>1, <2>2
    <3> QED
      BY <2>1, <3>1
  <2>3. CASE pc' = [pc EXCEPT ![p] = "skipped"]
    <3>1. verdict' = [verdict EXCEPT ![p] = "skipped"]
      BY <1>4, <2>1, <2>3
    <3>2. verdict[p] = "open"
      BY <2>1
    <3>3. Store!Refuse(p)
      BY <2>1, <3>1, <3>2 DEF Store!Refuse
    <3> QED
      BY <3>3 DEF Store!Next
  <2> QED
    BY <1>5, <2>2, <2>3 DEF Publish
<1>6. ASSUME NEW p \in Publishers, Client(p) PROVE Store!Next \/ UNCHANGED Store!vars
  <2>1. pc[p] \notin Final /\ UNCHANGED <<payload, stored>>
    BY <1>6 DEF Client, GiveUp, Hear, LookInVain, Decide
  <2>2. verdict[p] = "open"
    BY <2>1
  <2>3. CASE pc' = [pc EXCEPT ![p] = "reconciling"] \/ UNCHANGED pc
    <3>1. verdict' = verdict
      BY <1>4, <2>1, <2>3
    <3> QED
      BY <2>1, <3>1
  <2>4. CASE pc' = [pc EXCEPT ![p] = "failed"]
    <3>1. verdict' = [verdict EXCEPT ![p] = "failed"]
      BY <1>4, <2>1, <2>4
    <3>2. Store!Refuse(p)
      BY <2>1, <2>2, <3>1 DEF Store!Refuse
    <3> QED
      BY <3>2 DEF Store!Next
  <2>5. ASSUME pc' = [pc EXCEPT ![p] = "confirmed"],
               stored # Nothing, Matches(stored, payload[p])
        PROVE  Store!Next
    <3>1. verdict' = [verdict EXCEPT ![p] = "confirmed"]
      BY <1>4, <2>1, <2>5
    <3>2. Store!Confirm(p)
      BY <2>1, <2>2, <2>5, <3>1 DEF Store!Confirm, Store!Matches, Matches
    <3> QED
      BY <3>2 DEF Store!Next
  <2>6. CASE Hear(p)
    <3>1. CASE answer[p] = "success"
      BY <2>5, <2>6, <3>1, PayloadFacts DEF Hear, IInv, TypeOK, AnswersAreTrue, Matches
    <3>2. CASE answer[p] \in {"conflict", "error"}
      BY <2>3, <2>6, <3>2 DEF Hear
    <3>3. CASE answer[p] = "refused"
      BY <2>4, <2>6, <3>3 DEF Hear
    <3> QED
      BY <2>6, <3>1, <3>2, <3>3 DEF Hear, Answers
  <2>7. CASE GiveUp(p)
    BY <2>3, <2>7 DEF GiveUp
  <2>8. CASE LookInVain(p)
    BY <2>3, <2>4, <2>8 DEF LookInVain
  <2>9. CASE Decide(p)
    BY <2>4, <2>5, <2>9 DEF Decide
  <2> QED
    BY <1>6, <2>6, <2>7, <2>8, <2>9 DEF Client
<1>7. ASSUME NEW p \in Publishers, Rerun(p) PROVE Store!Next
  <2>1. pc[p] \in Final /\ pc' = [pc EXCEPT ![p] = "idle"] /\ UNCHANGED stored
    BY <1>7 DEF Rerun
  <2>2. PICK c \in Contexts : payload' = [payload EXCEPT ![p].context = c]
    BY <1>7 DEF Rerun
  <2>3. verdict[p] # "open" /\ verdict' = [verdict EXCEPT ![p] = "open"]
    BY <2>1 DEF IInv, TypeOK
  <2>4. Store!Again(p)
    BY <2>1, <2>2, <2>3 DEF Store!Again
  <2> QED
    BY <2>4 DEF Store!Next
<1>8. CASE UNCHANGED vars
  BY <1>8 DEF vars
<1> QED
  BY <1>2, <1>3, <1>5, <1>6, <1>7, <1>8 DEF Next

(* The publishing protocol implements the abstract evidence store for all  *)
(* publishers, identities, contexts and attempt limits.                    *)
THEOREM PublicationImplementsStore == Spec => ImplementsEvidenceStore
<1> QED
  BY InitMaps, StepMaps, InvariantIInv, PTL DEF Spec, ImplementsEvidenceStore, Store!Spec

(* Every state of the publishing protocol is one its variables may have:   *)
(* no call of publish_backtest_run ends without a verdict of its own.      *)
THEOREM TypesHold == Spec => []TypeOK
<1>1. IInv => TypeOK
  BY DEF IInv
<1> QED
  BY InvariantIInv, <1>1, PTL

-----------------------------------------------------------------------------
(* A calm try: an answer is one the server should give, and there is       *)
(* something stored as soon as there is an answer.                         *)
CalmTry(p) ==
  /\ pc[p] = "posting" =>
       /\ answer[p] \in {"pending", "success", "conflict"}
       /\ answer[p] # "pending" => stored # Nothing
  /\ pc[p] = "reconciling" => stored # Nothing
  /\ pc[p] = "failed" => stored # Nothing /\ ~Matches(stored, payload[p])

CalmTries ==
  /\ calm \in [Publishers -> BOOLEAN]
  /\ \A p \in Publishers : calm[p] => CalmTry(p)

LEMMA StoredStays ==
  ASSUME IInv, [Next]_vars
  PROVE  stored # Nothing => stored' = stored
BY PayloadFacts DEF IInv, TypeOK, Next, Client, vars, HandleLate, Publish, Handle, GiveUp,
  Hear, LookInVain, Decide, Rerun

(* What a step leaves alone of a publisher stays calm.                     *)
LEMMA OthersStayCalm ==
  ASSUME IInv, [Next]_vars, NEW p \in Publishers, CalmTry(p),
         pc'[p] = pc[p], answer'[p] = answer[p], payload'[p] = payload[p]
  PROVE  CalmTry(p)'
BY StoredStays DEF CalmTry

LEMMA OwnStepStaysCalm ==
  ASSUME IInv, NEW p \in Publishers, CalmTry(p), Undisturbed(p),
         Publish(p) \/ Handle(p) \/ Client(p) \/ Rerun(p)
  PROVE  CalmTry(p)'
<1> USE DEF IInv, TypeOK, CalmTry, Goto
<1>1. CASE Publish(p)
  BY <1>1 DEF Publish
<1>2. CASE Handle(p)
  <2>1. answer[p] = "pending" /\ pc[p] = "posting" /\ pc' = pc
    BY <1>2 DEF Handle, AnswersAreTrue
  <2>2. answer'[p] \in Answers
    <3>1. \/ \E a \in Answers : answer' = [answer EXCEPT ![p] = a]
          \/ \E a \in Answers \ {"conflict"} : answer' = [answer EXCEPT ![p] = a]
          \/ \E a \in Answers \ {"success"} : answer' = [answer EXCEPT ![p] = a]
          \/ \E a \in {"error", "refused"} : answer' = [answer EXCEPT ![p] = a]
      BY <1>2, Zenon DEF Handle
    <3> QED
      BY <3>1 DEF Answers
  <2>3. ProperAnswer(p)
    BY <2>1, <2>2 DEF Undisturbed, Answers
  <2>4. payload[p] # Nothing
    BY PayloadFacts
  <2>5. stored = Nothing => answer'[p] = "success" /\ stored' = payload[p]
    BY <2>3 DEF ProperAnswer
  <2>6. stored # Nothing => answer'[p] \in {"success", "conflict"} /\ stored' = stored
    BY <1>2, <2>3 DEF ProperAnswer, Handle
  <2> QED
    BY <2>1, <2>4, <2>5, <2>6
<1>3. CASE GiveUp(p)
  <2>1. pc[p] = "posting" /\ pc'[p] = "reconciling" /\ UNCHANGED <<stored, payload>>
    BY <1>3 DEF GiveUp
  <2>2. answer[p] # "pending"
    BY <2>1 DEF Undisturbed, Answers
  <2> QED
    BY <2>1, <2>2
<1>4. CASE Hear(p)
  <2>1. pc[p] = "posting" /\ answer[p] \in {"success", "conflict"} /\ UNCHANGED stored
    BY <1>4 DEF Hear, Answers
  <2>2. answer[p] = "success" => pc'[p] = "confirmed"
    BY <1>4 DEF Hear
  <2>3. answer[p] = "conflict" => pc'[p] = "reconciling"
    BY <1>4 DEF Hear
  <2> QED
    BY <2>1, <2>2, <2>3
<1>5. CASE LookInVain(p) \/ Decide(p)
  <2>1. /\ pc[p] = "reconciling" /\ pc'[p] \in {"reconciling", "confirmed", "failed"}
        /\ UNCHANGED <<stored, payload>>
    BY <1>5 DEF LookInVain, Decide
  <2>2. pc'[p] = "failed" => ~Matches(stored, payload[p])
    BY <2>1 DEF Undisturbed
  <2> QED
    BY <2>1, <2>2 DEF Matches
<1>6. CASE Rerun(p)
  BY <1>6 DEF Rerun
<1> QED
  BY <1>1, <1>2, <1>3, <1>4, <1>5, <1>6 DEF Client

LEMMA OneStep ==
  ASSUME IInv, [Next]_vars, NEW p \in Publishers
  PROVE  \/ Publish(p) \/ Handle(p) \/ Client(p) \/ Rerun(p)
         \/ pc'[p] = pc[p] /\ answer'[p] = answer[p] /\ payload'[p] = payload[p]
<1>1. ASSUME NEW q \in Publishers \ {p}, Publish(q) \/ Handle(q) \/ Client(q) \/ Rerun(q)
      PROVE  pc'[p] = pc[p] /\ answer'[p] = answer[p] /\ payload'[p] = payload[p]
  BY <1>1 DEF IInv, TypeOK, Goto, Client, Publish, Handle, GiveUp, Hear, LookInVain,
     Decide, Rerun
<1> QED
  BY <1>1 DEF Next, vars, HandleLate

LEMMA CalmStep ==
  ASSUME IInv, CalmTries, [RetryNext]_retryVars
  PROVE  CalmTries'
<1>1. CASE RetryNext
  <2>1. /\ Next
        /\ calm' = [p \in Publishers |->
                      IF pc[p] = "idle" THEN TRUE ELSE calm[p] /\ Undisturbed(p)]
    BY <1>1 DEF RetryNext
  <2>2. calm' \in [Publishers -> BOOLEAN]
    BY <2>1 DEF CalmTries
  <2>3. ASSUME NEW p \in Publishers, calm'[p] PROVE CalmTry(p)'
    <3>1. CASE pc[p] = "idle"
      <4>1. CalmTry(p)
        BY <3>1 DEF CalmTry
      <4>2. pc'[p] \in {"idle", "skipped"} \/ (pc'[p] = "posting" /\ answer'[p] = "pending")
        <5>1. CASE Publish(p)
          BY <3>1, <5>1 DEF Publish, Goto, IInv, TypeOK
        <5>2. ~Handle(p) /\ ~Client(p) /\ ~Rerun(p)
          BY <3>1 DEF Handle, Client, GiveUp, Hear, LookInVain, Decide, Rerun, IInv,
             AnswersAreTrue, Final
        <5> QED
          BY <2>1, <3>1, <5>1, <5>2, OneStep
      <4> QED
        BY <4>2 DEF CalmTry
    <3>2. CASE pc[p] # "idle"
      <4>1. CalmTry(p) /\ Undisturbed(p)
        BY <2>1, <2>3, <3>2 DEF CalmTries
      <4> QED
        BY <2>1, <4>1, OneStep, OwnStepStaysCalm, OthersStayCalm
    <3> QED
      BY <3>1, <3>2
  <2> QED
    BY <2>2, <2>3 DEF CalmTries
<1>2. CASE UNCHANGED retryVars
  BY <1>2 DEF retryVars, vars, CalmTries, CalmTry
<1> QED
  BY <1>1, <1>2

(* For any publishers and attempts, a publisher is told "success" only of  *)
(* what is stored, and a try in which nothing goes wrong fails only when   *)
(* the id is taken by another run, whatever became of earlier tries        *)
(* (database_client.py:272-324).                                           *)
THEOREM VerdictsStayRight == RetrySpec => []VerdictsAreRight
<1>1. RetryInit => Init /\ CalmTries
  BY DEF RetryInit, Init, CalmTries, CalmTry
<1>2. [RetryNext]_retryVars => [Next]_vars
  BY DEF RetryNext, retryVars
<1>3. IInv /\ CalmTries /\ [RetryNext]_retryVars => CalmTries'
  BY CalmStep
<1>4. IInv /\ CalmTries => VerdictsAreRight
  BY DEF IInv, CalmTries, CalmTry, VerdictsAreRight, CalmTryIsConfirmed
<1> QED
  BY <1>1, <1>2, <1>3, <1>4, InitIInv, StepIInv, PTL DEF RetrySpec
=============================================================================
