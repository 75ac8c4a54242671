-------------------------- MODULE Promotion_proofs --------------------------
(***************************************************************************)
(* For any number of runners and runs: the promotion passes its stages in  *)
(* order, stays ended once it has ended, and is reported only as what it   *)
(* was during the run that reports it.                                     *)
(***************************************************************************)
EXTENDS Promotion, TLAPS

(* What a runner asks is a create or one of the transitions it owns.       *)
Sound(q) == q = Create \/ (q \in Transition /\ <<q.from, q.to>> \in OwnedTransitions)

RequestsAreOwned ==
  /\ \A r \in Runners : Sound(request[r])
  /\ \A q \in late : Sound(q)

Recorded(h, record) ==
  /\ record.version \in 1..Len(h)
  /\ h[record.version] = record.state

(* An answer says what the history says, and neither it nor the question   *)
(* is older than the run.                                                  *)
AnswersAreRecorded ==
  \A r \in Runners :
    /\ floor[r] <= Len(history)
    /\ reply[r] \notin {Unanswered, Refused} => Recorded(history, reply[r]) /\ reply[r].version >= floor[r]
    /\ request[r] # Create => request[r].version >= floor[r]

IInv ==
  /\ TypeOK /\ AttestedInOrder /\ TerminalIsFinal /\ NoFalseGreen
  /\ RequestsAreOwned /\ AnswersAreRecorded

LEMMA OwnedFacts ==
  \A f, t : <<f, t>> \in OwnedTransitions =>
    /\ f \in States \ TerminalStates /\ t \in AttestedStates
    /\ <<f, t>> \in { <<"GENERATED", "VALIDATED">>, <<"VALIDATED", "OOS_PASSED">>,
                      <<"OOS_PASSED", "ROBUSTNESS_PASSED">> }
BY DEF OwnedTransitions, States, TerminalStates, AttestedStates, DownstreamStates

LEMMA StateFacts ==
  /\ AttestedStates \subseteq States \ TerminalStates
  /\ TerminalStates \subseteq States
  /\ DownstreamStates \subseteq States
  /\ "GENERATED" \in States \ (TerminalStates \cup AttestedStates)
  /\ "none" \notin States /\ "refused" \notin States
  /\ "APPROVED_FOR_PAPER" \in States \ AttestedStates
  /\ "PAPER_OBSERVING" \in States \ AttestedStates
  /\ "ROBUSTNESS_PASSED" \notin TerminalStates /\ "APPROVED_FOR_PAPER" \notin TerminalStates
  /\ TerminalStates \cap AttestedStates = {}
BY DEF States, TerminalStates, AttestedStates, DownstreamStates

HistoryOK(h) ==
  /\ h \in Seq(States)
  /\ \A v \in 1..(Len(h) - 1) :
       h[v + 1] \in AttestedStates =>
         <<h[v], h[v + 1]>> \in
           { <<"GENERATED", "VALIDATED">>, <<"VALIDATED", "OOS_PASSED">>,
             <<"OOS_PASSED", "ROBUSTNESS_PASSED">> }
  /\ \A v \in 1..Len(h) : h[v] \in TerminalStates => v = Len(h)

(* An ordered history stays ordered when a state is appended to one that   *)
(* may be followed by it.                                                  *)
LEMMA AppendKeepsOrder ==
  ASSUME NEW h, HistoryOK(h), NEW s \in States,
         h # <<>> => h[Len(h)] \notin TerminalStates,
         h # <<>> /\ s \in AttestedStates =>
           <<h[Len(h)], s>> \in { <<"GENERATED", "VALIDATED">>, <<"VALIDATED", "OOS_PASSED">>,
                                  <<"OOS_PASSED", "ROBUSTNESS_PASSED">> }
  PROVE  /\ HistoryOK(Append(h, s))
         /\ Len(Append(h, s)) = Len(h) + 1
         /\ \A v \in 1..Len(h) : Append(h, s)[v] = h[v]
         /\ Append(h, s)[Len(h) + 1] = s
<1>1. /\ Append(h, s) \in Seq(States)
      /\ Len(Append(h, s)) = Len(h) + 1 /\ Len(h) \in Nat
      /\ \A v \in 1..Len(h) : Append(h, s)[v] = h[v]
      /\ Append(h, s)[Len(h) + 1] = s
  BY DEF HistoryOK
<1> DEFINE g == Append(h, s)
<1>2. ASSUME NEW v \in 1..(Len(g) - 1), g[v + 1] \in AttestedStates
      PROVE  <<g[v], g[v + 1]>> \in
               { <<"GENERATED", "VALIDATED">>, <<"VALIDATED", "OOS_PASSED">>,
                 <<"OOS_PASSED", "ROBUSTNESS_PASSED">> }
  <2>1. CASE v = Len(h)
    BY <1>1, <1>2, <2>1
  <2>2. CASE v # Len(h)
    <3>1. v \in 1..(Len(h) - 1) /\ v \in 1..Len(h) /\ v + 1 \in 1..Len(h)
      BY <1>1, <2>2
    <3>2. g[v] = h[v] /\ g[v + 1] = h[v + 1]
      BY <1>1, <3>1
    <3> QED
      BY <1>2, <3>1, <3>2 DEF HistoryOK
  <2> QED
    BY <2>1, <2>2
<1>3. ASSUME NEW v \in 1..Len(g), g[v] \in TerminalStates PROVE v = Len(g)
  <2>1. SUFFICES ASSUME v \in 1..Len(h) PROVE FALSE
    BY <1>1
  <2>2. v = Len(h)
    BY <1>1, <1>3, <2>1 DEF HistoryOK
  <2> QED
    BY <1>1, <1>3, <2>1, <2>2
<1>4. HistoryOK(g)
  BY <1>1, <1>2, <1>3 DEF HistoryOK
<1> QED
  BY <1>1, <1>4

LEMMA HistoryIsOK == TypeOK /\ AttestedInOrder /\ TerminalIsFinal => HistoryOK(history)
BY DEF TypeOK, AttestedInOrder, TerminalIsFinal, HistoryOK

LEMMA OKIsOrdered == HistoryOK(history)' => AttestedInOrder' /\ TerminalIsFinal'
BY DEF AttestedInOrder, TerminalIsFinal, HistoryOK

(* The history grows and forgets nothing, so what was recorded stays so.   *)
Grows == /\ Len(history') >= Len(history)
         /\ \A v \in 1..Len(history) : history'[v] = history[v]

LEMMA ServingGrows ==
  ASSUME TypeOK, HistoryOK(history), NEW q, Sound(q),
         history' = HistoryAfter(q)
  PROVE  HistoryOK(history') /\ Grows
<1>1. CASE ~Applies(q)
  BY <1>1 DEF HistoryAfter, TypeOK, Grows
<1>2. CASE q = Create /\ Applies(q)
  <2>1. q.to \in States \ AttestedStates /\ history = <<>>
    BY <1>2, StateFacts DEF Applies, Create
  <2>2. history' = Append(history, q.to)
    BY <1>2 DEF HistoryAfter
  <2>3. /\ HistoryOK(Append(history, q.to))
        /\ Len(Append(history, q.to)) = Len(history) + 1
        /\ \A v \in 1..Len(history) : Append(history, q.to)[v] = history[v]
    <3>1. HistoryOK(history) /\ q.to \in States /\ q.to \notin AttestedStates /\ history = <<>>
      BY <2>1
    <3> QED
      BY <3>1, AppendKeepsOrder
  <2>4. Len(history) \in Nat
    BY DEF TypeOK
  <2> QED
    BY <2>2, <2>3, <2>4 DEF Grows
<1>3. CASE q # Create /\ Applies(q)
  <2>1. /\ q.version \in Nat \ {0} /\ q.from \in States /\ q.to \in States
        /\ <<q.from, q.to>> \in OwnedTransitions
    BY <1>3 DEF Sound, Transition
  <2>2. q.version = Len(history) /\ history[Len(history)] = q.from
    BY <1>3 DEF Applies
  <2>3. history' = Append(history, q.to)
    BY <1>3 DEF HistoryAfter
  <2>4. Len(history) \in Nat
    BY DEF TypeOK
  <2> QED
    BY <2>1, <2>2, <2>3, <2>4, OwnedFacts, AppendKeepsOrder DEF Grows
<1> QED
  BY <1>1, <1>2, <1>3

(* What was said of the history remains true of a longer one.              *)
LEMMA GrowingKeepsWord ==
  ASSUME IInv, HistoryOK(history'), Grows,
         UNCHANGED <<pc, request, reply, current, runs, floor>>,
         late' \subseteq late
  PROVE  IInv'
<1>1. Len(history) \in Nat /\ Len(history') \in Nat
  BY DEF IInv, TypeOK, HistoryOK
<1>2. TypeOK'
  BY DEF IInv, TypeOK, HistoryOK
<1>3. NoFalseGreen'
  BY <1>1, StateFacts DEF IInv, NoFalseGreen, Grows, TypeOK, Record, Unanswered
<1>4. RequestsAreOwned'
  BY DEF IInv, RequestsAreOwned
<1>5. AnswersAreRecorded'
  <2>1. ASSUME NEW r \in Runners, reply[r] \notin {Unanswered, Refused}
        PROVE  Recorded(history', reply[r])
    <3>1. Recorded(history, reply[r])
      BY <2>1 DEF IInv, AnswersAreRecorded
    <3> QED
      BY <1>1, <3>1 DEF Recorded, Grows
  <2>2. ASSUME NEW r \in Runners PROVE floor[r] <= Len(history')
    <3>1. floor[r] \in Nat /\ floor[r] <= Len(history)
      BY DEF IInv, TypeOK, AnswersAreRecorded
    <3> QED
      BY <1>1, <3>1 DEF Grows
  <2> QED
    BY <2>1, <2>2 DEF IInv, AnswersAreRecorded
<1> QED
  BY <1>2, <1>3, <1>4, <1>5, OKIsOrdered DEF IInv

LEMMA InitIInv == Init => IInv
BY StateFacts DEF Init, IInv, TypeOK, AttestedInOrder, TerminalIsFinal, NoFalseGreen,
   RequestsAreOwned, AnswersAreRecorded, Sound

(* A sound question gets an answer the history bears out.                  *)
LEMMA AnswerIsRecorded ==
  ASSUME IInv, NEW r \in Runners, history' = HistoryAfter(request[r]), Grows,
         AnswerTo(request[r]) # Refused
  PROVE  /\ AnswerTo(request[r]) \in Record
         /\ Recorded(history', AnswerTo(request[r]))
         /\ AnswerTo(request[r]).version >= floor[r]
<1> DEFINE q == request[r]
<1>1. Sound(q) /\ floor[r] \in Nat /\ floor[r] <= Len(history) /\ Len(history) \in Nat
  BY DEF IInv, RequestsAreOwned, AnswersAreRecorded, TypeOK
<1>2. CASE q = Create /\ Applies(q)
  <2>1. history = <<>> /\ history' = Append(history, "GENERATED")
    BY <1>2 DEF Applies, HistoryAfter, Create
  <2>2. AnswerTo(q) = [state |-> "GENERATED", version |-> 1]
    BY <1>2, <2>1 DEF AnswerTo, Create
  <2>3. Len(history') = 1 /\ history'[1] = "GENERATED" /\ floor[r] = 0
    BY <1>1, <2>1, StateFacts
  <2> QED
    BY <2>2, <2>3, StateFacts DEF Record, Recorded
<1>3. CASE q = Create /\ ~Applies(q)
  <2>1. history # <<>> /\ history' = history
    BY <1>3 DEF Applies, HistoryAfter
  <2>2. AnswerTo(q) = Latest
    BY <1>3, <2>1 DEF AnswerTo, Replays
  <2>3. Len(history) \in 1..Len(history) /\ history[Len(history)] \in States
    BY <1>1, <2>1 DEF IInv, TypeOK
  <2> QED
    BY <1>1, <2>1, <2>2, <2>3 DEF Record, Recorded, Latest
<1>4. CASE q # Create
  <2>1. /\ q.version \in Nat \ {0} /\ q.to \in States /\ q.version >= floor[r]
    BY <1>1, <1>4 DEF Sound, Transition, IInv, AnswersAreRecorded
  <2>2. CASE Applies(q)
    <3>1. history' = Append(history, q.to) /\ q.version = Len(history)
      BY <1>4, <2>2 DEF Applies, HistoryAfter
    <3>2. Len(history') = q.version + 1 /\ history'[q.version + 1] = q.to
      BY <1>1, <2>1, <3>1 DEF IInv, TypeOK
    <3>3. AnswerTo(q) = [state |-> q.to, version |-> q.version + 1]
      BY <1>4, <2>2 DEF AnswerTo
    <3> QED
      BY <1>1, <2>1, <3>2, <3>3 DEF Record, Recorded
  <2>3. CASE ~Applies(q) /\ Replays(q)
    <3>1. /\ history' = history
          /\ q.version < Len(history) /\ history[q.version + 1] = q.to
      BY <1>4, <2>3 DEF Replays, HistoryAfter
    <3>2. AnswerTo(q) = [state |-> q.to, version |-> q.version + 1]
      BY <1>4, <2>3 DEF AnswerTo
    <3> QED
      BY <1>1, <2>1, <3>1, <3>2 DEF Record, Recorded
  <2>4. CASE ~Applies(q) /\ ~Replays(q)
    BY <2>4 DEF AnswerTo, Replays
  <2> QED
    BY <2>2, <2>3, <2>4
<1> QED
  BY <1>2, <1>3, <1>4

LEMMA StepIInv == IInv /\ [Next]_vars => IInv'
<1> SUFFICES ASSUME IInv, [Next]_vars PROVE IInv'
  OBVIOUS
<1>0. HistoryOK(history) /\ TypeOK /\ Len(history) \in Nat
  BY HistoryIsOK DEF IInv, TypeOK
<1>a. ASSUME UNCHANGED history PROVE AttestedInOrder' /\ TerminalIsFinal'
  BY <1>a DEF IInv, AttestedInOrder, TerminalIsFinal
<1>1. CASE HandleLate
  <2>1. PICK q \in late : late' = late \ {q} /\ history' \in {history, HistoryAfter(q)}
    BY <1>1 DEF HandleLate
  <2>2. Sound(q)
    BY DEF IInv, RequestsAreOwned
  <2>3. HistoryOK(history') /\ Grows
    BY <1>0, <2>1, <2>2, ServingGrows DEF Grows
  <2> QED
    BY <1>1, <2>1, <2>3, GrowingKeepsWord DEF HandleLate
<1>2. CASE Manage
  <2>1. PICK s \in States :
          /\ \/ Latest.state = "ROBUSTNESS_PASSED" /\ s = "APPROVED_FOR_PAPER"
             \/ Latest.state = "APPROVED_FOR_PAPER" /\ s = "PAPER_OBSERVING"
             \/ Latest.state \notin TerminalStates /\ s \in TerminalStates
          /\ history' = Append(history, s)
    BY <1>2 DEF Manage
  <2>2. history[Len(history)] \notin TerminalStates /\ s \notin AttestedStates
    BY <2>1, StateFacts DEF Latest
  <2>3. HistoryOK(history') /\ Grows
    BY <1>0, <2>1, <2>2, AppendKeepsOrder DEF Grows
  <2> QED
    BY <1>2, <2>3, GrowingKeepsWord DEF Manage
<1>3. ASSUME NEW r \in Runners, Begin(r) PROVE IInv'
  <2>1. TypeOK'
    BY <1>0, <1>3 DEF Begin, Ask, Goto, TypeOK
  <2>2. NoFalseGreen'
    BY <1>0, <1>3 DEF Begin, Ask, Goto, TypeOK, IInv, NoFalseGreen
  <2>3. RequestsAreOwned'
    BY <1>0, <1>3 DEF Begin, Ask, TypeOK, IInv, RequestsAreOwned, Sound
  <2>4. AnswersAreRecorded'
    BY <1>0, <1>3 DEF Begin, Ask, TypeOK, IInv, AnswersAreRecorded, Recorded
  <2> QED
    BY <1>3, <1>a, <2>1, <2>2, <2>3, <2>4 DEF Begin, IInv
<1>4. ASSUME NEW r \in Runners, Handle(r) PROVE IInv'
  <2>1. Sound(request[r])
    BY DEF IInv, RequestsAreOwned
  <2>2. HistoryOK(history') /\ Grows
    BY <1>0, <1>4, <2>1, ServingGrows DEF Handle
  <2>3. Len(history') \in Nat
    BY <2>2 DEF HistoryOK
  <2>4. reply' = [reply EXCEPT ![r] = AnswerTo(request[r])]
        /\ UNCHANGED <<pc, request, current, runs, late, floor>>
    BY <1>4 DEF Handle
  <2>5. \/ AnswerTo(request[r]) = Refused
        \/ /\ AnswerTo(request[r]) \in Record
           /\ Recorded(history', AnswerTo(request[r]))
           /\ AnswerTo(request[r]).version >= floor[r]
    BY <1>4, <2>2, AnswerIsRecorded DEF Handle
  <2>6. TypeOK'
    BY <1>0, <2>2, <2>4, <2>5 DEF TypeOK, HistoryOK
  <2>7. NoFalseGreen'
    BY <1>0, <2>2, <2>3, <2>4, StateFacts
       DEF IInv, NoFalseGreen, Grows, TypeOK, Record, Unanswered
  <2>8. RequestsAreOwned'
    BY <2>4 DEF IInv, RequestsAreOwned
  <2>9. AnswersAreRecorded'
    <3>1. ASSUME NEW t \in Runners, t # r, reply[t] \notin {Unanswered, Refused}
          PROVE  Recorded(history', reply'[t])
      <4>1. Recorded(history, reply[t]) /\ reply'[t] = reply[t]
        BY <1>0, <2>4, <3>1 DEF IInv, AnswersAreRecorded, TypeOK
      <4> QED
        BY <1>0, <2>2, <2>3, <4>1 DEF Recorded, Grows
    <3>2. \A t \in Runners : floor'[t] <= Len(history')
      BY <1>0, <2>2, <2>3, <2>4 DEF IInv, AnswersAreRecorded, Grows, TypeOK
    <3>3. reply'[r] \notin {Unanswered, Refused} =>
            Recorded(history', reply'[r]) /\ reply'[r].version >= floor'[r]
      <4>1. reply'[r] = AnswerTo(request[r])
        BY <1>0, <2>4 DEF TypeOK
      <4> QED
        BY <2>4, <2>5, <4>1 DEF Recorded
    <3> QED
      BY <1>0, <2>4, <3>1, <3>2, <3>3 DEF IInv, AnswersAreRecorded, TypeOK
  <2> QED
    BY <2>2, <2>6, <2>7, <2>8, <2>9, OKIsOrdered DEF IInv
<1>5. ASSUME NEW r \in Runners, Lose(r) PROVE IInv'
  <2>1. TypeOK'
    BY <1>0, <1>5 DEF Lose, Goto, TypeOK
  <2>2. NoFalseGreen'
    BY <1>0, <1>5 DEF Lose, Goto, TypeOK, IInv, NoFalseGreen
  <2>3. RequestsAreOwned'
    BY <1>0, <1>5 DEF Lose, IInv, RequestsAreOwned
  <2>4. AnswersAreRecorded'
    BY <1>0, <1>5 DEF Lose, IInv, AnswersAreRecorded, Recorded
  <2> QED
    BY <1>5, <1>a, <2>1, <2>2, <2>3, <2>4 DEF Lose, IInv
<1>6. ASSUME NEW r \in Runners, Advance(r) PROVE IInv'
  <2>1. /\ reply[r] \in Record /\ Recorded(history, reply[r]) /\ reply[r].version >= floor[r]
        /\ current' = [current EXCEPT ![r] = reply[r]]
        /\ UNCHANGED <<history, runs, late, floor>>
    BY <1>0, <1>6 DEF Advance, Given, IInv, AnswersAreRecorded, TypeOK
  <2>2. CASE /\ reply[r].state \in DownstreamStates
             /\ pc' = [pc EXCEPT ![r] = "done"] /\ UNCHANGED <<request, reply>>
    <3>1. TypeOK'
      BY <1>0, <2>1, <2>2 DEF TypeOK
    <3>2. NoFalseGreen'
      BY <1>0, <2>1, <2>2 DEF IInv, NoFalseGreen, TypeOK, Recorded, Record
    <3>3. RequestsAreOwned' /\ AnswersAreRecorded'
      BY <2>1, <2>2 DEF IInv, RequestsAreOwned, AnswersAreRecorded, Recorded
    <3> QED
      BY <1>a, <2>1, <3>1, <3>2, <3>3 DEF IInv
  <2>3. ASSUME NEW s \in States, <<reply[r].state, s>> \in OwnedTransitions,
               Ask(r, [from |-> reply[r].state, to |-> s, version |-> reply[r].version])
        PROVE  IInv'
    <3> DEFINE q == [from |-> reply[r].state, to |-> s, version |-> reply[r].version]
    <3>1. q \in Transition /\ Sound(q) /\ q.version >= floor[r]
      BY <2>1, <2>3 DEF Record, Transition, Sound
    <3>2. TypeOK'
      BY <1>0, <2>1, <2>3, <3>1 DEF TypeOK, Ask, Goto
    <3>3. NoFalseGreen'
      BY <1>0, <2>1, <2>3 DEF IInv, NoFalseGreen, TypeOK, Ask, Goto
    <3>4. RequestsAreOwned'
      BY <1>0, <2>1, <2>3, <3>1 DEF IInv, RequestsAreOwned, TypeOK, Ask
    <3>5. AnswersAreRecorded'
      BY <1>0, <2>1, <2>3, <3>1 DEF IInv, AnswersAreRecorded, Recorded, TypeOK, Ask
    <3> QED
      BY <1>a, <2>1, <3>2, <3>3, <3>4, <3>5 DEF IInv
  <2>4. CASE pc' = [pc EXCEPT ![r] = "failed"] /\ UNCHANGED <<request, reply>>
    <3>1. TypeOK'
      BY <1>0, <2>1, <2>4 DEF TypeOK
    <3>2. NoFalseGreen'
      BY <1>0, <2>1, <2>4 DEF IInv, NoFalseGreen, TypeOK
    <3>3. RequestsAreOwned' /\ AnswersAreRecorded'
      BY <2>1, <2>4 DEF IInv, RequestsAreOwned, AnswersAreRecorded, Recorded
    <3> QED
      BY <1>a, <2>1, <3>1, <3>2, <3>3 DEF IInv
  <2> QED
    BY <1>6, <2>2, <2>3, <2>4 DEF Advance, Given, Goto
<1>7. ASSUME NEW r \in Runners, Stop(r) PROVE IInv'
  <2>1. TypeOK'
    BY <1>0, <1>7 DEF Stop, Goto, TypeOK
  <2>2. NoFalseGreen'
    BY <1>0, <1>7 DEF Stop, Goto, TypeOK, IInv, NoFalseGreen
  <2>3. RequestsAreOwned' /\ AnswersAreRecorded'
    BY <1>0, <1>7 DEF Stop, IInv, RequestsAreOwned, AnswersAreRecorded, Recorded
  <2> QED
    BY <1>7, <1>a, <2>1, <2>2, <2>3 DEF Stop, IInv
<1>8. CASE UNCHANGED vars
  <2>1. RequestsAreOwned' /\ AnswersAreRecorded' /\ TypeOK' /\ NoFalseGreen'
    BY <1>8 DEF vars, IInv, RequestsAreOwned, AnswersAreRecorded, Recorded, TypeOK,
       NoFalseGreen
  <2> QED
    BY <1>8, <1>a, <2>1 DEF vars, IInv
<1> QED
  BY <1>1, <1>2, <1>3, <1>4, <1>5, <1>6, <1>7, <1>8 DEF Next, Runner

LEMMA InvariantIInv == Spec => []IInv
<1> QED
  BY InitIInv, StepIInv, PTL DEF Spec

(* A promotion is attested each stage only out of the stage before, for    *)
(* any number of concurrent runners, retries and late requests.            *)
THEOREM StagesInOrder == Spec => []AttestedInOrder
<1>1. IInv => AttestedInOrder
  BY DEF IInv
<1> QED
  BY InvariantIInv, <1>1, PTL

(* Nothing this agent sends brings an ended promotion back.                *)
THEOREM EndedForGood == Spec => []TerminalIsFinal
<1>1. IInv => TerminalIsFinal
  BY DEF IInv
<1> QED
  BY InvariantIInv, <1>1, PTL

(* What a runner reports was recorded during its run.                      *)
THEOREM ReportsAreTrue == Spec => []NoFalseGreen
<1>1. IInv => NoFalseGreen
  BY DEF IInv
<1> QED
  BY InvariantIInv, <1>1, PTL

(* Every state of the promotion is one its variables may have: what a      *)
(* runner asks for and hears are states and versions of the record.        *)
THEOREM TypesHold == Spec => []TypeOK
<1>1. IInv => TypeOK
  BY DEF IInv
<1> QED
  BY InvariantIInv, <1>1, PTL

(* The history of a promotion is one this agent may have written.          *)
THEOREM HistoryStaysLegal == Spec => []HistoryIsLegal
BY StagesInOrder, EndedForGood, PTL DEF HistoryIsLegal
-----------------------------------------------------------------------------
(* The record that PromotionRecord promises.                               *)

(* What has become of a promotion depends on its newest state alone.       *)
StageOf(s) ==
  CASE s \in {"GENERATED", "VALIDATED", "OOS_PASSED"}   -> "begun"
    [] s = "ROBUSTNESS_PASSED"                         -> "robust"
    [] s \in {"APPROVED_FOR_PAPER", "PAPER_OBSERVING"} -> "approved"
    [] s \in TerminalStates                            -> "ended"

LEMMA StageIs ==
  /\ history = <<>> => Stage = "none"
  /\ history # <<>> => Stage = StageOf(Latest.state)
BY DEF Stage, StageOf

LEMMA StagesOf ==
  /\ \A s \in {"GENERATED", "VALIDATED", "OOS_PASSED"} : StageOf(s) = "begun"
  /\ StageOf("ROBUSTNESS_PASSED") = "robust"
  /\ \A s \in {"APPROVED_FOR_PAPER", "PAPER_OBSERVING"} : StageOf(s) = "approved"
  /\ \A s \in TerminalStates : StageOf(s) = "ended"
  /\ \A s \in States \ TerminalStates : StageOf(s) \in {"begun", "robust", "approved"}
BY DEF StageOf, TerminalStates, States, DownstreamStates

(* What a state appended to the history makes of the promotion.            *)
LEMMA StageAfter ==
  ASSUME TypeOK, NEW s \in States, history' = Append(history, s)
  PROVE  Stage' = StageOf(s)
<1>1. /\ Len(history') = Len(history) + 1 /\ Len(history) \in Nat
      /\ history'[Len(history) + 1] = s
  BY DEF TypeOK
<1>2. history' # <<>>
  BY <1>1
<1>3. (Latest.state)' = s
  BY <1>1 DEF Latest
<1> QED
  BY <1>2, <1>3, Zenon DEF Stage, StageOf

LEMMA StageStays ==
  ASSUME UNCHANGED history
  PROVE  Stage' = Stage
BY DEF Stage, Latest

(* A step leaves the promotion alone, attests it before it is robust, or   *)
(* is the manager's.                                                       *)
Moved(from, to) ==
  \/ to = from
  \/ from \in {"none", "begun"} /\ to \in {"begun", "robust"}
  \/ from = "robust" /\ to = "approved"
  \/ from \notin {"none", "ended"} /\ to = "ended"

LEMMA ServingMoves ==
  ASSUME TypeOK, NEW q, Sound(q), history' = HistoryAfter(q)
  PROVE  Moved(Stage, Stage')
<1>1. CASE ~Applies(q)
  BY <1>1, StageStays DEF HistoryAfter, Moved
<1>2. CASE Applies(q) /\ q = Create
  <2>1. history = <<>> /\ q.to = "GENERATED" /\ history' = Append(history, q.to)
    BY <1>2 DEF Applies, HistoryAfter, Create
  <2>2. Stage = "none" /\ Stage' = "begun"
    BY <2>1, StageIs, StageAfter, StagesOf, StateFacts
  <2> QED
    BY <2>2 DEF Moved
<1>3. CASE Applies(q) /\ q # Create
  <2>1. /\ q.version \in Nat \ {0} /\ q.to \in States
        /\ <<q.from, q.to>> \in OwnedTransitions
        /\ q.version = Len(history) /\ Latest.state = q.from
        /\ history' = Append(history, q.to)
    BY <1>3 DEF Sound, Transition, Applies, HistoryAfter, Latest
  <2>2. history # <<>>
    BY <2>1 DEF TypeOK
  <2>3. Stage = StageOf(q.from) /\ Stage' = StageOf(q.to)
    BY <2>1, <2>2, StageIs, StageAfter
  <2>4. /\ q.from \in {"GENERATED", "VALIDATED", "OOS_PASSED"}
        /\ q.to \in {"VALIDATED", "OOS_PASSED", "ROBUSTNESS_PASSED"}
    BY <2>1 DEF OwnedTransitions
  <2> QED
    BY <2>3, <2>4, StagesOf DEF Moved
<1> QED
  BY <1>1, <1>2, <1>3

LEMMA ManagerMoves ==
  ASSUME TypeOK, Manage
  PROVE  Moved(Stage, Stage')
<1>1. PICK s \in States :
        /\ \/ Latest.state = "ROBUSTNESS_PASSED" /\ s = "APPROVED_FOR_PAPER"
           \/ Latest.state = "APPROVED_FOR_PAPER" /\ s = "PAPER_OBSERVING"
           \/ Latest.state \notin TerminalStates /\ s \in TerminalStates
        /\ history' = Append(history, s)
  BY DEF Manage
<1>2. history # <<>> /\ Latest.state \in States
  BY DEF Manage, TypeOK, Latest
<1>3. Stage = StageOf(Latest.state) /\ Stage' = StageOf(s)
  BY <1>1, <1>2, StageIs, StageAfter
<1> QED
  BY <1>1, <1>2, <1>3, StagesOf DEF Moved

LEMMA StepMoves ==
  ASSUME IInv, [Next]_vars
  PROVE  Moved(Stage, Stage')
<1>1. TypeOK /\ RequestsAreOwned
  BY DEF IInv
<1>2. \/ \E q : Sound(q) /\ history' = HistoryAfter(q)
      \/ Manage
      \/ UNCHANGED history
  BY <1>1 DEF Next, Runner, vars, HandleLate, Begin, Handle, Lose, Advance, Stop,
     RequestsAreOwned
<1>3. CASE UNCHANGED history
  BY <1>3, StageStays DEF Moved
<1> QED
  BY <1>1, <1>2, <1>3, ServingMoves, ManagerMoves

(* The calls of any number of runners, with every retry, replay and late   *)
(* request, implement the promotion record                                 *)
(* (create_and_advance_backtest_promotion).                                *)
THEOREM PromotionImplementsRecord == Spec => ImplementsPromotionRecord
<1> DEFINE stage == [p \in {"promotion"} |-> Stage]
<1>1. Init => Abstract!Init
  BY StageIs DEF Init, Abstract!Init
<1>2. ASSUME IInv, [Next]_vars PROVE [Abstract!Next]_stage
  <2>1. stage' = [stage EXCEPT !["promotion"] = Stage'] /\ stage["promotion"] = Stage
    OBVIOUS
  <2>2. Moved(Stage, Stage')
    BY <1>2, StepMoves
  <2> QED
    BY <2>1, <2>2 DEF Moved, Abstract!Next, Abstract!Attest, Abstract!Approve, Abstract!End,
       Abstract!Becomes
<1> QED
  BY <1>1, <1>2, InvariantIInv, PTL DEF Spec, ImplementsPromotionRecord, Abstract!Spec
=============================================================================
