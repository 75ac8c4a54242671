------------------------- MODULE HourlyRunner_proofs -------------------------
(***************************************************************************)
(* For any workflows, symbols and bars, however often the workflows are    *)
(* cancelled and repeated: the holdout stays sealed until all before it    *)
(* passed, only passed evidence is published or promoted, promotions never *)
(* step back, and reports neither claim what is not so nor hide a failure. *)
(***************************************************************************)
EXTENDS HourlyRunner, SequenceTheorems, TLAPS

Statuses == {"failed", "no_eligible_strategy", "eligible_strategy_found"}

Errors == Checks \cup {"market_data", "publish", "promotion", "none"}
Holdouts == {"unstated", "sealed_not_opened", "opened_rejected", "passed"}

Items == [id : Ids, status : Statuses, published : BOOLEAN, promoted : BOOLEAN,
          error : Errors, holdout : Holdouts]

(* What a runner's items are about: the checks its bars fail, the symbols  *)
(* and the database it was configured with, the identities stored, decided *)
(* downstream, and those whose holdout this run has executed.              *)
World(r) ==
  [fails |-> outlook, symbols |-> SymbolList, publishes |-> Publishes(r),
   stored |-> store, decided |-> {i \in Ids : promotion[i] \notin Unfinished},
   executed |-> unsealed[r]]

(* What every item says is so.  A failure says which check it was, because *)
(* the adapters go by that when they reclassify it.                        *)
FailureIsReal(w, x) ==
  /\ ~x.published /\ x.holdout = "unstated"
  /\ x.error \in {"history", "statistics", "robustness"} =>
       x.error \in w.fails[x.id] /\ x.id \notin w.executed
  /\ x.error = "holdout" => x.error \in w.fails[x.id] /\ x.id \in w.executed

ItemIsTrue(w, x) ==
  /\ x \in Items
  /\ x.status = "failed" => FailureIsReal(w, x)
  /\ x.status = "no_eligible_strategy" => ~x.published /\ w.fails[x.id] # {}
  /\ x.status = "eligible_strategy_found" /\ w.publishes => x.published
  /\ x.promoted = x.published
  /\ x.published => x.id \in w.stored /\ x.id \in w.decided
  /\ x.holdout = "sealed_not_opened" => x.id \notin w.executed
  /\ x.holdout \in {"opened_rejected", "passed"} => x.id \in w.executed

(* The items are about the first symbols, in their order.                  *)
ListIsTrue(w, list) ==
  /\ list \in Seq(Items) /\ Len(list) <= Len(w.symbols)
  /\ \A k \in 1 .. Len(list) :
       list[k].id[1] = w.symbols[k] /\ ItemIsTrue(w, list[k])

ReportIsTrue(w, list, status) ==
  /\ ListIsTrue(w, list) /\ Len(list) = Len(w.symbols)
  /\ status = "success" => \A k \in 1 .. Len(list) : list[k].status # "failed"

(* The symbol a runner works on comes after those it has items for, and    *)
(* its bars passed what they have met so far.                              *)
Opened == {"publish", "promote"}
Working == {"select", "validate", "holdout"} \cup Opened
Amending == {"reclassify_gates", "reclassify_history"}

Passed(r) ==
  /\ pc[r] \in Working => "history" \notin outlook[id[r]]
  /\ pc[r] \in Working \ {"select"} => "selection" \notin outlook[id[r]]
  /\ pc[r] \in {"holdout"} \cup Opened => PreHoldoutPassed(id[r])
  /\ pc[r] \in Opened => outlook[id[r]] = {} /\ Publishes(r)
  /\ pc[r] = "promote" => id[r] \in store

AtWork(r) ==
  /\ pc[r] \in Working =>
       /\ id[r] \in Ids /\ Len(items[r]) < Len(SymbolList)
       /\ id[r][1] = SymbolList[Len(items[r]) + 1]
       /\ (id[r] \in unsealed[r]) <=> pc[r] \in Opened

(* The holdouts a run has executed are of symbols it has begun.            *)
UnsealedInOrder(r) ==
  pc[r] \in Working \cup {"fetch"} =>
    \A i \in unsealed[r] :
      \/ \E k \in 1 .. Len(items[r]) : i[1] = SymbolList[k]
      \/ pc[r] \in Opened /\ i = id[r]

RunnerInv(r) ==
  /\ ListIsTrue(World(r), items[r])
  /\ Passed(r) /\ AtWork(r) /\ UnsealedInOrder(r)
  /\ pc[r] \in Working \cup {"fetch"} => report[r] = None
  /\ pc[r] \in Amending => report[r].items = items[r]
  /\ pc[r] \in Amending \/ report[r] # None =>
       ReportIsTrue(World(r), report[r].items, report[r].status)
  /\ \A i \in unsealed[r] : PreHoldoutPassed(i)

Lists ==
  /\ items \in [Runners -> Seq(Items)]
  /\ report = [r \in Runners |-> report[r]]

IInv == TypeOK /\ Lists /\ OnlyPassedEvidence /\ \A r \in Runners : RunnerInv(r)

-----------------------------------------------------------------------------
(* Lists.                                                                  *)

(* What is so stays so as long as nothing is taken from the database, no   *)
(* decision is taken back, and no holdout of a symbol is executed after    *)
(* the fact.                                                               *)
Later(w, v, list) ==
  /\ v.fails = w.fails /\ v.symbols = w.symbols /\ v.publishes = w.publishes
  /\ w.stored \subseteq v.stored /\ w.decided \subseteq v.decided
  /\ \A k \in 1 .. Len(list) :
       list[k].id \in v.executed <=> list[k].id \in w.executed

LEMMA ListStaysTrue ==
  ASSUME NEW w, NEW v, NEW list, ListIsTrue(w, list), Later(w, v, list)
  PROVE  ListIsTrue(v, list)
<1>1. SUFFICES ASSUME NEW k \in 1 .. Len(list) PROVE ItemIsTrue(v, list[k])
  BY DEF ListIsTrue, Later
<1>2. ItemIsTrue(w, list[k]) /\ (list[k].id \in v.executed <=> list[k].id \in w.executed)
  BY DEF ListIsTrue, Later
<1>3. QED
  BY <1>2 DEF ItemIsTrue, FailureIsReal, Later

LEMMA AppendedListIsTrue ==
  ASSUME NEW w, NEW list, NEW x,
         ListIsTrue(w, list), Len(list) < Len(w.symbols),
         w.symbols \in Seq(Symbols),
         ItemIsTrue(w, x), x.id[1] = w.symbols[Len(list) + 1]
  PROVE  /\ ListIsTrue(w, Append(list, x))
         /\ Len(Append(list, x)) = Len(list) + 1
<1> DEFINE more == Append(list, x)
<1>1. list \in Seq(Items) /\ x \in Items
  BY DEF ListIsTrue, ItemIsTrue
<1>2. /\ more \in Seq(Items) /\ Len(more) = Len(list) + 1
      /\ more[Len(list) + 1] = x
      /\ \A k \in 1 .. Len(list) : more[k] = list[k]
  BY <1>1, AppendProperties
<1>3. Len(list) \in Nat /\ Len(w.symbols) \in Nat
  BY <1>1, LenProperties
<1>4. ASSUME NEW k \in 1 .. Len(more)
      PROVE  more[k].id[1] = w.symbols[k] /\ ItemIsTrue(w, more[k])
  <2>1. CASE k = Len(list) + 1
    BY <2>1, <1>2
  <2>2. CASE k \in 1 .. Len(list)
    BY <2>2, <1>2 DEF ListIsTrue
  <2>3. QED
    BY <1>2, <1>3, <2>1, <2>2
<1>5. QED
  BY <1>2, <1>3, <1>4 DEF ListIsTrue

LEMMA EmptyListIsTrue ==
  ASSUME NEW w, w.symbols \in Seq(Symbols)
  PROVE  ListIsTrue(w, << >>)
<1>1. << >> \in Seq(Items) /\ Len(<< >>) = 0 /\ Len(w.symbols) \in Nat
  BY EmptySeq, LenProperties
<1>2. QED
  BY <1>1 DEF ListIsTrue

-----------------------------------------------------------------------------
(* Steps in general.                                                       *)

Steady ==
  /\ UNCHANGED <<setting, outlook>>
  /\ store \subseteq store'
  /\ \A i \in Ids : promotion[i] \notin Unfinished => promotion'[i] \notin Unfinished

LEMMA Configured ==
  ASSUME TypeOK
  PROVE  /\ SymbolList \in Seq(Symbols) /\ Len(SymbolList) \in Nat
         /\ \A j, k \in 1 .. Len(SymbolList) : SymbolList[j] = SymbolList[k] => j = k
<1>1. SymbolList \in Seq(Symbols) /\ IsInjective(SymbolList)
  BY HourlyAssumption DEF TypeOK, SymbolList
<1>2. Len(SymbolList) \in Nat /\ DOMAIN SymbolList = 1 .. Len(SymbolList)
  BY <1>1, LenProperties
<1>3. QED
  BY <1>1, <1>2 DEF IsInjective

(* Only two steps move a promotion, and neither moves it back.             *)
LEMMA PromotionsMoveOn ==
  ASSUME TypeOK, [Next]_vars
  PROVE  /\ NeverStepsBack
         /\ \A i \in Ids : promotion[i] \notin Unfinished => promotion'[i] \notin Unfinished
<1> USE DEF NeverStepsBack, Unfinished
<1>1. ASSUME NEW r \in Runners, Promote(r) PROVE NeverStepsBack /\
        \A i \in Ids : promotion[i] \notin Unfinished => promotion'[i] \notin Unfinished
  BY <1>1 DEF Promote, Advanced, TypeOK
<1>2. ASSUME Manage PROVE NeverStepsBack /\
        \A i \in Ids : promotion[i] \notin Unfinished => promotion'[i] \notin Unfinished
  BY <1>2 DEF Manage, TypeOK
<1>3. ASSUME UNCHANGED promotion PROVE NeverStepsBack /\
        \A i \in Ids : promotion[i] \notin Unfinished => promotion'[i] \notin Unfinished
  BY <1>3
<1>4. \/ \E r \in Runners : Promote(r)
      \/ Manage
      \/ UNCHANGED promotion
  BY DEF Next, vars, shared, Begin, Step, Crash, Fetch, Select, Validate, OpenHoldout,
         Publish, Write, ReclassifyGates, ReclassifyHistory, Reclassify,
         LatePublication, NewBars
<1>5. QED
  BY <1>1, <1>2, <1>3, <1>4

LEMMA StepsAreSteady ==
  ASSUME TypeOK, [Next]_vars
  PROVE  Steady
<1>1. UNCHANGED <<setting, outlook>> /\ store \subseteq store'
  BY DEF Next, vars, shared, Begin, Step, Crash, Fetch, Select, Validate, OpenHoldout,
         Publish, Promote, Write, ReclassifyGates, ReclassifyHistory, Reclassify,
         LatePublication, NewBars, Manage
<1>2. QED
  BY <1>1, PromotionsMoveOn DEF Steady

UntouchedRunner(r) ==
  /\ pc'[r] = pc[r] /\ id'[r] = id[r] /\ items'[r] = items[r]
  /\ unsealed'[r] = unsealed[r] /\ report'[r] = report[r]

LEMMA SteadyWorld ==
  ASSUME Steady, NEW r \in Runners, NEW list,
         \A k \in 1 .. Len(list) : list[k].id \in unsealed'[r] <=> list[k].id \in unsealed[r]
  PROVE  Later(World(r), World(r)', list)
BY DEF Steady, World, Later, SymbolList, Publishes

LEMMA UntouchedStaysTrue ==
  ASSUME Steady, NEW r \in Runners, RunnerInv(r), UntouchedRunner(r)
  PROVE  RunnerInv(r)'
<1>1. ListIsTrue(World(r)', items[r])
  BY SteadyWorld, ListStaysTrue DEF RunnerInv, UntouchedRunner
<1>2. pc[r] \in Amending \/ report[r] # None =>
        ReportIsTrue(World(r)', report[r].items, report[r].status)
  <2>1. SUFFICES ASSUME pc[r] \in Amending \/ report[r] # None
                 PROVE  ReportIsTrue(World(r)', report[r].items, report[r].status)
    OBVIOUS
  <2>2. ReportIsTrue(World(r), report[r].items, report[r].status)
    BY <2>1 DEF RunnerInv
  <2>3. ListIsTrue(World(r)', report[r].items)
    BY <2>2, SteadyWorld, ListStaysTrue DEF ReportIsTrue, UntouchedRunner
  <2>4. World(r)'.symbols = World(r).symbols
    BY DEF Steady, World, SymbolList
  <2>5. QED
    BY <2>2, <2>3, <2>4 DEF ReportIsTrue
<1>3. (Passed(r) /\ AtWork(r) /\ UnsealedInOrder(r))'
  BY DEF RunnerInv, UntouchedRunner, Steady, Passed, AtWork, UnsealedInOrder,
         PreHoldoutPassed, Publishes, SymbolList
<1>4. \A i \in unsealed'[r] : PreHoldoutPassed(i)'
  BY DEF RunnerInv, UntouchedRunner, Steady, PreHoldoutPassed
<1>5. QED
  BY <1>1, <1>2, <1>3, <1>4 DEF RunnerInv, UntouchedRunner

LEMMA OneRunnerMoves ==
  ASSUME IInv, Steady, NEW r \in Runners, RunnerInv(r)',
         \A q \in Runners \ {r} : UntouchedRunner(q)
  PROVE  \A q \in Runners : RunnerInv(q)'
BY UntouchedStaysTrue DEF IInv

(* An item is recorded: of the symbol whose turn it is, true, and with no  *)
(* other holdout executed than its own.                                    *)
LEMMA RecordKeepsRunner ==
  ASSUME IInv, Steady, NEW r \in Runners, pc[r] \in Working \cup {"fetch"},
         NEW item, Record(r, item), UNCHANGED report,
         Len(items[r]) < Len(SymbolList),
         item.id[1] = SymbolList[Len(items[r]) + 1],
         pc[r] \in Opened => item.id = id[r],
         ItemIsTrue(World(r)', item),
         unsealed[r] \subseteq unsealed'[r],
         \A i \in unsealed'[r] : i \in unsealed[r] \/ i = item.id,
         item.id \in unsealed'[r] => PreHoldoutPassed(item.id)
  PROVE  RunnerInv(r)'
<1> DEFINE list == items[r]
<1>1. /\ ListIsTrue(World(r), list) /\ list \in Seq(Items) /\ Len(list) \in Nat
      /\ report[r] = None
      /\ World(r).symbols = SymbolList /\ World(r)'.symbols = SymbolList
  BY LenProperties DEF IInv, RunnerInv, ListIsTrue, World, Steady, SymbolList
<1>2. /\ SymbolList \in Seq(Symbols) /\ Len(SymbolList) \in Nat
      /\ \A j, k \in 1 .. Len(SymbolList) : SymbolList[j] = SymbolList[k] => j = k
  BY Configured DEF IInv
<1>3. ASSUME NEW k \in 1 .. Len(list)
      PROVE  list[k].id # item.id
  <2>1. list[k].id[1] = SymbolList[k]
    BY <1>1 DEF ListIsTrue
  <2>2. k \in 1 .. Len(SymbolList) /\ Len(list) + 1 \in 1 .. Len(SymbolList) /\ k # Len(list) + 1
    BY <1>1, <1>2
  <2>3. QED
    BY <1>2, <2>1, <2>2
<1>4. ListIsTrue(World(r)', list)
  BY <1>1, <1>3, SteadyWorld, ListStaysTrue
<1>5. /\ ListIsTrue(World(r)', Append(list, item))
      /\ Len(Append(list, item)) = Len(list) + 1
  BY <1>1, <1>2, <1>4, AppendedListIsTrue
<1>6. items'[r] = Append(list, item) /\ pc'[r] = "fetch"
  BY DEF Record, Goto, IInv, TypeOK, Lists
<1>7. UnsealedInOrder(r)'
  <2>1. SUFFICES ASSUME NEW i \in unsealed'[r]
                 PROVE  \E k \in 1 .. Len(list) + 1 : i[1] = SymbolList[k]
    BY <1>5, <1>6 DEF UnsealedInOrder, Steady, SymbolList
  <2>2. CASE i = item.id
    BY <2>2, <1>1
  <2>3. CASE i # item.id
    <3>1. \E k \in 1 .. Len(list) : i[1] = SymbolList[k]
      BY <2>3 DEF IInv, RunnerInv, UnsealedInOrder
    <3>2. QED
      BY <3>1, <1>1
  <2>4. QED
    BY <2>2, <2>3
<1>8. (Passed(r) /\ AtWork(r))'
  BY <1>6 DEF Passed, AtWork, Working, Opened, Amending
<1>9. \A i \in unsealed'[r] : PreHoldoutPassed(i)'
  BY DEF IInv, RunnerInv, PreHoldoutPassed, Steady
<1>10. QED
  BY <1>1, <1>5, <1>6, <1>7, <1>8, <1>9
  DEF RunnerInv, Working, Opened, Amending

-----------------------------------------------------------------------------
(* The steps of a run, one by one.                                         *)

Kept(r) == TypeOK' /\ Lists' /\ OnlyPassedEvidence' /\ RunnerInv(r)'

LEMMA OthersUntouched ==
  ASSUME IInv, NEW r \in Runners, Begin(r) \/ Step(r) \/ Crash(r),
         NEW q \in Runners \ {r}
  PROVE  UntouchedRunner(q)
<1> USE DEF IInv, TypeOK, Lists, UntouchedRunner, Goto, shared
<1>1. CASE Begin(r) \/ Crash(r) \/ Write(r) \/ ReclassifyGates(r) \/ ReclassifyHistory(r)
  BY <1>1 DEF Begin, Crash, Write, ReclassifyGates, ReclassifyHistory, Reclassify
<1>2. CASE Fetch(r) \/ Select(r) \/ Validate(r)
  BY <1>2 DEF Fetch, Select, Validate, Record
<1>3. CASE OpenHoldout(r) \/ Publish(r) \/ Promote(r)
  BY <1>3 DEF OpenHoldout, Publish, Promote, Record
<1>4. QED
  BY <1>1, <1>2, <1>3 DEF Step

LEMMA FailedIsTrue ==
  ASSUME NEW w, NEW i \in Ids, NEW why \in Errors,
         why \in {"history", "statistics", "robustness"} =>
           why \in w.fails[i] /\ i \notin w.executed,
         why = "holdout" => why \in w.fails[i] /\ i \in w.executed
  PROVE  ItemIsTrue(w, Failed(i, why)) /\ Failed(i, why).id = i
<1> DEFINE x == Failed(i, why)
<1>1. /\ x \in Items /\ x.id = i /\ x.status = "failed" /\ x.error = why
      /\ x.published = FALSE /\ x.promoted = FALSE /\ x.holdout = "unstated"
  BY DEF Failed, Items, Statuses, Holdouts
<1>2. FailureIsReal(w, x)
  BY <1>1 DEF FailureIsReal
<1>3. QED
  BY <1>1, <1>2 DEF ItemIsTrue

LEMMA RejectedIsTrue ==
  ASSUME NEW w, NEW i \in Ids, NEW stage \in Errors, NEW holdout \in Holdouts,
         w.fails[i] # {},
         holdout = "sealed_not_opened" => i \notin w.executed,
         holdout \in {"opened_rejected", "passed"} => i \in w.executed
  PROVE  ItemIsTrue(w, Rejected(i, stage, holdout)) /\ Rejected(i, stage, holdout).id = i
BY DEF ItemIsTrue, Rejected, Items, Statuses

LEMMA FoundIsTrue ==
  ASSUME NEW w, NEW i \in Ids, NEW published \in BOOLEAN,
         i \in w.executed, w.publishes => published,
         published => i \in w.stored /\ i \in w.decided
  PROVE  ItemIsTrue(w, Found(i, published)) /\ Found(i, published).id = i
<1> DEFINE x == Found(i, published)
<1>1. /\ x \in Items /\ x.id = i /\ x.status = "eligible_strategy_found"
      /\ x.published = published /\ x.promoted = published /\ x.holdout = "passed"
  BY DEF Found, Items, Statuses, Holdouts, Errors
<1>2. QED
  BY <1>1 DEF ItemIsTrue

LEMMA RecordKeepsLists ==
  ASSUME Lists, NEW r \in Runners, NEW item \in Items, Record(r, item), UNCHANGED report
  PROVE  Lists'
<1>1. items[r] \in Seq(Items)
  BY DEF Lists
<1>2. Append(items[r], item) \in Seq(Items)
  BY <1>1, AppendProperties
<1>3. QED
  BY <1>2 DEF Lists, Record

LEMMA BeginKeeps ==
  ASSUME IInv, NEW r \in Runners, Begin(r), Steady
  PROVE  Kept(r)
<1> USE DEF Begin, Goto, shared
<1>1. TypeOK'
  BY HourlyAssumption DEF IInv, TypeOK, Places
<1>2. Lists' /\ OnlyPassedEvidence'
  BY EmptySeq DEF IInv, Lists, OnlyPassedEvidence
<1>3. items'[r] = << >> /\ unsealed'[r] = {} /\ report'[r] = None /\ pc'[r] = "fetch"
  BY DEF IInv, TypeOK, Lists
<1>4. ListIsTrue(World(r)', << >>)
  BY EmptyListIsTrue, Configured DEF IInv, World, Steady, SymbolList
<1>5. RunnerInv(r)'
  BY <1>3, <1>4 DEF RunnerInv, Passed, AtWork, UnsealedInOrder, Working, Opened, Amending
<1>6. QED
  BY <1>1, <1>2, <1>5 DEF Kept

(* The next symbol has not been looked at, nor its holdout.                *)
LEMMA NextSymbolIsFresh ==
  ASSUME IInv, NEW r \in Runners, pc[r] = "fetch", Len(items[r]) < Len(SymbolList)
  PROVE  LET i == <<SymbolList[Len(items[r]) + 1], today>>
         IN  i \in Ids /\ i[1] = SymbolList[Len(items[r]) + 1] /\ i \notin unsealed[r]
<1> DEFINE i == <<SymbolList[Len(items[r]) + 1], today>>
<1>1. /\ SymbolList \in Seq(Symbols) /\ Len(SymbolList) \in Nat
      /\ \A j, k \in 1 .. Len(SymbolList) : SymbolList[j] = SymbolList[k] => j = k
  BY Configured DEF IInv
<1>2. Len(items[r]) \in Nat
  BY LenProperties DEF IInv, Lists
<1>3. SymbolList[Len(items[r]) + 1] \in Symbols
  BY <1>1, <1>2, ElementOfSeq
<1>4. i \in Ids
  BY <1>3 DEF Ids, IInv, TypeOK
<1>5. ASSUME i \in unsealed[r] PROVE FALSE
  <2>1. PICK k \in 1 .. Len(items[r]) : i[1] = SymbolList[k]
    BY <1>5 DEF IInv, RunnerInv, UnsealedInOrder, Opened
  <2>2. k \in 1 .. Len(SymbolList) /\ Len(items[r]) + 1 \in 1 .. Len(SymbolList)
        /\ k # Len(items[r]) + 1
    BY <1>1, <1>2
  <2>3. QED
    BY <2>1, <2>2, <1>1
<1>6. QED
  BY <1>4, <1>5

LEMMA FetchKeeps ==
  ASSUME IInv, NEW r \in Runners, Fetch(r), Steady
  PROVE  Kept(r)
<1> DEFINE i == <<SymbolList[Len(items[r]) + 1], today>>
<1> USE DEF Fetch, shared
<1>1. i \in Ids /\ i[1] = SymbolList[Len(items[r]) + 1] /\ i \notin unsealed[r]
  BY NextSymbolIsFresh
<1>2. TypeOK'
  BY <1>1 DEF IInv, TypeOK, Places, Goto, Record
<1>3. OnlyPassedEvidence'
  BY DEF IInv, OnlyPassedEvidence
<1>4. unsealed'[r] = unsealed[r] /\ World(r)'.executed = unsealed[r] /\ World(r)'.fails = outlook
  BY DEF World
<1>5. ASSUME NEW why \in {"market_data", "history"}, Record(r, Failed(i, why)),
             why = "history" => "history" \in outlook[i]
      PROVE  RunnerInv(r)' /\ Lists'
  <2>1. ItemIsTrue(World(r)', Failed(i, why)) /\ Failed(i, why).id = i
    <3>1. why \in Errors /\ why \notin {"statistics", "robustness", "holdout"}
      BY DEF Errors, Checks
    <3>2. QED
      BY <1>1, <1>4, <1>5, <3>1, FailedIsTrue
  <2>2. RunnerInv(r)'
    BY <1>1, <1>4, <1>5, <2>1, RecordKeepsRunner DEF Opened
  <2>3. Lists'
    BY <1>5, <2>1, RecordKeepsLists DEF ItemIsTrue, IInv
  <2>4. QED
    BY <2>2, <2>3
<1>6. ASSUME "history" \notin outlook[i], Goto(r, "select"), UNCHANGED items
      PROVE  RunnerInv(r)' /\ Lists'
  <2>1. pc'[r] = "select" /\ id'[r] = i /\ items'[r] = items[r] /\ report'[r] = report[r]
    BY <1>6 DEF IInv, TypeOK, Goto
  <2>2. ListIsTrue(World(r)', items[r])
    BY <1>4, SteadyWorld, ListStaysTrue DEF IInv, RunnerInv
  <2>3. (Passed(r) /\ AtWork(r) /\ UnsealedInOrder(r))'
    BY <1>1, <1>4, <1>6, <2>1
    DEF IInv, RunnerInv, Passed, AtWork, UnsealedInOrder, Working, Opened, Amending, SymbolList
  <2>4. RunnerInv(r)'
    BY <1>4, <2>1, <2>2, <2>3 DEF IInv, RunnerInv, Working, Opened, Amending, PreHoldoutPassed
  <2>5. QED
    BY <1>6, <2>4 DEF IInv, Lists
<1>7. RunnerInv(r)' /\ Lists'
  BY <1>5, <1>6 DEF HistoryTooShort
<1>8. QED
  BY <1>2, <1>3, <1>7 DEF Kept

(* The runner goes on with its symbol: what it has recorded stays true.    *)
LEMMA GoOn ==
  ASSUME IInv, Steady, NEW r \in Runners, pc[r] \in Working,
         UNCHANGED <<id, items, report>>, pc'[r] \in Working,
         (Passed(r) /\ AtWork(r))',
         unsealed[r] \subseteq unsealed'[r],
         \A i \in unsealed'[r] : i \in unsealed[r] \/ i = id[r],
         pc[r] \in Opened => pc'[r] \in Opened,
         id[r] \in unsealed'[r] => pc'[r] \in Opened /\ PreHoldoutPassed(id[r])
  PROVE  RunnerInv(r)' /\ Lists'
<1> DEFINE list == items[r]
<1>1. ListIsTrue(World(r), list) /\ report[r] = None
  BY DEF IInv, RunnerInv
<1>2. /\ SymbolList \in Seq(Symbols) /\ Len(SymbolList) \in Nat
      /\ \A j, k \in 1 .. Len(SymbolList) : SymbolList[j] = SymbolList[k] => j = k
  BY Configured DEF IInv
<1>3. /\ Len(list) \in Nat /\ Len(list) < Len(SymbolList)
      /\ id[r][1] = SymbolList[Len(list) + 1]
      /\ \A k \in 1 .. Len(list) : list[k].id[1] = SymbolList[k]
  BY LenProperties DEF IInv, Lists, RunnerInv, AtWork, ListIsTrue, World
<1>4. \A k \in 1 .. Len(list) : list[k].id # id[r]
  BY <1>2, <1>3
<1>5. ListIsTrue(World(r)', list)
  BY <1>1, <1>4, SteadyWorld, ListStaysTrue
<1>6. UnsealedInOrder(r)'
  BY <1>2 DEF UnsealedInOrder, IInv, RunnerInv, Steady, SymbolList
<1>7. \A i \in unsealed'[r] : PreHoldoutPassed(i)'
  BY DEF IInv, RunnerInv, PreHoldoutPassed, Steady
<1>8. QED
  BY <1>1, <1>5, <1>6, <1>7 DEF IInv, Lists, RunnerInv, Working, Opened, Amending

LEMMA SelectKeeps ==
  ASSUME IInv, NEW r \in Runners, Select(r), Steady
  PROVE  Kept(r)
<1> DEFINE item == Rejected(id[r], "selection", "sealed_not_opened")
<1> USE DEF Select, shared
<1>1. /\ id[r] \in Ids /\ Len(items[r]) < Len(SymbolList)
      /\ id[r][1] = SymbolList[Len(items[r]) + 1] /\ id[r] \notin unsealed[r]
      /\ "history" \notin outlook[id[r]]
  BY DEF IInv, RunnerInv, AtWork, Passed, Working, Opened, Amending
<1>2. TypeOK'
  BY <1>1 DEF IInv, TypeOK, Places, Goto, Record
<1>3. OnlyPassedEvidence'
  BY DEF IInv, OnlyPassedEvidence
<1>4. World(r)'.executed = unsealed[r] /\ World(r)'.fails = outlook
  BY DEF World
<1>5. CASE "selection" \in outlook[id[r]]
  <2>1. ItemIsTrue(World(r)', item) /\ item.id = id[r]
    BY <1>1, <1>4, <1>5, RejectedIsTrue DEF Errors, Checks, Holdouts
  <2>2. RunnerInv(r)'
    BY <1>1, <1>5, <2>1, RecordKeepsRunner DEF Opened, Working
  <2>3. Lists'
    BY <1>5, <2>1, RecordKeepsLists DEF ItemIsTrue, IInv
  <2>4. QED
    BY <1>2, <1>3, <2>2, <2>3 DEF Kept
<1>6. CASE "selection" \notin outlook[id[r]]
  <2>1. pc'[r] = "validate"
    BY <1>6 DEF IInv, TypeOK, Goto
  <2>2. (Passed(r) /\ AtWork(r))'
    BY <1>1, <1>6, <2>1 DEF Passed, AtWork, Working, Opened, Amending, SymbolList
  <2>3. RunnerInv(r)' /\ Lists'
    BY <1>1, <1>6, <2>1, <2>2, GoOn DEF Working, Opened, Amending
  <2>4. QED
    BY <1>2, <1>3, <2>3 DEF Kept
<1>7. QED
  BY <1>5, <1>6

LEMMA FirstFailureFails ==
  ASSUME NEW i, PreHoldoutFailures(i) # {}
  PROVE  /\ FirstFailure(i) \in outlook[i]
         /\ FirstFailure(i) \in {"completeness", "statistics", "robustness", "gates"}
<1>1. DOMAIN PreHoldoutChecks = 1 .. 4
  BY DEF PreHoldoutChecks
<1>2. PreHoldoutFailures(i) \subseteq 1 .. 4
  BY <1>1 DEF PreHoldoutFailures
<1>3. \E k \in PreHoldoutFailures(i) : \A l \in PreHoldoutFailures(i) : k <= l
  BY <1>2
<1>4. PICK k \in PreHoldoutFailures(i) : FirstFailure(i) = PreHoldoutChecks[k]
  BY <1>3 DEF FirstFailure
<1>5. k \in 1 .. 4 /\ PreHoldoutChecks[k] \in outlook[i]
  BY <1>1, <1>2 DEF PreHoldoutFailures
<1>6. QED
  BY <1>4, <1>5 DEF PreHoldoutChecks

LEMMA NothingFails ==
  ASSUME NEW i, PreHoldoutFailures(i) = {}
  PROVE  outlook[i] \cap {"completeness", "statistics", "robustness", "gates"} = {}
<1>1. DOMAIN PreHoldoutChecks = 1 .. 4
  BY DEF PreHoldoutChecks
<1>2. \A k \in 1 .. 4 : PreHoldoutChecks[k] \notin outlook[i]
  BY <1>1 DEF PreHoldoutFailures
<1>3. PreHoldoutChecks[1] \notin outlook[i] /\ PreHoldoutChecks[2] \notin outlook[i]
      /\ PreHoldoutChecks[3] \notin outlook[i] /\ PreHoldoutChecks[4] \notin outlook[i]
  BY <1>2
<1>4. QED
  BY <1>3 DEF PreHoldoutChecks

LEMMA ValidateKeeps ==
  ASSUME IInv, NEW r \in Runners, Validate(r), Steady
  PROVE  Kept(r)
<1> DEFINE why == FirstFailure(id[r])
           item == Failed(id[r], why)
<1> USE DEF Validate, shared
<1>1. /\ id[r] \in Ids /\ Len(items[r]) < Len(SymbolList)
      /\ id[r][1] = SymbolList[Len(items[r]) + 1] /\ id[r] \notin unsealed[r]
      /\ outlook[id[r]] \cap {"history", "selection"} = {}
  BY DEF IInv, RunnerInv, AtWork, Passed, Working, Opened, Amending
<1>2. TypeOK'
  BY <1>1 DEF IInv, TypeOK, Places, Goto, Record
<1>3. OnlyPassedEvidence'
  BY DEF IInv, OnlyPassedEvidence
<1>4. World(r)'.executed = unsealed[r] /\ World(r)'.fails = outlook
  BY DEF World
<1>5. CASE PreHoldoutFailures(id[r]) # {}
  <2>1. why \in outlook[id[r]] /\ why \in {"completeness", "statistics", "robustness", "gates"}
    BY <1>5, FirstFailureFails
  <2>2. why \in Errors /\ why \notin {"history", "holdout"}
    BY <2>1 DEF Errors, Checks
  <2>3. ItemIsTrue(World(r)', item) /\ item.id = id[r]
    BY <1>1, <1>4, <2>1, <2>2, FailedIsTrue
  <2>4. RunnerInv(r)'
    BY <1>1, <1>5, <2>3, RecordKeepsRunner DEF Opened, Working
  <2>5. Lists'
    BY <1>5, <2>3, RecordKeepsLists DEF ItemIsTrue, IInv
  <2>6. QED
    BY <1>2, <1>3, <2>4, <2>5 DEF Kept
<1>6. CASE PreHoldoutFailures(id[r]) = {}
  <2>1. pc'[r] = "holdout"
    BY <1>6 DEF IInv, TypeOK, Goto
  <2>2. PreHoldoutPassed(id[r])
    BY <1>1, <1>6, NothingFails DEF PreHoldoutPassed
  <2>3. (Passed(r) /\ AtWork(r))'
    BY <1>1, <1>6, <2>1, <2>2
    DEF Passed, AtWork, Working, Opened, Amending, SymbolList, PreHoldoutPassed
  <2>4. RunnerInv(r)' /\ Lists'
    BY <1>1, <1>6, <2>1, <2>3, GoOn DEF Working, Opened, Amending
  <2>5. QED
    BY <1>2, <1>3, <2>4 DEF Kept
<1>7. QED
  BY <1>5, <1>6

LEMMA OpenHoldoutKeeps ==
  ASSUME IInv, NEW r \in Runners, OpenHoldout(r), Steady
  PROVE  Kept(r)
<1> DEFINE executed == unsealed[r] \cup {id[r]}
<1> USE DEF OpenHoldout, shared
<1>1. /\ id[r] \in Ids /\ Len(items[r]) < Len(SymbolList)
      /\ id[r][1] = SymbolList[Len(items[r]) + 1]
      /\ PreHoldoutPassed(id[r])
      /\ outlook[id[r]] \subseteq Checks
  BY DEF IInv, TypeOK, RunnerInv, AtWork, Passed, Working, Opened, Amending
<1>2. TypeOK'
  BY <1>1 DEF IInv, TypeOK, Places, Goto, Record
<1>3. OnlyPassedEvidence'
  BY DEF IInv, OnlyPassedEvidence
<1>4. unsealed'[r] = executed /\ World(r)'.executed = executed /\ World(r)'.fails = outlook
      /\ World(r)'.publishes = Publishes(r)
  BY DEF World, IInv, TypeOK, Publishes
<1>5. CASE HoldoutRejects(id[r])
  <2>1. ItemIsTrue(World(r)', Failed(id[r], "holdout")) /\ Failed(id[r], "holdout").id = id[r]
    BY <1>1, <1>4, <1>5, FailedIsTrue DEF Errors, Checks, HoldoutRejects
  <2>2. RunnerInv(r)' /\ Lists'
    BY <1>1, <1>4, <1>5, <2>1, RecordKeepsRunner, RecordKeepsLists
    DEF Opened, Working, ItemIsTrue, IInv
  <2>3. QED
    BY <1>2, <1>3, <2>2 DEF Kept
<1>6. CASE ~HoldoutRejects(id[r]) /\ ~Publishes(r)
  <2>1. ItemIsTrue(World(r)', Found(id[r], FALSE)) /\ Found(id[r], FALSE).id = id[r]
    BY <1>1, <1>4, <1>6, FoundIsTrue
  <2>2. RunnerInv(r)' /\ Lists'
    BY <1>1, <1>4, <1>6, <2>1, RecordKeepsRunner, RecordKeepsLists
    DEF Opened, Working, ItemIsTrue, IInv
  <2>3. QED
    BY <1>2, <1>3, <2>2 DEF Kept
<1>7. CASE ~HoldoutRejects(id[r]) /\ Publishes(r)
  <2>1. pc'[r] = "publish"
    BY <1>7 DEF IInv, TypeOK, Goto
  <2>2. outlook[id[r]] = {}
    BY <1>1, <1>7 DEF HoldoutRejects, PreHoldoutPassed, Checks
  <2>3. (Passed(r) /\ AtWork(r))'
    BY <1>1, <1>4, <1>7, <2>1, <2>2
    DEF Passed, AtWork, Working, Opened, Amending, SymbolList, PreHoldoutPassed, Publishes
  <2>4. RunnerInv(r)' /\ Lists'
    BY <1>1, <1>4, <1>7, <2>1, <2>3, GoOn DEF Working, Opened, Amending
  <2>5. QED
    BY <1>2, <1>3, <2>4 DEF Kept
<1>8. QED
  BY <1>5, <1>6, <1>7

LEMMA PublishKeeps ==
  ASSUME IInv, NEW r \in Runners, Publish(r), Steady
  PROVE  Kept(r)
<1> USE DEF Publish
<1>1. /\ id[r] \in Ids /\ Len(items[r]) < Len(SymbolList)
      /\ id[r][1] = SymbolList[Len(items[r]) + 1]
      /\ outlook[id[r]] = {} /\ PreHoldoutPassed(id[r]) /\ Publishes(r)
      /\ id[r] \in unsealed[r]
  BY DEF IInv, RunnerInv, AtWork, Passed, Working, Opened, Amending
<1>2. TypeOK'
  BY <1>1 DEF IInv, TypeOK, Places, Goto, Record
<1>3. OnlyPassedEvidence'
  BY <1>1 DEF IInv, OnlyPassedEvidence
<1>4. CASE store' = store \cup {id[r]} /\ Goto(r, "promote") /\ UNCHANGED items
  <2>1. pc'[r] = "promote"
    BY <1>4 DEF IInv, TypeOK, Goto
  <2>2. (Passed(r) /\ AtWork(r))'
    BY <1>1, <1>4, <2>1
    DEF Passed, AtWork, Working, Opened, Amending, SymbolList, PreHoldoutPassed, Publishes
  <2>3. RunnerInv(r)' /\ Lists'
    BY <1>1, <1>4, <2>1, <2>2, GoOn DEF Working, Opened, Amending
  <2>4. QED
    BY <1>2, <1>3, <2>3 DEF Kept
<1>5. CASE Record(r, Failed(id[r], "publish"))
  <2>1. ItemIsTrue(World(r)', Failed(id[r], "publish")) /\ Failed(id[r], "publish").id = id[r]
    BY <1>1, FailedIsTrue DEF Errors
  <2>2. RunnerInv(r)' /\ Lists'
    BY <1>1, <1>5, <2>1, RecordKeepsRunner, RecordKeepsLists
    DEF Opened, Working, ItemIsTrue, IInv
  <2>3. QED
    BY <1>2, <1>3, <2>2 DEF Kept
<1>6. QED
  BY <1>4, <1>5

LEMMA PromoteKeeps ==
  ASSUME IInv, NEW r \in Runners, Promote(r), Steady
  PROVE  Kept(r)
<1> USE DEF Promote
<1>1. /\ id[r] \in Ids /\ Len(items[r]) < Len(SymbolList)
      /\ id[r][1] = SymbolList[Len(items[r]) + 1]
      /\ outlook[id[r]] = {} /\ PreHoldoutPassed(id[r])
      /\ id[r] \in unsealed[r] /\ id[r] \in store
  BY DEF IInv, RunnerInv, AtWork, Passed, Working, Opened, Amending
<1>2. TypeOK'
  BY <1>1 DEF IInv, TypeOK, Places, Goto, Record, Advanced, Unfinished, Downstream
<1>3. OnlyPassedEvidence'
  BY <1>1 DEF IInv, OnlyPassedEvidence, TypeOK
<1>4. CASE /\ promotion' = [promotion EXCEPT ![id[r]] = Advanced(@)]
           /\ Record(r, Found(id[r], TRUE))
  <2>1. promotion'[id[r]] \notin Unfinished
    BY <1>1, <1>4 DEF Advanced, Unfinished, IInv, TypeOK
  <2>2. ItemIsTrue(World(r)', Found(id[r], TRUE)) /\ Found(id[r], TRUE).id = id[r]
    <3>1. /\ id[r] \in World(r)'.executed /\ id[r] \in World(r)'.stored
          /\ id[r] \in World(r)'.decided
      BY <1>1, <2>1 DEF World
    <3>2. TRUE \in BOOLEAN
      OBVIOUS
    <3>3. QED
      BY <1>1, <3>1, <3>2, FoundIsTrue
  <2>3. RunnerInv(r)' /\ Lists'
    BY <1>1, <1>4, <2>2, RecordKeepsRunner, RecordKeepsLists
    DEF Opened, Working, ItemIsTrue, IInv
  <2>4. QED
    BY <1>2, <1>3, <2>3 DEF Kept
<1>5. CASE Record(r, Failed(id[r], "promotion"))
  <2>1. ItemIsTrue(World(r)', Failed(id[r], "promotion")) /\ Failed(id[r], "promotion").id = id[r]
    BY <1>1, FailedIsTrue DEF Errors
  <2>2. RunnerInv(r)' /\ Lists'
    BY <1>1, <1>5, <2>1, RecordKeepsRunner, RecordKeepsLists
    DEF Opened, Working, ItemIsTrue, IInv
  <2>3. QED
    BY <1>2, <1>3, <2>2 DEF Kept
<1>6. QED
  BY <1>4, <1>5

LEMMA WriteKeeps ==
  ASSUME IInv, NEW r \in Runners, Write(r), Steady
  PROVE  Kept(r)
<1> DEFINE list == items[r]
           written == Summary(r, list)
<1> USE DEF Write, shared
<1>1. TypeOK'
  BY DEF IInv, TypeOK, Places, Goto
<1>2. Lists' /\ OnlyPassedEvidence'
  BY DEF IInv, Lists, OnlyPassedEvidence
<1>3. written.items = list /\ (written.status = "success" => Having(list, "failed") = {})
  BY DEF Summary
<1>4. report'[r] = written /\ pc'[r] = "reclassify_gates" /\ items'[r] = list
  BY DEF IInv, TypeOK, Lists, Goto
<1>5. ListIsTrue(World(r)', list)
  BY SteadyWorld, ListStaysTrue DEF IInv, RunnerInv
<1>6. list \in Seq(Items) /\ DOMAIN list = 1 .. Len(list)
  BY LenProperties DEF IInv, Lists
<1>7. ReportIsTrue(World(r)', written.items, written.status)
  BY <1>3, <1>5, <1>6 DEF ReportIsTrue, Having, World, Steady, SymbolList
<1>8. RunnerInv(r)'
  BY <1>3, <1>4, <1>5, <1>7
  DEF IInv, RunnerInv, Passed, AtWork, UnsealedInOrder, Working, Opened, Amending,
      PreHoldoutPassed
<1>9. QED
  BY <1>1, <1>2, <1>8 DEF Kept

(* A failure that says which check it was may be filed as a rejection by   *)
(* that check, and every other item is left as it is.                      *)
Told(error) == IF error = "holdout" THEN "opened_rejected" ELSE "sealed_not_opened"

LEMMA ReclassifyKeeps ==
  ASSUME IInv, NEW r \in Runners, pc[r] \in Amending, Steady,
         NEW holdout, NEW next \in {"reclassify_history", "done"},
         Reclassify(r, holdout, next),
         \A e \in DOMAIN holdout :
           /\ e \in {"history", "statistics", "robustness", "holdout"}
           /\ holdout[e] = Told(e)
  PROVE  Kept(r)
<1> DEFINE old == items[r]
           Amended(x) == IF /\ x.status = "failed"
                            /\ ~x.published /\ ~x.promoted
                            /\ x.error \in DOMAIN holdout
                         THEN Rejected(x.id, x.error, holdout[x.error]) ELSE x
           list == [k \in DOMAIN old |-> Amended(old[k])]
<1>1. /\ old \in Seq(Items) /\ DOMAIN old = 1 .. Len(old) /\ Len(old) \in Nat
      /\ ListIsTrue(World(r)', old) /\ Len(old) = Len(SymbolList)
      /\ report[r].items = old
      /\ ReportIsTrue(World(r), old, report[r].status)
  <2>1. /\ ListIsTrue(World(r), old) /\ report[r].items = old
        /\ ReportIsTrue(World(r), old, report[r].status)
    BY DEF IInv, RunnerInv
  <2>2. ListIsTrue(World(r)', old)
    BY <2>1, SteadyWorld, ListStaysTrue DEF Reclassify
  <2>3. QED
    BY <2>1, <2>2, LenProperties DEF IInv, Lists, ReportIsTrue, World
<1>2. /\ World(r)'.fails = outlook /\ World(r)'.executed = unsealed[r]
      /\ World(r)'.symbols = SymbolList
  BY DEF World, Steady, SymbolList, Reclassify
<1>3. ASSUME NEW k \in 1 .. Len(old)
      PROVE  ItemIsTrue(World(r)', Amended(old[k])) /\ Amended(old[k]).id = old[k].id
  <2> DEFINE x == old[k]
  <2>1. ItemIsTrue(World(r)', x)
    BY <1>1 DEF ListIsTrue
  <2>2. CASE x.status = "failed" /\ x.error \in DOMAIN holdout
    <3>1. FailureIsReal(World(r)', x) /\ x.id \in Ids /\ x.error \in Errors
      BY <2>1, <2>2 DEF ItemIsTrue, Items
    <3>2. /\ x.error \in outlook[x.id]
          /\ x.error = "holdout" => x.id \in unsealed[r]
          /\ x.error # "holdout" => x.id \notin unsealed[r]
      BY <1>2, <2>2, <3>1 DEF FailureIsReal
    <3>3. Told(x.error) \in Holdouts
      BY DEF Told, Holdouts
    <3>4. ItemIsTrue(World(r)', Rejected(x.id, x.error, Told(x.error)))
          /\ Rejected(x.id, x.error, Told(x.error)).id = x.id
      BY <1>2, <3>1, <3>2, <3>3, RejectedIsTrue DEF Told
    <3>5. Amended(x) = Rejected(x.id, x.error, Told(x.error)) \/ Amended(x) = x
      BY <2>2
    <3>6. QED
      BY <2>1, <3>4, <3>5
  <2>3. CASE ~(x.status = "failed" /\ x.error \in DOMAIN holdout)
    BY <2>1, <2>3
  <2>4. QED
    BY <2>2, <2>3
<1>4. /\ list \in Seq(Items) /\ Len(list) = Len(old)
      /\ \A k \in 1 .. Len(old) : list[k] = Amended(old[k])
  <2>1. \A k \in 1 .. Len(old) : Amended(old[k]) \in Items
    BY <1>3 DEF ItemIsTrue
  <2>2. QED
    BY <1>1, <2>1, IsASeq, LenProperties
<1>5. ListIsTrue(World(r)', list)
  BY <1>1, <1>3, <1>4 DEF ListIsTrue
<1>6. /\ items'[r] = list /\ pc'[r] = next /\ unsealed'[r] = unsealed[r]
      /\ report'[r] = IF list = old THEN report[r] ELSE Summary(r, list)
  BY DEF Reclassify, Goto, IInv, TypeOK, Lists
<1>7. report'[r].items = list /\ ReportIsTrue(World(r)', list, report'[r].status)
  <2>1. CASE list = old
    BY <1>1, <1>2, <1>6, <2>1 DEF ReportIsTrue, World
  <2>2. CASE list # old
    <3>1. Summary(r, list).items = list
          /\ (Summary(r, list).status = "success" => Having(list, "failed") = {})
      BY DEF Summary
    <3>2. \A k \in 1 .. Len(list) : k \in DOMAIN list
      BY <1>4, LenProperties
    <3>3. QED
      BY <1>1, <1>2, <1>4, <1>5, <1>6, <2>2, <3>1, <3>2 DEF ReportIsTrue, Having
  <2>3. QED
    BY <2>1, <2>2
<1>8. TypeOK'
  BY DEF IInv, TypeOK, Places, Goto, Reclassify, shared
<1>9. Lists' /\ OnlyPassedEvidence'
  BY <1>4 DEF IInv, Lists, OnlyPassedEvidence, Reclassify, shared
<1>10. RunnerInv(r)'
  BY <1>5, <1>6, <1>7
  DEF IInv, RunnerInv, Passed, AtWork, UnsealedInOrder, Working, Opened, Amending,
      PreHoldoutPassed, Reclassify
<1>11. QED
  BY <1>8, <1>9, <1>10 DEF Kept

LEMMA ReportsAreAmended ==
  ASSUME IInv, NEW r \in Runners, ReclassifyGates(r) \/ ReclassifyHistory(r), Steady
  PROVE  Kept(r)
<1>1. CASE ReclassifyGates(r)
  BY <1>1, ReclassifyKeeps DEF ReclassifyGates, GateRejections, Told, Amending
<1>2. CASE ReclassifyHistory(r)
  BY <1>2, ReclassifyKeeps DEF ReclassifyHistory, Told, Amending
<1>3. QED
  BY <1>1, <1>2

LEMMA CrashKeeps ==
  ASSUME IInv, NEW r \in Runners, Crash(r), Steady
  PROVE  Kept(r)
<1> USE DEF Crash, Goto
<1>1. pc[r] = "publish" => id[r] \in Ids /\ outlook[id[r]] = {}
  BY DEF IInv, RunnerInv, Passed, AtWork, Working, Opened
<1>2. TypeOK'
  BY <1>1 DEF IInv, TypeOK, Places
<1>3. Lists' /\ OnlyPassedEvidence'
  BY <1>1, EmptySeq DEF IInv, Lists, OnlyPassedEvidence
<1>4. items'[r] = << >> /\ pc'[r] = "idle" /\ report'[r] = report[r] /\ unsealed'[r] = unsealed[r]
  BY DEF IInv, TypeOK, Lists
<1>5. ListIsTrue(World(r)', << >>)
  BY EmptyListIsTrue, Configured DEF IInv, World, Steady, SymbolList
<1>6. report[r] # None => ReportIsTrue(World(r)', report[r].items, report[r].status)
  <2>1. SUFFICES ASSUME report[r] # None
                 PROVE  ReportIsTrue(World(r)', report[r].items, report[r].status)
    OBVIOUS
  <2>2. ReportIsTrue(World(r), report[r].items, report[r].status)
    BY <2>1 DEF IInv, RunnerInv
  <2>3. ListIsTrue(World(r)', report[r].items)
    BY <1>4, <2>2, SteadyWorld, ListStaysTrue DEF ReportIsTrue
  <2>4. World(r)'.symbols = World(r).symbols
    BY DEF Steady, World, SymbolList
  <2>5. QED
    BY <2>2, <2>3, <2>4 DEF ReportIsTrue
<1>7. RunnerInv(r)'
  BY <1>4, <1>5, <1>6
  DEF IInv, RunnerInv, Passed, AtWork, UnsealedInOrder, Working, Opened, Amending,
      PreHoldoutPassed
<1>8. QED
  BY <1>2, <1>3, <1>7 DEF Kept

(* What happens around the runs: no runner moves, and only publications of *)
(* passed evidence were given up on.                                       *)
LEMMA SurroundingsKeep ==
  ASSUME IInv, LatePublication \/ NewBars \/ Manage, Steady
  PROVE  IInv'
<1>1. \A r \in Runners : UntouchedRunner(r)
  BY DEF LatePublication, NewBars, Manage, UntouchedRunner, local, shared
<1>2. \A r \in Runners : RunnerInv(r)'
  BY <1>1, UntouchedStaysTrue DEF IInv
<1>3. TypeOK'
  <2>1. CASE LatePublication
    BY <2>1 DEF IInv, TypeOK, LatePublication, local
  <2>2. CASE NewBars
    BY <2>2, HourlyAssumption DEF IInv, TypeOK, NewBars, local, shared
  <2>3. CASE Manage
    BY <2>3 DEF IInv, TypeOK, Manage, local, Downstream
  <2>4. QED
    BY <2>1, <2>2, <2>3
<1>4. Lists'
  BY DEF IInv, Lists, LatePublication, NewBars, Manage, local, shared
<1>5. OnlyPassedEvidence'
  BY DEF IInv, TypeOK, OnlyPassedEvidence, LatePublication, NewBars, Manage, shared
<1>6. QED
  BY <1>2, <1>3, <1>4, <1>5 DEF IInv

-----------------------------------------------------------------------------
(* The invariant.                                                          *)

LEMMA InitHolds == Init => IInv
<1> SUFFICES ASSUME Init PROVE IInv
  OBVIOUS
<1>1. TypeOK
  BY HourlyAssumption DEF Init, TypeOK, Places, Unfinished
<1>2. Lists /\ OnlyPassedEvidence
  BY EmptySeq DEF Init, Lists, OnlyPassedEvidence
<1>3. ASSUME NEW r \in Runners PROVE RunnerInv(r)
  <2>1. ListIsTrue(World(r), << >>)
    BY <1>1, EmptyListIsTrue, Configured DEF World
  <2>2. QED
    BY <2>1
    DEF Init, RunnerInv, Passed, AtWork, UnsealedInOrder, Working, Opened, Amending
<1>4. QED
  BY <1>1, <1>2, <1>3 DEF IInv

LEMMA StepKeeps ==
  ASSUME IInv, NEW r \in Runners, Begin(r) \/ Step(r) \/ Crash(r), Steady
  PROVE  Kept(r)
BY BeginKeeps, FetchKeeps, SelectKeeps, ValidateKeeps, OpenHoldoutKeeps, PublishKeeps,
   PromoteKeeps, WriteKeeps, ReportsAreAmended, CrashKeeps DEF Step

LEMMA NextHolds == IInv /\ [Next]_vars => IInv'
<1> SUFFICES ASSUME IInv, [Next]_vars PROVE IInv'
  OBVIOUS
<1>1. Steady
  BY StepsAreSteady DEF IInv
<1>2. ASSUME NEW r \in Runners, Begin(r) \/ Step(r) \/ Crash(r) PROVE IInv'
  <2>1. Kept(r)
    BY <1>1, <1>2, StepKeeps
  <2>2. \A q \in Runners : RunnerInv(q)'
    BY <1>1, <1>2, <2>1, OthersUntouched, OneRunnerMoves DEF Kept
  <2>3. QED
    BY <2>1, <2>2 DEF Kept, IInv
<1>3. CASE LatePublication \/ NewBars \/ Manage
  BY <1>1, <1>3, SurroundingsKeep
<1>4. CASE UNCHANGED vars
  <2>1. \A r \in Runners : UntouchedRunner(r)
    BY <1>4 DEF vars, local, shared, UntouchedRunner
  <2>2. \A r \in Runners : RunnerInv(r)'
    BY <1>1, <2>1, UntouchedStaysTrue DEF IInv
  <2>3. TypeOK' /\ Lists' /\ OnlyPassedEvidence'
    BY <1>4 DEF IInv, TypeOK, Lists, OnlyPassedEvidence, vars, local, shared
  <2>4. QED
    BY <2>2, <2>3 DEF IInv
<1>5. QED
  BY <1>2, <1>3, <1>4 DEF Next

THEOREM InvariantHolds == Spec => []IInv
BY InitHolds, NextHolds, PTL DEF Spec

-----------------------------------------------------------------------------
(* What the runs promise.                                                  *)

(* The state of any number of runners, symbols and days stays well-formed. *)
THEOREM TypesHold == Spec => []TypeOK
<1>1. IInv => TypeOK
  BY DEF IInv
<1>2. QED
  BY <1>1, InvariantHolds, PTL

(* No run ever executes the holdout of data that failed a check before it  *)
(* (run_nested_hourly_backtest, _pre_holdout_metadata).                    *)
THEOREM SealIsKept == Spec => []SealKept
<1>1. IInv => SealKept
  BY DEF IInv, RunnerInv, SealKept
<1>2. QED
  BY <1>1, InvariantHolds, PTL

(* What is stored, still under way or promoted passed every check, and     *)
(* what is promoted is stored (_attach_holdout_evidence,                   *)
(* publish_backtest_result, create_and_advance_backtest_promotion).        *)
THEOREM OnlyPassedIsStored == Spec => []OnlyPassedEvidence
<1>1. IInv => OnlyPassedEvidence
  BY DEF IInv
<1>2. QED
  BY <1>1, InvariantHolds, PTL

(* A report, as written and as the two adapters amend it, claims nothing   *)
(* that is not so and files no failure as a rejection                      *)
(* (_reclassify_expected_gate_rejections, _history_counts).                *)
LEMMA TrueReports ==
  ASSUME IInv, NEW r \in Runners, report[r] # None
  PROVE  LET list == report[r].items IN
         /\ DOMAIN list = 1 .. Len(list) /\ Len(list) = Len(SymbolList)
         /\ \A k \in 1 .. Len(list) :
              list[k].id[1] = SymbolList[k] /\ ItemIsTrue(World(r), list[k])
         /\ report[r].status = "success" =>
              \A k \in 1 .. Len(list) : list[k].status # "failed"
<1>1. ReportIsTrue(World(r), report[r].items, report[r].status)
  BY DEF IInv, RunnerInv
<1>2. World(r).symbols = SymbolList
  BY DEF World
<1>3. QED
  BY <1>1, <1>2, LenProperties DEF ReportIsTrue, ListIsTrue

THEOREM ReportsStayTrue == Spec => []ReportsAreTrue
<1>1. ASSUME IInv PROVE ClaimsAreTrue
  <2>1. SUFFICES ASSUME NEW r \in Runners, report[r] # None,
                        NEW k \in DOMAIN report[r].items
                 PROVE  LET x == report[r].items[k] IN
                        /\ x.published => x.id \in store
                        /\ x.promoted => promotion[x.id] \notin Unfinished
                        /\ x.holdout = "sealed_not_opened" => x.id \notin unsealed[r]
                        /\ x.holdout \in {"opened_rejected", "passed"} =>
                             x.id \in unsealed[r]
    BY DEF ClaimsAreTrue
  <2>2. ItemIsTrue(World(r), report[r].items[k])
    BY <1>1, <2>1, TrueReports
  <2>3. QED
    BY <2>2 DEF ItemIsTrue, World
<1>2. ASSUME IInv PROVE NothingSwallowed
  <2>1. SUFFICES ASSUME NEW r \in Runners, report[r] # None
                 PROVE
        /\ \A k \in DOMAIN report[r].items :
               LET x == report[r].items[k] IN
               (x.status = "no_eligible_strategy" => outlook[x.id] # {})
        /\ report[r].status = "success" /\ Publishes(r) =>
               /\ Len(report[r].items) = Len(SymbolList)
               /\ \A k \in DOMAIN SymbolList :
                      LET x == report[r].items[k] IN
                      /\ x.id[1] = SymbolList[k]
                      /\ outlook[x.id] # {} \/ promotion[x.id] \notin Unfinished
    BY DEF NothingSwallowed
  <2> DEFINE list == report[r].items
  <2>2. /\ DOMAIN list = 1 .. Len(list) /\ Len(list) = Len(SymbolList)
        /\ \A k \in 1 .. Len(list) :
             list[k].id[1] = SymbolList[k] /\ ItemIsTrue(World(r), list[k])
        /\ report[r].status = "success" =>
             \A k \in 1 .. Len(list) : list[k].status # "failed"
    BY <1>2, <2>1, TrueReports
  <2>3. World(r).fails = outlook /\ World(r).publishes = Publishes(r)
        /\ World(r).decided = {i \in Ids : promotion[i] \notin Unfinished}
    BY DEF World
  <2>4. DOMAIN SymbolList = 1 .. Len(SymbolList)
    BY <1>2, Configured, LenProperties DEF IInv
  <2>5. \A k \in DOMAIN list : list[k].status = "no_eligible_strategy" => outlook[list[k].id] # {}
    BY <2>2, <2>3 DEF ItemIsTrue
  <2>6. ASSUME report[r].status = "success", Publishes(r), NEW k \in 1 .. Len(list)
        PROVE  outlook[list[k].id] # {} \/ promotion[list[k].id] \notin Unfinished
    <3>1. ItemIsTrue(World(r), list[k]) /\ list[k].status # "failed"
      BY <2>2, <2>6
    <3>2. list[k].status \in {"no_eligible_strategy", "eligible_strategy_found"}
      BY <3>1 DEF ItemIsTrue, Items, Statuses
    <3>3. QED
      BY <2>3, <2>6, <3>1, <3>2 DEF ItemIsTrue
  <2>7. QED
    BY <2>2, <2>4, <2>5, <2>6
<1>3. IInv => ReportsAreTrue
  BY <1>1, <1>2 DEF ReportsAreTrue
<1>4. QED
  BY <1>3, InvariantHolds, PTL

(* No step of any run undoes what became of a promotion downstream         *)
(* (create_and_advance_backtest_promotion returning what it finds).        *)
THEOREM PromotionsNeverStepBack == Spec => PromotionNeverStepsBack
<1>1. IInv /\ [Next]_vars => [NeverStepsBack]_vars
  BY PromotionsMoveOn DEF IInv
<1>2. QED
  BY <1>1, InvariantHolds, PTL DEF Spec, PromotionNeverStepsBack

(* What any number of runs do to the promotions of their symbols is what   *)
(* PromotionRecord allows, as Promotion_proofs shows of the calls.         *)
THEOREM RunsImplementRecord == Spec => ImplementsPromotionRecord
<1>1. Init => Abstract!Init
  BY DEF Init, Abstract!Init
<1>2. ASSUME TypeOK, [Next]_vars PROVE [Abstract!Next]_promotion
  <2> USE DEF Abstract!Next, Abstract!Attest, Abstract!Approve, Abstract!End, Abstract!Becomes
  <2>1. ASSUME NEW r \in Runners, Promote(r) PROVE [Abstract!Next]_promotion
    <3>1. PICK p \in {promotion[id[r]], Advanced(promotion[id[r]]), "begun"} :
            /\ promotion' = [promotion EXCEPT ![id[r]] = p]
            /\ p = "begun" => promotion[id[r]] \in {"none", "begun"}
      BY <1>2, <2>1 DEF Promote, Advanced, Unfinished, TypeOK, Downstream
    <3>2. id[r] \in Ids /\ promotion[id[r]] \in Unfinished \cup Downstream \cup {"ended"}
      BY <1>2, <2>1 DEF Promote, TypeOK
    <3> QED
      BY <1>2, <3>1, <3>2 DEF Advanced, Unfinished, Downstream, TypeOK
  <2>2. ASSUME Manage PROVE [Abstract!Next]_promotion
    BY <2>2 DEF Manage
  <2>3. \/ \E r \in Runners : Promote(r)
        \/ Manage
        \/ UNCHANGED promotion
    BY <1>2 DEF Next, vars, shared, Begin, Step, Crash, Fetch, Select, Validate, OpenHoldout,
       Publish, Write, ReclassifyGates, ReclassifyHistory, Reclassify,
       LatePublication, NewBars
  <2> QED
    BY <2>1, <2>2, <2>3
<1>3. IInv => TypeOK
  BY DEF IInv
<1>4. QED
  BY <1>1, <1>2, <1>3, InvariantHolds, PTL DEF Spec, ImplementsPromotionRecord, Abstract!Spec
=============================================================================
