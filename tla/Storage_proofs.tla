---------------------------- MODULE Storage_proofs ----------------------------
(***************************************************************************)
(* What the two workflows that store evidence say of it is so.             *)
(*                                                                         *)
(* For any symbols, gates, bars and settings, however often the sealed     *)
(* research is cancelled and repeated, and whatever the database answers:  *)
(* a green workflow has stored what it evaluated, a run posts once and in  *)
(* order and counts only what is kept, and nothing but trouble from        *)
(* outside, or a symbol without diagnostics, turns it red.                 *)
(*                                                                         *)
(* For any callers and requests, with and without a database: exit code 0  *)
(* and the response of a batch agree with what is stored, and neither ids  *)
(* nor bars of different symbols are taken for each other.                 *)
(***************************************************************************)
EXTENDS BatchRun, ResearchRun, FiniteSetTheorems, SequenceTheorems, TLAPS

Stages == Range(AllGates) \cup {"passed", "none"}
Statuses == {"pre_holdout_candidate", "no_eligible_strategy", "failed"}
Results == [id : Ids, stage : Stages, diagnosed : BOOLEAN, status : Statuses]

(* What is confirmed when the items before place n have been published:    *)
(* the ids of those that did not fail, in their order, and of no other.    *)
Confirmed(list, n, ids) ==
  /\ ids \in Seq(Ids)
  /\ \A k \in 1 .. Len(ids) :
       \E m \in 1 .. n - 1 : ids[k] = list[m].id /\ list[m].status # "failed"
  /\ \A m \in 1 .. n - 1 :
       list[m].status # "failed" => \E k \in 1 .. Len(ids) : ids[k] = list[m].id
  /\ \A k, l \in 1 .. Len(ids) : k < l =>
       \E m, j \in 1 .. n - 1 : m < j /\ ids[k] = list[m].id /\ ids[l] = list[j].id
  /\ (\A m \in 1 .. n - 1 : list[m].status # "failed") => Len(ids) = n - 1

(* The items are those of the first symbols, in their order.               *)
Ordered(list) ==
  /\ list \in Seq(Results) /\ Len(list) <= Len(Symbols)
  /\ \A k \in 1 .. Len(list) : list[k].id[1] = Symbols[k]

(* The item at the place is posted and not yet confirmed.                  *)
InDoubt ==
  /\ place <= Len(items) /\ items[place].status # "failed"
  /\ sent = Append(records, items[place].id)

Requesting == {"posting", "reading"}

(* Where the workflow is, and what it has got done by then.                *)
Placed ==
  /\ pc \in {"idle", "evaluate"} \/ ~setting.publishing =>
       place = 1 /\ records = << >> /\ sent = << >>
  /\ pc \in {"publish", "audit"} => sent = records
  /\ pc \in Requesting => InDoubt /\ Buildable(items[place]) /\ setting.configured
  /\ pc = "over" => sent = records \/ InDoubt
  /\ pc \in Requesting \cup {"publish"} => setting.publishing
  /\ pc \in Requesting \cup {"publish", "audit"} \/ verdict = "green" =>
       Len(items) = Len(Symbols)
  /\ place <= Len(items) + 1

(* What an answer means when nothing has gone wrong outside.               *)
Heard ==
  /\ (pc = "posting") <=> (answer # "none")
  /\ pc = "posting" /\ answer = "bad" => trouble
  /\ (pc = "posting" /\ answer # "pending") \/ pc = "reading" =>
       trouble \/ rows[items[place].id] = "document"

(* The report that waits for its audit.                                    *)
Reported ==
  pc = "audit" =>
    /\ Failures = {}
    /\ setting.publishing => place = Len(items) + 1

IInv ==
  /\ TypeOK
  /\ Ordered(items) /\ Confirmed(items, place, records) /\ sent \in Seq(Ids)
  /\ Placed /\ Heard /\ Reported
  /\ StoredWhenGreen /\ RecordsAreKept /\ CleanRunIsGreen

-----------------------------------------------------------------------------
(* What is confirmed, as the place moves on.                               *)

LEMMA NothingConfirmed ==
  ASSUME NEW list
  PROVE  Confirmed(list, 1, << >>)
BY EmptySeq DEF Confirmed

LEMMA FailedIsPassedOver ==
  ASSUME NEW list, NEW n \in Nat \ {0}, NEW ids, Confirmed(list, n, ids),
         list[n].status = "failed"
  PROVE  Confirmed(list, n + 1, ids)
<1>1. 1 .. n - 1 \subseteq 1 .. n /\ (n + 1) - 1 = n
  OBVIOUS
<1>2. ids \in Seq(Ids)
  BY DEF Confirmed
<1>3. \A k \in 1 .. Len(ids) :
        \E m \in 1 .. n : ids[k] = list[m].id /\ list[m].status # "failed"
  BY <1>1 DEF Confirmed
<1>4. \A m \in 1 .. n :
        list[m].status # "failed" => \E k \in 1 .. Len(ids) : ids[k] = list[m].id
  <2>1. \A m \in 1 .. n : list[m].status # "failed" => m \in 1 .. n - 1
    OBVIOUS
  <2> QED
    BY <2>1 DEF Confirmed
<1>5. \A k, l \in 1 .. Len(ids) : k < l =>
        \E m, j \in 1 .. n : m < j /\ ids[k] = list[m].id /\ ids[l] = list[j].id
  BY <1>1 DEF Confirmed
<1>6. ~ \A m \in 1 .. n : list[m].status # "failed"
  OBVIOUS
<1> QED
  BY <1>1, <1>2, <1>3, <1>4, <1>5, <1>6 DEF Confirmed

LEMMA OneMoreConfirmed ==
  ASSUME NEW list, NEW n \in Nat \ {0}, NEW ids, Confirmed(list, n, ids),
         list[n].status # "failed", list[n].id \in Ids
  PROVE  Confirmed(list, n + 1, Append(ids, list[n].id))
<1> DEFINE more == Append(ids, list[n].id)
<1>1. ids \in Seq(Ids) /\ Len(ids) \in Nat
  BY LenProperties DEF Confirmed
<1>2. /\ more \in Seq(Ids) /\ Len(more) = Len(ids) + 1
      /\ more[Len(ids) + 1] = list[n].id
      /\ \A k \in 1 .. Len(ids) : more[k] = ids[k]
  BY <1>1, AppendProperties
<1> HIDE DEF more
<1>3. ASSUME NEW k \in 1 .. Len(more)
      PROVE  \E m \in 1 .. n : more[k] = list[m].id /\ list[m].status # "failed"
  <2>1. CASE k = Len(ids) + 1
    BY <2>1, <1>2
  <2>2. CASE k \in 1 .. Len(ids)
    <3>1. PICK m \in 1 .. n - 1 : ids[k] = list[m].id /\ list[m].status # "failed"
      BY <2>2 DEF Confirmed
    <3> QED
      BY <2>2, <3>1, <1>2
  <2> QED
    BY <1>1, <1>2, <2>1, <2>2
<1>4. ASSUME NEW m \in 1 .. n, list[m].status # "failed"
      PROVE  \E k \in 1 .. Len(more) : more[k] = list[m].id
  <2>1. CASE m = n
    BY <2>1, <1>1, <1>2
  <2>2. CASE m \in 1 .. n - 1
    <3>1. PICK k \in 1 .. Len(ids) : ids[k] = list[m].id
      BY <1>4, <2>2 DEF Confirmed
    <3> QED
      BY <3>1, <1>1, <1>2
  <2> QED
    BY <2>1, <2>2
<1>5. ASSUME NEW k \in 1 .. Len(more), NEW l \in 1 .. Len(more), k < l
      PROVE  \E m, j \in 1 .. n : m < j /\ more[k] = list[m].id /\ more[l] = list[j].id
  <2>1. k \in 1 .. Len(ids)
    BY <1>1, <1>2, <1>5
  <2>2. CASE l = Len(ids) + 1
    <3>1. PICK m \in 1 .. n - 1 : ids[k] = list[m].id
      BY <2>1 DEF Confirmed
    <3> QED
      BY <2>1, <2>2, <3>1, <1>2
  <2>3. CASE l \in 1 .. Len(ids)
    <3>1. PICK m \in 1 .. n - 1, j \in 1 .. n - 1 :
            m < j /\ ids[k] = list[m].id /\ ids[l] = list[j].id
      BY <1>5, <2>1, <2>3 DEF Confirmed
    <3> QED
      BY <2>1, <2>3, <3>1, <1>2
  <2> QED
    BY <1>1, <1>2, <2>2, <2>3
<1>6. (\A m \in 1 .. n : list[m].status # "failed") => Len(more) = n
  BY <1>1, <1>2 DEF Confirmed
<1>7. (n + 1) - 1 = n /\ more \in Seq(Ids)
  BY <1>2
<1>8. Confirmed(list, n + 1, more)
  BY <1>3, <1>4, <1>5, <1>6, <1>7 DEF Confirmed
<1> QED
  BY <1>8 DEF more

-----------------------------------------------------------------------------
(* Symbols, items and rows.                                                *)

LEMMA SymbolsFacts ==
  /\ Len(Symbols) \in Nat \ {0} /\ DOMAIN Symbols = 1 .. Len(Symbols)
  /\ \A k \in 1 .. Len(Symbols) : Symbols[k] \in Range(Symbols)
  /\ \A k, l \in 1 .. Len(Symbols) : Symbols[k] = Symbols[l] => k = l
<1>1. Symbols \in Seq(Range(Symbols)) /\ IsInjective(Symbols) /\ Symbols # << >>
  BY ResearchAssumption
<1>2. Len(Symbols) \in Nat /\ DOMAIN Symbols = 1 .. Len(Symbols)
  BY <1>1, LenProperties
<1>3. Len(Symbols) # 0
  BY <1>1, EmptySeq
<1> QED
  BY <1>1, <1>2, <1>3 DEF IsInjective, Range

LEMMA StageKnown ==
  ASSUME setting \in Settings, NEW i
  PROVE  Stage(i) \in Stages \ {"none"}
<1>1. /\ Gates = AllGates \/ Gates = <<"selection", "metadata">>
      /\ DOMAIN Gates \in {1 .. 4, 1 .. 2}
      /\ \A k \in DOMAIN Gates : Gates[k] \in {"selection", "pbo", "cost", "metadata"}
  BY DEF Gates, AllGates
<1>2. {"selection", "pbo", "cost", "metadata"} \subseteq Stages
  <2>1. /\ 1 \in DOMAIN AllGates /\ 2 \in DOMAIN AllGates
        /\ 3 \in DOMAIN AllGates /\ 4 \in DOMAIN AllGates
        /\ AllGates[1] = "selection" /\ AllGates[2] = "pbo"
        /\ AllGates[3] = "cost" /\ AllGates[4] = "metadata"
    BY DEF AllGates
  <2> QED
    BY <2>1 DEF Stages, Range
<1>3. CASE FailedGates(i) = {}
  BY <1>3 DEF Stage, Stages
<1>4. CASE FailedGates(i) # {}
  <2> DEFINE first == CHOOSE k \in FailedGates(i) : \A l \in FailedGates(i) : k <= l
  <2>1. FailedGates(i) \subseteq 1 .. 4
    BY <1>1 DEF FailedGates
  <2>2. \E k \in FailedGates(i) : \A l \in FailedGates(i) : k <= l
    <3>1. 1 \in FailedGates(i) \/ 2 \in FailedGates(i) \/ 3 \in FailedGates(i)
            \/ 4 \in FailedGates(i)
      BY <1>4, <2>1
    <3> QED
      BY <2>1, <3>1
  <2>3. first \in FailedGates(i)
    BY <2>2
  <2>4. Stage(i) = Gates[first] /\ first \in DOMAIN Gates
    BY <1>4, <2>3 DEF Stage, FailedGates
  <2>5. Gates[first] \in {"selection", "pbo", "cost", "metadata"}
    BY <1>1, <2>4
  <2> QED
    BY <1>2, <2>4, <2>5
<1> QED
  BY <1>3, <1>4

LEMMA ItemFacts ==
  ASSUME setting \in Settings, NEW i \in Ids
  PROVE  /\ Item(i) \in Results /\ Item(i).id = i /\ Item(i).status # "failed"
         /\ FailedItem(i) \in Results /\ FailedItem(i).id = i
         /\ FailedItem(i).status = "failed"
BY StageKnown DEF Item, FailedItem, Results, Stages, Statuses, Diagnosed

LEMMA RigidItems ==
  ASSUME UNCHANGED <<setting, outlook>>, NEW i
  PROVE  Item(i)' = Item(i) /\ FailedItem(i)' = FailedItem(i)
BY DEF Item, FailedItem, Stage, FailedGates, Gates

(* The lists of a state, in the terms of the sequence theorems.            *)
LEMMA ListFacts ==
  ASSUME IInv
  PROVE  /\ Len(items) \in Nat /\ DOMAIN items = 1 .. Len(items)
         /\ Len(records) \in Nat /\ DOMAIN records = 1 .. Len(records)
         /\ Len(sent) \in Nat /\ DOMAIN sent = 1 .. Len(sent)
         /\ \A k \in 1 .. Len(items) : items[k] \in Results /\ items[k].id \in Ids
         /\ records \in Seq(Ids) /\ \A k \in 1 .. Len(records) : records[k] \in Ids
<1>1. items \in Seq(Results) /\ records \in Seq(Ids) /\ sent \in Seq(Ids)
  BY DEF IInv, Ordered, Confirmed
<1>2. /\ Len(items) \in Nat /\ DOMAIN items = 1 .. Len(items)
      /\ Len(records) \in Nat /\ DOMAIN records = 1 .. Len(records)
      /\ Len(sent) \in Nat /\ DOMAIN sent = 1 .. Len(sent)
  BY <1>1, LenProperties
<1>3. \A k \in 1 .. Len(items) : items[k] \in Results
  BY <1>1, <1>2, ElementOfSeq
<1>4. \A k \in 1 .. Len(records) : records[k] \in Ids
  BY <1>1, <1>2, ElementOfSeq
<1> QED
  BY <1>1, <1>2, <1>3, <1>4 DEF Results

LEMMA PlaceFacts ==
  ASSUME IInv
  PROVE  /\ place \in Nat \ {0}
         /\ pc \in Requesting => place \in 1 .. Len(items) /\ items[place].id \in Ids
<1>1. place \in Nat \ {0}
  BY SymbolsFacts DEF IInv, TypeOK
<1> QED
  BY <1>1, ListFacts DEF IInv, Placed, InDoubt

LEMMA IdsApart ==
  ASSUME IInv, NEW m \in 1 .. Len(items), NEW n \in 1 .. Len(items),
         items[m].id = items[n].id
  PROVE  m = n
BY ListFacts, SymbolsFacts DEF IInv, Ordered

(* A row stays as the document it is.                                      *)
LEMMA DocumentsStay ==
  ASSUME IInv, [Next]_vars, NEW i \in Ids, rows[i] = "document"
  PROVE  rows'[i] = "document"
<1>1. None # "document"
  BY ResearchAssumption DEF Rows
<1>2. CASE Handle
  <2> DEFINE j == items[place].id
  <2>1. j \in Ids
    BY <1>2, PlaceFacts DEF Handle, Requesting
  <2>2. CASE rows[j] = None
    <3>1. rows' = rows \/ \E r \in Rows : rows' = [rows EXCEPT ![j] = r]
      BY <1>2, <2>2 DEF Handle, Rows
    <3> QED
      BY <1>1, <2>1, <2>2, <3>1 DEF IInv, TypeOK
  <2>3. CASE rows[j] # None
    BY <1>2, <2>3 DEF Handle
  <2> QED
    BY <2>2, <2>3
<1>3. CASE HandleLate
  <2>1. PICK j \in Ids : rows' = rows \/ (rows[j] = None /\ rows' = [rows EXCEPT ![j] = "document"])
    BY <1>3 DEF HandleLate, IInv, TypeOK
  <2> QED
    BY <1>1, <2>1 DEF IInv, TypeOK
<1>4. CASE UNCHANGED rows
  BY <1>4
<1> QED
  BY <1>2, <1>3, <1>4 DEF Next, vars, database, Begin, Step, Evaluate, Write, Open, Skip,
     Refuse, Post, Hear, ReadBack, GiveUp, Audit, Cancel, NewBars

-----------------------------------------------------------------------------
(* The types, and the verdict of a workflow that is over.                  *)

ItemsTyped ==
  \A k \in DOMAIN items :
    \/ items[k] = Item(items[k].id)
    \/ items[k] = FailedItem(items[k].id) /\ trouble

LEMMA ItemsStayTyped ==
  ASSUME IInv, [Next]_vars
  PROVE  ItemsTyped'
<1>1. UNCHANGED <<setting, outlook>>
  BY DEF Next, vars, local, database, Begin, Step, Evaluate, Write, Open, Skip, Refuse,
     Post, Handle, HandleLate, Hear, ReadBack, GiveUp, Audit, Cancel, NewBars
<1>2. ItemsTyped
  BY DEF IInv, TypeOK, ItemsTyped
<1>3. CASE items' = << >>
  BY <1>3, EmptySeq DEF ItemsTyped
<1>4. CASE UNCHANGED items /\ (trouble => trouble')
  BY <1>1, <1>2, <1>4, RigidItems DEF ItemsTyped
<1>5. CASE Evaluate
  <2> DEFINE i == <<Symbols[Len(items) + 1], today>>
  <2>1. i \in Ids
    BY <1>5, SymbolsFacts, ListFacts DEF Evaluate, Ids, IInv, TypeOK
  <2>2. PICK x : /\ items' = Append(items, x)
                 /\ \/ x = Item(i) /\ UNCHANGED trouble
                    \/ x = FailedItem(i) /\ trouble'
    BY <1>5 DEF Evaluate
  <2>3. x.id = i /\ x \in Results
    BY <2>1, <2>2, ItemFacts DEF IInv, TypeOK
  <2>4. /\ DOMAIN items' = 1 .. Len(items) + 1 /\ items'[Len(items) + 1] = x
        /\ \A k \in 1 .. Len(items) : items'[k] = items[k]
    <3>1. items \in Seq(Results)
      BY DEF IInv, Ordered
    <3> QED
      BY <2>2, <2>3, <3>1, AppendProperties, LenProperties
  <2>5. trouble => trouble'
    BY <2>2
  <2> HIDE DEF i
  <2> QED
    BY <1>1, <1>2, <2>2, <2>3, <2>4, <2>5, ListFacts, RigidItems DEF ItemsTyped
<1> QED
  BY <1>3, <1>4, <1>5 DEF Next, vars, local, database, Begin, Step, Write, Open, Skip, Refuse,
     Post, Handle, HandleLate, Hear, ReadBack, GiveUp, Audit, Cancel, NewBars

LEMMA TypeStep ==
  ASSUME IInv, [Next]_vars
  PROVE  TypeOK'
<1> USE DEF IInv, TypeOK
<1>1. ItemsTyped'
  BY ItemsStayTyped
<1> USE DEF ItemsTyped
<1>2. CASE Begin
  <2>1. runs' \in 0 .. MaxRuns
    BY <1>2, ResearchAssumption DEF Begin
  <2>2. place' \in 1 .. Len(Symbols) + 1
    BY <1>2, SymbolsFacts DEF Begin
  <2>3. verdict' = "open" /\ pc' = "evaluate"
    BY <1>2 DEF Begin
  <2>4. UNCHANGED <<setting, outlook, today, answer, rows, late>> /\ trouble' = FALSE
    BY <1>2 DEF Begin, database
  <2> QED
    BY <1>1, <2>1, <2>2, <2>3, <2>4 DEF Places
<1>3. CASE Evaluate
  BY <1>1, <1>3 DEF Evaluate, Places, database
<1>4. CASE Write
  BY <1>1, <1>4 DEF Write, Evaluated, Published, Places, database, Storage, Failures
<1>5. CASE Open
  BY <1>1, <1>5 DEF Open, Evaluated, Places, database
<1>6. CASE Skip
  BY <1>1, <1>6, SymbolsFacts, ListFacts DEF Skip, Places, database, Ordered
<1>7. CASE Refuse
  BY <1>1, <1>7 DEF Refuse, Abort, Places, database
<1>8. CASE Post
  BY <1>1, <1>8 DEF Post, Places, database
<1>9. CASE Hear
  BY <1>1, <1>9 DEF Hear, Abort, Places, database
<1>10. CASE ReadBack
  BY <1>1, <1>10, SymbolsFacts, ListFacts DEF ReadBack, Abort, Places, database, Placed,
     InDoubt, Requesting, Ordered
<1>11. CASE GiveUp
  BY <1>1, <1>11, PlaceFacts DEF GiveUp, Abort, Abandoned, Places, Requesting, Heard
<1>12. CASE Cancel
  BY <1>1, <1>12, PlaceFacts DEF Cancel, Abort, Abandoned, Places, Requesting, Heard
<1>13. CASE Audit
  BY <1>1, <1>13 DEF Audit, Places, database, Storage, Failures
<1>14. CASE NewBars
  BY <1>1, <1>14, ResearchAssumption DEF NewBars, Ended, local, database, Storage, Failures
<1>15. CASE Handle
  BY <1>1, <1>15, PlaceFacts DEF Handle, Requesting, Rows, Storage, Failures
<1>16. CASE HandleLate
  BY <1>1, <1>16 DEF HandleLate, local, Rows, Storage, Failures
<1>17. CASE UNCHANGED vars
  BY <1>1, <1>17 DEF vars, local, database, Storage, Failures
<1> QED
  BY <1>2, <1>3, <1>4, <1>5, <1>6, <1>7, <1>8, <1>9, <1>10, <1>11, <1>12, <1>13, <1>14,
     <1>15, <1>16, <1>17 DEF Next, Step

-----------------------------------------------------------------------------
(* The steps of a run.                                                     *)

Lists == Ordered(items) /\ Confirmed(items, place, records) /\ sent \in Seq(Ids)

Course == Placed /\ Heard /\ Reported /\ StoredWhenGreen /\ CleanRunIsGreen

Moved == <<items, place, records, sent, setting>>

LEMMA ListsKept ==
  ASSUME IInv, [Next]_vars, UNCHANGED Moved
  PROVE  Lists' /\ RecordsAreKept'
<1>1. Lists'
  <2>1. Lists
    BY DEF Lists, IInv
  <2>2. items' = items /\ place' = place /\ records' = records /\ sent' = sent
    BY DEF Moved
  <2> QED
    BY <2>1, <2>2 DEF Lists
<1>2. ASSUME NEW i \in Range(records) PROVE rows'[i] = "document"
  <2>1. i \in Ids
    BY <1>2, ListFacts DEF Range
  <2> QED
    BY <1>2, <2>1, DocumentsStay DEF IInv, RecordsAreKept
<1> QED
  BY <1>1, <1>2 DEF RecordsAreKept, Moved

(* A step that turns the workflow red has a reason.                        *)
LEMMA RedStep ==
  ASSUME IInv, UNCHANGED Moved, Abort, pc # "idle", sent = records \/ InDoubt,
         (setting.publishing => setting.configured) =>
           trouble' \/ \E k \in DOMAIN items : ~items[k].diagnosed
  PROVE  Course'
BY DEF Course, Moved, Abort, IInv, Placed, InDoubt, Requesting, Heard, Reported,
   StoredWhenGreen, CleanRunIsGreen

(* A step of the database or of the bars leaves the workflow where it is.  *)
LEMMA AsideStep ==
  ASSUME IInv, [Next]_vars, UNCHANGED <<Moved, pc, verdict>>, pc = "over" => UNCHANGED trouble,
         Heard'
  PROVE  Course'
<1>1. Placed'
  BY DEF IInv, Placed, Moved, InDoubt, Buildable
<1>2. Reported'
  BY DEF IInv, Reported, Moved, Failures
<1>3. StoredWhenGreen'
  <2>1. CASE verdict = "green"
    <3>2. setting.publishing => Len(items) = Len(Symbols)
      BY <2>1 DEF IInv, Placed
    <3> QED
      BY <2>1, <3>2, ListFacts, DocumentsStay DEF IInv, StoredWhenGreen, Moved
  <2>2. CASE verdict # "green"
    BY <2>2 DEF StoredWhenGreen
  <2> QED
    BY <2>1, <2>2
<1>4. CleanRunIsGreen'
  BY DEF IInv, CleanRunIsGreen, Moved
<1> QED
  BY <1>1, <1>2, <1>3, <1>4 DEF Course

LEMMA BeginStep ==
  ASSUME IInv, Begin
  PROVE  Lists' /\ RecordsAreKept' /\ Course'
<1> USE DEF Begin
<1>1. << >> \in Seq(Results) /\ << >> \in Seq(Ids) /\ Len(<< >>) = 0
  BY EmptySeq
<1>2. Lists'
  BY <1>1, NothingConfirmed, SymbolsFacts DEF Lists, Ordered
<1>3. RecordsAreKept'
  BY <1>1 DEF RecordsAreKept, Range
<1>4. Placed' /\ Reported' /\ StoredWhenGreen' /\ CleanRunIsGreen'
  BY <1>1 DEF Placed, Requesting, Reported, StoredWhenGreen, CleanRunIsGreen
<1>5. Heard'
  BY DEF Heard, IInv, Ended
<1> QED
  BY <1>2, <1>3, <1>4, <1>5 DEF Course

LEMMA EvaluateStep ==
  ASSUME IInv, Evaluate
  PROVE  Lists' /\ RecordsAreKept' /\ Course'
<1> DEFINE i == <<Symbols[Len(items) + 1], today>>
<1>1. i \in Ids /\ i[1] = Symbols[Len(items) + 1]
  BY SymbolsFacts, ListFacts DEF Evaluate, Ids, IInv, TypeOK
<1>2. PICK x : items' = Append(items, x) /\ x \in {Item(i), FailedItem(i)}
  BY DEF Evaluate
<1>3. x.id = i /\ x \in Results
  BY <1>1, <1>2, ItemFacts DEF IInv, TypeOK
<1>4. /\ items' \in Seq(Results) /\ Len(items') = Len(items) + 1
      /\ items'[Len(items) + 1] = x
      /\ \A k \in 1 .. Len(items) : items'[k] = items[k]
  <2>1. items \in Seq(Results)
    BY DEF IInv, Ordered
  <2> QED
    BY <1>2, <1>3, <2>1, AppendProperties
<1> HIDE DEF i
<1>5. Ordered(items')
  <2>1. Len(items) + 1 <= Len(Symbols)
    BY ListFacts, SymbolsFacts DEF Evaluate
  <2>2. ASSUME NEW k \in 1 .. Len(items') PROVE items'[k].id[1] = Symbols[k]
    <3>1. CASE k = Len(items) + 1
      BY <3>1, <1>1, <1>3, <1>4
    <3>2. CASE k \in 1 .. Len(items)
      BY <3>2, <1>4 DEF IInv, Ordered
    <3> QED
      BY <3>1, <3>2, <1>4, ListFacts
  <2> QED
    BY <1>4, <2>1, <2>2 DEF Ordered
<1>6. pc' = "evaluate" /\ UNCHANGED <<setting, place, records, sent, rows, verdict, answer>>
        /\ pc = "evaluate"
  BY DEF Evaluate, database
<1>7. place = 1 /\ records = << >> /\ sent = << >> /\ verdict = "open"
  BY <1>6 DEF IInv, Placed, TypeOK
<1>8. Confirmed(items', place', records')
  BY <1>6, <1>7, NothingConfirmed
<1>9. RecordsAreKept'
  BY <1>6 DEF IInv, RecordsAreKept
<1>10. Placed' /\ Reported' /\ StoredWhenGreen' /\ CleanRunIsGreen'
  BY <1>4, <1>6, <1>7, ListFacts DEF Placed, Requesting, Reported, StoredWhenGreen,
     CleanRunIsGreen
<1>11. Heard'
  BY <1>6 DEF Heard, IInv
<1> QED
  BY <1>5, <1>6, <1>8, <1>9, <1>10, <1>11 DEF Lists, Course, IInv

LEMMA OpenStep ==
  ASSUME IInv, Open
  PROVE  Lists' /\ RecordsAreKept' /\ Course'
<1>1. UNCHANGED Moved
  BY DEF Open, Moved
<1>2. Lists' /\ RecordsAreKept'
  BY <1>1, ListsKept DEF Next, Step
<1>3. Course'
  BY <1>1, ListFacts DEF Open, Evaluated, Moved, Course, IInv, TypeOK, Placed, Requesting, Heard,
     Reported, StoredWhenGreen, CleanRunIsGreen
<1> QED
  BY <1>2, <1>3

LEMMA RefuseStep ==
  ASSUME IInv, Refuse
  PROVE  Lists' /\ RecordsAreKept' /\ Course'
<1>1. UNCHANGED Moved /\ Abort /\ pc = "publish" /\ place \in 1 .. Len(items)
  BY PlaceFacts, ListFacts DEF Refuse, Moved
<1>2. Lists' /\ RecordsAreKept'
  BY <1>1, ListsKept DEF Next, Step
<1>3. sent = records /\ setting.publishing
  BY <1>1 DEF IInv, Placed, Requesting
<1>4. setting.configured => ~items[place].diagnosed
  BY DEF Refuse, Buildable
<1>5. Course'
  BY <1>1, <1>3, <1>4, ListFacts, RedStep
<1> QED
  BY <1>2, <1>5

LEMMA GiveUpStep ==
  ASSUME IInv, GiveUp \/ Cancel
  PROVE  Lists' /\ RecordsAreKept' /\ Course'
<1>1. UNCHANGED Moved /\ Abort /\ pc # "idle" /\ pc # "over" /\ trouble'
  BY DEF GiveUp, Cancel, Ended, Moved
<1>2. Lists' /\ RecordsAreKept'
  BY <1>1, ListsKept DEF Next, Step
<1>3. sent = records \/ InDoubt
  BY <1>1 DEF IInv, TypeOK, Places, Placed, Requesting
<1>4. Course'
  BY <1>1, <1>3, RedStep
<1> QED
  BY <1>2, <1>4

LEMMA HearStep ==
  ASSUME IInv, Hear
  PROVE  Lists' /\ RecordsAreKept' /\ Course'
<1>1. UNCHANGED Moved /\ pc = "posting" /\ answer \in {"acknowledged", "replayed", "bad"}
        /\ UNCHANGED <<trouble, rows>>
  BY DEF Hear, Moved, database
<1>2. Lists' /\ RecordsAreKept'
  BY <1>1, ListsKept DEF Next, Step
<1>3. InDoubt /\ setting.publishing /\ Buildable(items[place]) /\ setting.configured
        /\ Len(items) = Len(Symbols) /\ place <= Len(items) + 1
  BY <1>1 DEF IInv, Placed, Requesting
<1>4. CASE answer = "bad"
  <2>1. trouble' /\ Abort
    BY <1>1, <1>4 DEF Hear, IInv, Heard
  <2> QED
    BY <1>1, <1>2, <1>3, <2>1, RedStep
<1>5. CASE answer # "bad"
  <2>1. pc' = "reading" /\ answer' = "none" /\ verdict' = verdict /\ verdict = "open"
    BY <1>1, <1>5 DEF Hear, IInv, TypeOK
  <2>2. trouble \/ rows[items[place].id] = "document"
    BY <1>1, <1>5 DEF IInv, Heard
  <2>3. Placed' /\ Heard' /\ Reported' /\ StoredWhenGreen' /\ CleanRunIsGreen'
    BY <1>1, <1>3, <2>1, <2>2 DEF Moved, Placed, InDoubt, Buildable, Requesting, Heard, Reported,
       StoredWhenGreen, CleanRunIsGreen
  <2> QED
    BY <1>2, <2>3 DEF Course
<1> QED
  BY <1>4, <1>5

LEMMA HandleStep ==
  ASSUME IInv, Handle
  PROVE  Lists' /\ RecordsAreKept' /\ Course'
<1>1. UNCHANGED <<Moved, pc, verdict>> /\ pc = "posting"
  BY DEF Handle, Moved
<1>2. Lists' /\ RecordsAreKept'
  BY <1>1, ListsKept DEF Next, Moved
<1>3. items[place].id \in Ids
  BY <1>1, PlaceFacts DEF Requesting
<1>4. Heard'
  BY <1>1, <1>3 DEF Handle, Heard, Moved, IInv, TypeOK
<1>5. Course'
  BY <1>1, <1>4, AsideStep DEF Next
<1> QED
  BY <1>2, <1>5

LEMMA OutsideStep ==
  ASSUME IInv, HandleLate \/ NewBars \/ UNCHANGED vars
  PROVE  Lists' /\ RecordsAreKept' /\ Course'
<1>1. UNCHANGED <<Moved, pc, verdict, trouble, answer>> /\ [Next]_vars
  BY DEF HandleLate, NewBars, vars, local, Moved, Next
<1>2. Lists' /\ RecordsAreKept'
  BY <1>1, ListsKept DEF Moved
<1>3. Heard'
  <2>1. pc \in Requesting => items[place].id \in Ids
    BY PlaceFacts
  <2> QED
    BY <1>1, <2>1, DocumentsStay DEF Heard, Moved, IInv, Requesting
<1>4. Course'
  BY <1>1, <1>3, AsideStep
<1> QED
  BY <1>2, <1>4

LEMMA SkipStep ==
  ASSUME IInv, Skip
  PROVE  Lists' /\ RecordsAreKept' /\ Course'
<1>1. /\ pc = "publish" /\ pc' = pc /\ place \in 1 .. Len(items)
      /\ items[place].status = "failed" /\ place' = place + 1
      /\ UNCHANGED <<setting, items, answer, records, sent, verdict, trouble, rows>>
  BY PlaceFacts, ListFacts DEF Skip, database
<1>2. Confirmed(items, place + 1, records)
  BY <1>1, PlaceFacts, FailedIsPassedOver DEF IInv
<1>3. Lists' /\ RecordsAreKept'
  BY <1>1, <1>2 DEF Lists, IInv, Ordered, RecordsAreKept
<1>4. Course'
  BY <1>1, ListFacts DEF Course, IInv, TypeOK, Placed, Requesting, Heard, Reported,
     StoredWhenGreen, CleanRunIsGreen
<1> QED
  BY <1>3, <1>4

LEMMA PostStep ==
  ASSUME IInv, Post
  PROVE  Lists' /\ RecordsAreKept' /\ Course'
<1>1. /\ pc = "publish" /\ pc' = "posting" /\ place \in 1 .. Len(items)
      /\ items[place].status # "failed" /\ Buildable(items[place]) /\ setting.configured
      /\ sent' = Append(sent, items[place].id) /\ answer' = "pending"
      /\ UNCHANGED <<setting, items, place, records, verdict, trouble, rows>>
  BY PlaceFacts, ListFacts DEF Post, database
<1>2. sent = records /\ setting.publishing /\ Len(items) = Len(Symbols)
  BY <1>1 DEF IInv, Placed, Requesting
<1>3. sent' \in Seq(Ids)
  BY <1>1, ListFacts, AppendProperties DEF IInv
<1>4. Lists' /\ RecordsAreKept'
  BY <1>1, <1>3 DEF Lists, IInv, RecordsAreKept
<1>5. Course'
  BY <1>1, <1>2, ListFacts DEF Course, IInv, TypeOK, Placed, InDoubt, Buildable, Requesting,
     Heard, Reported, StoredWhenGreen, CleanRunIsGreen
<1> QED
  BY <1>4, <1>5

LEMMA ReadBackStep ==
  ASSUME IInv, ReadBack
  PROVE  Lists' /\ RecordsAreKept' /\ Course'
<1> DEFINE i == items[place].id
<1>1. /\ pc = "reading" /\ place \in 1 .. Len(items) /\ i \in Ids
      /\ UNCHANGED <<setting, items, sent, trouble, rows>>
  BY PlaceFacts DEF ReadBack, database, Requesting
<1>2. InDoubt /\ setting.publishing /\ Len(items) = Len(Symbols) /\ answer = "none"
  BY <1>1 DEF IInv, Placed, Requesting, Heard
<1>3. CASE rows[i] = "document"
  <2>1. /\ records' = Append(records, i) /\ place' = place + 1 /\ pc' = "publish"
        /\ UNCHANGED <<answer, verdict>>
    BY <1>3 DEF ReadBack
  <2>2. Confirmed(items, place + 1, Append(records, i))
    BY <1>1, <1>2, PlaceFacts, OneMoreConfirmed DEF IInv, InDoubt
  <2>3. Lists'
    BY <1>1, <2>1, <2>2 DEF Lists, IInv, Ordered
  <2>4. RecordsAreKept'
    <3>1. /\ DOMAIN records' = 1 .. Len(records) + 1 /\ records'[Len(records) + 1] = i
          /\ \A k \in 1 .. Len(records) : records'[k] = records[k]
      BY <1>1, <2>1, ListFacts, AppendProperties, LenProperties
    <3> QED
      BY <1>1, <1>3, <3>1, ListFacts DEF IInv, RecordsAreKept, Range
  <2>5. Course'
    BY <1>1, <1>2, <2>1, ListFacts DEF Course, IInv, TypeOK, Placed, InDoubt, Requesting,
       Heard, Reported, StoredWhenGreen, CleanRunIsGreen
  <2> QED
    BY <2>3, <2>4, <2>5
<1>4. CASE rows[i] # "document"
  <2>1. Abort /\ UNCHANGED Moved
    BY <1>1, <1>4 DEF ReadBack, Moved
  <2>2. Lists' /\ RecordsAreKept'
    BY <2>1, ListsKept DEF Next, Step
  <2>3. trouble'
    BY <1>1, <1>4 DEF IInv, Heard
  <2> QED
    BY <1>1, <1>2, <2>1, <2>2, <2>3, RedStep
<1> QED
  BY <1>3, <1>4

LEMMA FailureIsTrouble ==
  ASSUME IInv, Failures # {}
  PROVE  trouble
<1>1. PICK k \in DOMAIN items : items[k].status = "failed"
  BY DEF Failures
<1>2. items[k].id \in Ids
  BY <1>1, ListFacts
<1>3. Item(items[k].id).status # "failed"
  BY <1>2, ItemFacts DEF IInv, TypeOK
<1> QED
  BY <1>1, <1>3 DEF IInv, TypeOK

LEMMA WriteStep ==
  ASSUME IInv, Write
  PROVE  Lists' /\ RecordsAreKept' /\ Course'
<1>1. /\ UNCHANGED <<Moved, answer, trouble, rows>>
      /\ pc \in {"evaluate", "publish"} /\ Len(items) = Len(Symbols)
  BY DEF Write, Evaluated, Published, Moved, database, IInv, Placed
<1>2. Lists' /\ RecordsAreKept'
  BY <1>1, ListsKept DEF Next, Step
<1>3. answer = "none" /\ sent = records /\ verdict = "open"
  BY <1>1 DEF IInv, TypeOK, Heard, Placed
<1>4. setting.publishing => place = Len(items) + 1
  BY PlaceFacts, ListFacts DEF Write, Published, IInv, Placed
<1>5. CASE Failures = {}
  <2>1. pc' = "audit" /\ verdict' = verdict
    BY <1>5 DEF Write
  <2>2. Failures' = {}
    BY <1>1, <1>5 DEF Moved, Failures
  <2> QED
    BY <1>1, <1>2, <1>3, <1>4, <2>1, <2>2 DEF Course, Moved, IInv, Placed, Requesting, Heard,
       Reported, StoredWhenGreen, CleanRunIsGreen
<1>6. CASE Failures # {}
  <2>1. Abort
    BY <1>1, <1>3, <1>6 DEF Write, Abort
  <2> QED
    BY <1>1, <1>2, <1>3, <1>6, <2>1, FailureIsTrouble, RedStep
<1> QED
  BY <1>5, <1>6

(* The audit of a run without failures that published all it should.       *)
LEMMA AuditedIsStored ==
  ASSUME IInv, pc = "audit", setting.publishing
  PROVE  \A k \in 1 .. Len(Symbols) :
           items[k].status # "failed" /\ rows[items[k].id] = "document"
<1> SUFFICES ASSUME NEW k \in 1 .. Len(Symbols)
             PROVE  items[k].status # "failed" /\ rows[items[k].id] = "document"
  OBVIOUS
<1>1. Len(items) = Len(Symbols) /\ place = Len(items) + 1 /\ Failures = {}
  BY DEF IInv, Placed, Reported
<1>2. items[k].status # "failed" /\ k \in 1 .. place - 1
  BY <1>1, ListFacts DEF Failures
<1>3. PICK l \in 1 .. Len(records) : records[l] = items[k].id
  BY <1>2 DEF IInv, Confirmed
<1> QED
  BY <1>2, <1>3, ListFacts DEF IInv, RecordsAreKept, Range

LEMMA CompleteWhenAudited ==
  ASSUME IInv, pc = "audit", setting.publishing
  PROVE  Complete
<1>1. Len(items) = Len(Symbols) /\ place = Len(items) + 1 /\ Failures = {}
  BY DEF IInv, Placed, Reported
<1>2. \A m \in 1 .. place - 1 : items[m].status # "failed"
  BY <1>1, ListFacts DEF Failures
<1>3. Len(records) = Len(items) /\ Len(records) # 0
  BY <1>1, <1>2, SymbolsFacts DEF IInv, Confirmed
<1>4. records # << >>
  BY <1>3, EmptySeq
<1>5. \A k, l \in 1 .. Len(records) : k < l => records[k] # records[l]
  <2> SUFFICES ASSUME NEW k \in 1 .. Len(records), NEW l \in 1 .. Len(records), k < l
               PROVE  records[k] # records[l]
    OBVIOUS
  <2>1. PICK m \in 1 .. place - 1, j \in 1 .. place - 1 :
          m < j /\ records[k] = items[m].id /\ records[l] = items[j].id
    BY DEF IInv, Confirmed
  <2>2. m \in 1 .. Len(items) /\ j \in 1 .. Len(items) /\ m # j
    BY <1>1, <2>1, ListFacts
  <2> QED
    BY <2>1, <2>2, IdsApart
<1>6. IsInjective(records)
  <2>1. ASSUME NEW k \in DOMAIN records, NEW l \in DOMAIN records, records[k] = records[l]
        PROVE  k = l
    BY <1>5, <2>1, ListFacts
  <2> QED
    BY <2>1 DEF IsInjective
<1>7. report.items = items /\ report.storage = Storage
  BY DEF IInv, TypeOK
<1>8. Storage = [enabled |-> TRUE, status |-> "stored", count |-> Len(records),
                 skipped |-> 0, records |-> records]
  BY <1>1, <1>4, FS_EmptySet DEF Storage
<1> QED
  BY <1>3, <1>6, <1>7, <1>8 DEF Complete

LEMMA AuditStep ==
  ASSUME IInv, Audit
  PROVE  Lists' /\ RecordsAreKept' /\ Course'
<1>1. /\ UNCHANGED <<Moved, answer, trouble, rows>> /\ pc = "audit" /\ pc' = "over"
      /\ verdict' = IF AuditPasses THEN "green" ELSE "red"
  BY DEF Audit, Moved, database
<1>2. Lists' /\ RecordsAreKept'
  BY <1>1, ListsKept DEF Next, Step
<1>3. /\ answer = "none" /\ sent = records /\ Len(items) = Len(Symbols)
      /\ ~setting.publishing => place = 1 /\ records = << >>
  BY <1>1 DEF IInv, Heard, Placed
<1>4. StoredWhenGreen'
  BY <1>1, <1>3, AuditedIsStored DEF StoredWhenGreen, Moved
<1>5. ASSUME \A k \in DOMAIN items : items[k].diagnosed PROVE AuditPasses
  <2>1. /\ report.items = items /\ report.storage = Storage /\ report.status = "success"
    BY <1>1 DEF IInv, TypeOK
  <2>2. items # << >>
    BY <1>3, SymbolsFacts, EmptySeq
  <2>3. ~setting.publishing => Disabled
    BY <2>1 DEF Disabled, Storage
  <2> QED
    BY <1>1, <1>5, <2>1, <2>2, <2>3, CompleteWhenAudited DEF AuditPasses, SafeReport
<1>6. CleanRunIsGreen'
  BY <1>1, <1>5 DEF CleanRunIsGreen, Moved
<1>7. Placed' /\ Heard' /\ Reported'
  BY <1>1, <1>3 DEF Placed, Heard, Reported, Requesting, Moved, IInv
<1> QED
  BY <1>2, <1>4, <1>6, <1>7 DEF Course

-----------------------------------------------------------------------------
(* The theorems.                                                           *)

LEMMA InitIInv == Init => IInv
<1> SUFFICES ASSUME Init PROVE IInv
  OBVIOUS
<1> USE DEF Init
<1>1. << >> \in Seq(Results) /\ << >> \in Seq(Ids) /\ Len(<< >>) = 0 /\ DOMAIN << >> = {}
  BY EmptySeq
<1>2. TypeOK
  <2>1. today \in 1 .. MaxDay /\ runs \in 0 .. MaxRuns /\ place \in 1 .. Len(Symbols) + 1
    BY SymbolsFacts, ResearchAssumption
  <2>2. rows \in [Ids -> Rows \cup {None}] /\ late \subseteq Ids
    OBVIOUS
  <2>3. verdict = "open" /\ pc = "idle" /\ answer = "none" /\ trouble = FALSE
    OBVIOUS
  <2> QED
    BY <1>1, <2>1, <2>2, <2>3 DEF TypeOK, Places
<1>3. Ordered(items) /\ Confirmed(items, place, records) /\ sent \in Seq(Ids)
  BY <1>1, NothingConfirmed, SymbolsFacts DEF Ordered
<1>4. Placed /\ Heard /\ Reported
  BY <1>1 DEF Placed, Requesting, Heard, Reported
<1>5. StoredWhenGreen /\ RecordsAreKept /\ CleanRunIsGreen
  BY <1>1 DEF StoredWhenGreen, RecordsAreKept, CleanRunIsGreen, Range
<1> QED
  BY <1>2, <1>3, <1>4, <1>5 DEF IInv

LEMMA StepIInv == IInv /\ [Next]_vars => IInv'
<1> SUFFICES ASSUME IInv, [Next]_vars PROVE IInv'
  OBVIOUS
<1>1. Lists' /\ RecordsAreKept' /\ Course'
  BY BeginStep, EvaluateStep, OpenStep, RefuseStep, GiveUpStep, HearStep, HandleStep,
     OutsideStep, SkipStep, PostStep, ReadBackStep, WriteStep, AuditStep DEF Next, Step
<1> QED
  BY <1>1, TypeStep DEF IInv, Lists, Course

THEOREM InvariantHolds == Spec => []IInv
<1> QED
  BY InitIInv, StepIInv, PTL DEF Spec

(* Every state of the sealed research is one its variables may have, for   *)
(* any symbols, gates and settings: a run has a verdict exactly when it is *)
(* over, and what is audited is a report of its own items                  *)
(* (pre_holdout_research.py:824-858).                                      *)
THEOREM TypesHold == Spec => []TypeOK
<1>1. IInv => TypeOK
  BY DEF IInv
<1> QED
  BY InvariantHolds, <1>1, PTL

LEMMA PostedInOrder ==
  ASSUME IInv
  PROVE  PostedOnceInOrder
<1>1. sent = records \/ InDoubt
  BY DEF IInv, TypeOK, Places, Placed, Requesting
<1>2. place <= Len(items) + 1 /\ place \in Nat \ {0}
  BY PlaceFacts DEF IInv, Placed
<1>3. 1 .. place - 1 \subseteq 1 .. Len(items)
  BY <1>2, ListFacts
<1>4. InDoubt => /\ place \in 1 .. Len(items) /\ items[place].status # "failed"
                 /\ Len(sent) = Len(records) + 1 /\ sent[Len(records) + 1] = items[place].id
                 /\ \A k \in 1 .. Len(records) : sent[k] = records[k]
  <2> SUFFICES ASSUME InDoubt
               PROVE  /\ place \in 1 .. Len(items) /\ items[place].status # "failed"
                      /\ Len(sent) = Len(records) + 1
                      /\ sent[Len(records) + 1] = items[place].id
                      /\ \A k \in 1 .. Len(records) : sent[k] = records[k]
    OBVIOUS
  <2>1. place \in 1 .. Len(items) /\ items[place].id \in Ids
    BY <1>2, ListFacts DEF InDoubt
  <2> QED
    BY <2>1, ListFacts, AppendProperties DEF InDoubt
(* What is sent: an id that is confirmed, or last the one in doubt.        *)
<1>5. ASSUME NEW k \in 1 .. Len(sent)
      PROVE  \/ k \in 1 .. Len(records) /\ sent[k] = records[k]
             \/ InDoubt /\ k = Len(records) + 1 /\ sent[k] = items[place].id
  <2>1. Len(records) \in Nat /\ Len(sent) \in Nat
    BY ListFacts
  <2>2. CASE sent = records
    BY <2>2
  <2>3. CASE InDoubt
    BY <1>4, <2>1, <2>3
  <2> QED
    BY <1>1, <2>2, <2>3
<1>6. ASSUME NEW k \in 1 .. Len(sent)
      PROVE  \E m \in 1 .. Len(items) :
               /\ sent[k] = items[m].id /\ items[m].status # "failed"
               /\ m < place \/ (m = place /\ InDoubt)
  <2>1. CASE k \in 1 .. Len(records) /\ sent[k] = records[k]
    <3>1. PICK m \in 1 .. place - 1 : records[k] = items[m].id /\ items[m].status # "failed"
      BY <2>1 DEF IInv, Confirmed
    <3> QED
      BY <1>2, <1>3, <2>1, <3>1
  <2>2. CASE InDoubt /\ k = Len(records) + 1 /\ sent[k] = items[place].id
    BY <1>4, <2>2
  <2> QED
    BY <1>5, <2>1, <2>2
<1>7. Range(sent) \subseteq {x.id : x \in Range(items)}
  BY <1>6, ListFacts DEF Range
<1>8. ASSUME NEW k \in 1 .. Len(sent), NEW l \in 1 .. Len(sent), k < l
      PROVE  \E m, n \in 1 .. Len(items) :
               m < n /\ sent[k] = items[m].id /\ sent[l] = items[n].id
  <2>1. k \in 1 .. Len(records) /\ sent[k] = records[k]
    <3>1. Len(records) \in Nat /\ Len(sent) \in Nat
      BY ListFacts
    <3>2. CASE sent = records
      BY <3>2
    <3>3. CASE InDoubt
      BY <1>4, <1>8, <3>1, <3>3
    <3> QED
      BY <1>1, <3>2, <3>3
  <2>2. CASE l \in 1 .. Len(records) /\ sent[l] = records[l]
    <3>1. PICK m \in 1 .. place - 1, n \in 1 .. place - 1 :
            m < n /\ records[k] = items[m].id /\ records[l] = items[n].id
      BY <1>8, <2>1, <2>2 DEF IInv, Confirmed
    <3> QED
      BY <1>3, <2>1, <2>2, <3>1
  <2>3. CASE InDoubt /\ sent[l] = items[place].id
    <3>1. PICK m \in 1 .. place - 1 : records[k] = items[m].id
      BY <2>1 DEF IInv, Confirmed
    <3>2. m \in 1 .. Len(items) /\ place \in 1 .. Len(items) /\ m < place
      BY <1>2, <1>3, <1>4, <2>3, <3>1
    <3> QED
      BY <2>1, <2>3, <3>1, <3>2
  <2> QED
    BY <1>5, <2>2, <2>3
<1>9. ASSUME NEW n \in 1 .. Len(items), items[n].id \in Range(sent)
      PROVE  /\ items[n].status # "failed"
             /\ \A m \in 1 .. n - 1 :
                  items[m].status # "failed" => items[m].id \in Range(records)
  <2>1. PICK k \in 1 .. Len(sent) : sent[k] = items[n].id
    BY <1>9, ListFacts DEF Range
  <2>2. PICK l \in 1 .. Len(items) : /\ sent[k] = items[l].id /\ items[l].status # "failed"
                                   /\ l <= place
    BY <1>2, <1>6, ListFacts
  <2>3. l = n
    BY <2>1, <2>2, IdsApart
  <2>4. ASSUME NEW m \in 1 .. n - 1, items[m].status # "failed"
        PROVE  items[m].id \in Range(records)
    <3>1. m \in 1 .. place - 1
      BY <1>2, <2>2, <2>3, <2>4, ListFacts
    <3>2. PICK j \in 1 .. Len(records) : records[j] = items[m].id
      BY <2>4, <3>1 DEF IInv, Confirmed
    <3> QED
      BY <3>2, ListFacts DEF Range
  <2> QED
    BY <2>2, <2>3, <2>4
<1>10. sent = records \/ (pc # "publish" /\ \E i \in Ids : sent = Append(records, i))
  BY <1>1, <1>4, ListFacts DEF InDoubt, IInv, Placed
<1>11. DOMAIN sent = 1 .. Len(sent) /\ DOMAIN items = 1 .. Len(items)
  BY ListFacts
<1>12. \A k, l \in DOMAIN sent : k < l =>
         \E m, n \in DOMAIN items :
           m < n /\ sent[k] = items[m].id /\ sent[l] = items[n].id
  BY <1>8, <1>11
<1>13. \A n \in DOMAIN items : items[n].id \in Range(sent) =>
         /\ items[n].status # "failed"
         /\ \A m \in 1 .. n - 1 :
              items[m].status # "failed" => items[m].id \in Range(records)
  BY <1>9, <1>11
<1> QED
  BY <1>7, <1>10, <1>12, <1>13 DEF PostedOnceInOrder

(* For any symbols, gates and settings, however runs are cancelled and     *)
(* repeated and whatever the database answers: green means stored, records *)
(* are kept, evidence is posted once and in order up to the first in       *)
(* doubt, and a run that nothing happens to is green unless a symbol has   *)
(* no diagnostics (phase17_research_storage.py, phase18_research_publish_  *)
(* audit.py).                                                              *)
THEOREM GreenStaysStored == Spec => []GreenIsStored
<1>1. IInv => GreenIsStored
  BY PostedInOrder DEF IInv, GreenIsStored
<1> QED
  BY InvariantHolds, <1>1, PTL

-----------------------------------------------------------------------------
(* Backtests on request: what a caller was told of a symbol.               *)

IsList(list) == \E S : list \in Seq(S)

IsStored(row) == \E r \in stored : Agrees(r, row)

OutcomeIsTrue(c, k, x) ==
  /\ x.symbol = request[c].symbols[k].name
  /\ x.id = RunId(c, x.symbol)
  /\ x.status \in {"success", "failed"} /\ x.published \in BOOLEAN
  /\ x.published => x.status = "success" /\ IsStored(Row(c, x.symbol))
  /\ x.status = "success" /\ request[c].publish => x.published

Runnable(q) == Accepted(q) /\ (q.batch \/ Len(q.symbols) = 1)

Answered(c) ==
  \/ response[c] = Absent
  \/ response[c] = Failure("invalid")
  \/ response[c] = Failure("error") /\ ~request[c].batch
  \/ /\ response[c] = Summary(request[c], done[c])
     /\ Runnable(request[c]) /\ Len(done[c]) = Len(request[c].symbols)

CallerInv(c) ==
  /\ phase[c] \in {"idle", "running"}
  /\ request[c] \in Requests \cup {NoRequest}
  /\ IsList(done[c]) /\ Len(done[c]) <= Len(request[c].symbols)
  /\ \A k \in 1 .. Len(done[c]) : OutcomeIsTrue(c, k, done[c][k])
  /\ phase[c] = "running" => Runnable(request[c]) /\ response[c] = Absent
  /\ phase[c] = "idle" => Answered(c)

(* A run_id stands for one row, and the id of a symbol says which.         *)
StoredInv ==
  /\ \A r, s \in stored : r.id = s.id => r = s
  /\ \A r \in stored : r.id[1] = "symbol" => r.id = <<"symbol", r.name, r.version>>

CallsInv ==
  /\ DOMAIN phase = Callers /\ DOMAIN request = Callers /\ DOMAIN done = Callers
  /\ DOMAIN response = Callers /\ DOMAIN calls = Callers
  /\ StoredInv
  /\ \A c \in Callers : CallerInv(c)

LEMMA RequestFacts ==
  ASSUME NEW q \in Requests \cup {NoRequest}
  PROVE  /\ Len(q.symbols) \in Nat /\ DOMAIN q.symbols = 1 .. Len(q.symbols)
         /\ DOMAIN q.bars = 1 .. Len(q.bars) /\ Len(q.bars) \in Nat
         /\ q.batch \in BOOLEAN /\ q.publish \in BOOLEAN
<1>1. CASE q \in Requests
  BY <1>1, BatchAssumption, LenProperties
<1>2. CASE q = NoRequest
  <2>1. q.symbols = << >> /\ q.bars = << >> /\ q.batch = FALSE /\ q.publish = FALSE
    BY <1>2 DEF NoRequest
  <2>2. << >> \in Seq({})
    BY EmptySeq
  <2>3. Len(<< >>) \in Nat /\ DOMAIN << >> = 1 .. Len(<< >>)
    BY <2>2, LenProperties
  <2> QED
    BY <2>1, <2>3
<1> QED
  BY <1>1, <1>2

LEMMA AppendedList ==
  ASSUME NEW list, IsList(list), NEW x
  PROVE  /\ IsList(Append(list, x)) /\ Len(list) \in Nat
         /\ Len(Append(list, x)) = Len(list) + 1
         /\ Append(list, x)[Len(list) + 1] = x
         /\ \A k \in 1 .. Len(list) : Append(list, x)[k] = list[k]
<1>1. PICK S : list \in Seq(S)
  BY DEF IsList
<1>2. list \in Seq(S \cup {x}) /\ x \in S \cup {x}
  <2>1. Len(list) \in Nat /\ \A k \in 1 .. Len(list) : list[k] \in S
    BY <1>1, ElementOfSeq, LenProperties
  <2> QED
    BY <1>1, <2>1, IsASeq
<1>3. Append(list, x) \in Seq(S \cup {x})
  BY <1>2, AppendProperties
<1> QED
  BY <1>2, <1>3, AppendProperties, LenProperties DEF IsList

LEMMA EmptyList == IsList(<< >>) /\ Len(<< >>) = 0
<1>1. << >> \in Seq({})
  BY EmptySeq
<1> QED
  BY <1>1, EmptySeq DEF IsList

(* An outcome stays true while its request does and the rows are kept.     *)
LEMMA OutcomeStays ==
  ASSUME NEW c, NEW k, NEW x, OutcomeIsTrue(c, k, x), request'[c] = request[c],
         calls'[c] = calls[c], stored \subseteq stored'
  PROVE  OutcomeIsTrue(c, k, x)'
<1>1. RunId(c, x.symbol)' = RunId(c, x.symbol) /\ Row(c, x.symbol)' = Row(c, x.symbol)
  BY DEF RunId, Row
<1>2. IsStored(Row(c, x.symbol)) => IsStored(Row(c, x.symbol))'
  BY <1>1 DEF IsStored, Agrees
<1> QED
  BY <1>1, <1>2 DEF OutcomeIsTrue

LEMMA UntouchedCaller ==
  ASSUME NEW c \in Callers, CallerInv(c), phase'[c] = phase[c], request'[c] = request[c],
         done'[c] = done[c], response'[c] = response[c], calls'[c] = calls[c],
         stored \subseteq stored'
  PROVE  CallerInv(c)'
BY OutcomeStays DEF CallerInv, Answered

LEMMA RowFacts ==
  ASSUME NEW c, NEW name
  PROVE  LET row == Row(c, name) IN
           /\ row.name = name /\ row.version = BarsOf(request[c], name)
           /\ row.id[1] = "symbol" => row.id = <<"symbol", row.name, row.version>>
           /\ Agrees(row, row)
BY DEF Row, RunId, SymbolRunId, Agrees

(* The run_id of a row that is published is free, or holds what the client *)
(* takes for this row.                                                     *)
LEMMA StoredStep ==
  ASSUME StoredInv, NEW c, NEW name,
         stored' = stored \/ (~Taken(Row(c, name)) /\ stored' = With(Row(c, name)))
  PROVE  /\ StoredInv' /\ stored \subseteq stored'
         /\ ~Taken(Row(c, name)) /\ stored' = With(Row(c, name))
              => \E r \in stored' : Agrees(r, Row(c, name))
<1> DEFINE row == Row(c, name)
<1>1. CASE Holding(row.id) = {} /\ stored' = stored \cup {row}
  <2>1. /\ Agrees(row, row)
        /\ row.id[1] = "symbol" => row.id = <<"symbol", row.name, row.version>>
    BY RowFacts
  <2>2. \A r \in stored : r.id # row.id
    BY <1>1 DEF Holding
  <2> HIDE DEF row
  <2>3. StoredInv'
    BY <1>1, <2>1, <2>2 DEF StoredInv
  <2>4. \E r \in stored' : Agrees(r, row)
    BY <1>1, <2>1
  <2> QED
    BY <1>1, <2>3, <2>4 DEF row
<1>2. CASE stored' = stored /\ (Taken(row) \/ stored' # With(row) \/ Holding(row.id) # {})
  <2>1. StoredInv'
    BY <1>2 DEF StoredInv
  <2>2. ASSUME ~Taken(row), stored' = With(row) PROVE \E r \in stored' : Agrees(r, row)
    BY <1>2, <2>2 DEF Taken, Holding
  <2> QED
    BY <1>2, <2>1, <2>2
<1> QED
  BY <1>1, <1>2 DEF With

Domains ==
  /\ DOMAIN phase = Callers /\ DOMAIN request = Callers /\ DOMAIN done = Callers
  /\ DOMAIN response = Callers /\ DOMAIN calls = Callers

(* One caller moves, and the rows of the others are kept.                  *)
LEMMA OneCallerMoves ==
  ASSUME CallsInv, NEW c \in Callers, StoredInv', stored \subseteq stored', Domains',
         CallerInv(c)',
         \A q \in Callers \ {c} :
           /\ phase'[q] = phase[q] /\ request'[q] = request[q] /\ done'[q] = done[q]
           /\ response'[q] = response[q] /\ calls'[q] = calls[q]
  PROVE  CallsInv'
<1>1. \A q \in Callers \ {c} : CallerInv(q)'
  BY UntouchedCaller DEF CallsInv
<1> QED
  BY <1>1 DEF CallsInv, Domains

LEMMA RecordStep ==
  ASSUME CallsInv, NEW c \in Callers, More(c), NEW x, Record(c, x),
         UNCHANGED <<phase, request, response, calls>>, StoredInv', stored \subseteq stored',
         x.symbol = Symbol(c), x.id = RunId(c, Symbol(c)),
         x.status \in {"success", "failed"}, x.published \in BOOLEAN,
         x.published => /\ x.status = "success"
                        /\ \E r \in stored' : Agrees(r, Row(c, Symbol(c))),
         x.status = "success" /\ request[c].publish => x.published
  PROVE  CallsInv'
<1>1. CallerInv(c) /\ Domains
  BY DEF CallsInv, Domains
<1>2. /\ DOMAIN done' = Callers /\ done'[c] = Append(done[c], x)
      /\ \A q \in Callers \ {c} : done'[q] = done[q]
  BY <1>1 DEF Record, Domains
<1>3. /\ IsList(done'[c]) /\ Len(done[c]) \in Nat /\ Len(done'[c]) = Len(done[c]) + 1
      /\ done'[c][Len(done[c]) + 1] = x
      /\ \A k \in 1 .. Len(done[c]) : done'[c][k] = done[c][k]
  BY <1>1, <1>2, AppendedList DEF CallerInv
<1>4. phase[c] = "running" /\ Len(done[c]) < Len(request[c].symbols)
        /\ Len(request[c].symbols) \in Nat
  BY <1>1, RequestFacts DEF More, CallerInv
<1>5. ASSUME NEW k \in 1 .. Len(done'[c]) PROVE OutcomeIsTrue(c, k, done[c][k])'
  <2>1. CASE k = Len(done[c]) + 1
    <3>1. RunId(c, x.symbol)' = RunId(c, x.symbol) /\ Row(c, x.symbol)' = Row(c, x.symbol)
      BY DEF RunId, Row
    <3>2. x.symbol = request[c].symbols[k].name
      BY <2>1 DEF Symbol
    <3>3. x.published => x.status = "success" /\ IsStored(Row(c, x.symbol))'
      BY <3>1 DEF IsStored, Agrees
    <3> QED
      BY <1>3, <2>1, <3>1, <3>2, <3>3 DEF OutcomeIsTrue
  <2>2. CASE k \in 1 .. Len(done[c])
    <3>1. OutcomeIsTrue(c, k, done[c][k]) /\ done'[c][k] = done[c][k]
      BY <1>1, <1>3, <2>2 DEF CallerInv
    <3>2. request'[c] = request[c] /\ calls'[c] = calls[c]
      OBVIOUS
    <3> QED
      BY <3>1, <3>2, OutcomeStays
  <2> QED
    BY <1>3, <2>1, <2>2
<1>6. CallerInv(c)'
  BY <1>1, <1>3, <1>4, <1>5 DEF CallerInv
<1>7. Domains'
  BY <1>1, <1>2 DEF Domains
<1> QED
  BY <1>2, <1>6, <1>7, OneCallerMoves

LEMMA RespondStep ==
  ASSUME CallsInv, NEW c \in Callers, phase[c] = "running", NEW r, Respond(c, r),
         UNCHANGED <<request, done, calls>>, StoredInv', stored \subseteq stored',
         \/ r = Failure("error") /\ ~request[c].batch
         \/ r = Summary(request[c], done[c]) /\ Len(done[c]) = Len(request[c].symbols)
  PROVE  CallsInv'
<1>1. CallerInv(c) /\ Domains
  BY DEF CallsInv, Domains
<1>2. /\ DOMAIN phase' = Callers /\ DOMAIN response' = Callers
      /\ phase'[c] = "idle" /\ response'[c] = r
      /\ \A q \in Callers \ {c} : phase'[q] = phase[q] /\ response'[q] = response[q]
  BY <1>1 DEF Respond, Goto, Domains
<1>3. \A k \in 1 .. Len(done[c]) : OutcomeIsTrue(c, k, done[c][k])'
  BY <1>1, OutcomeStays DEF CallerInv
<1>4. CallerInv(c)'
  BY <1>1, <1>2, <1>3 DEF CallerInv, Answered
<1>5. Domains'
  BY <1>1, <1>2 DEF Domains
<1> QED
  BY <1>2, <1>4, <1>5, OneCallerMoves

LEMMA CallStep ==
  ASSUME CallsInv, NEW c \in Callers, Call(c)
  PROVE  CallsInv'
<1>1. CallerInv(c) /\ Domains /\ StoredInv
  BY DEF CallsInv, Domains
<1>2. /\ calls' = [calls EXCEPT ![c] = @ + 1] /\ done' = [done EXCEPT ![c] = << >>]
      /\ UNCHANGED stored
  BY DEF Call
<1>3. PICK q \in Requests :
        /\ request' = [request EXCEPT ![c] = q]
        /\ IF Accepted(q) /\ (q.batch \/ Len(q.symbols) = 1)
           THEN Goto(c, "running") /\ response' = [response EXCEPT ![c] = Absent]
           ELSE Respond(c, Failure("invalid"))
  BY DEF Call
<1>4. request'[c] = q /\ done'[c] = << >> /\ Len(q.symbols) \in Nat
  BY <1>1, <1>2, <1>3, RequestFacts DEF Domains
<1>5. \/ Runnable(q) /\ phase'[c] = "running" /\ response'[c] = Absent
      \/ phase'[c] = "idle" /\ response'[c] = Failure("invalid")
  BY <1>1, <1>3 DEF Domains, Goto, Respond, Runnable
<1>6. CallerInv(c)'
  BY <1>4, <1>5, EmptyList DEF CallerInv, Answered
<1>7. Domains'
  BY <1>1, <1>2, <1>3 DEF Domains, Goto, Respond
<1>8. \A p \in Callers \ {c} :
        /\ phase'[p] = phase[p] /\ request'[p] = request[p] /\ done'[p] = done[p]
        /\ response'[p] = response[p] /\ calls'[p] = calls[p]
  BY <1>1, <1>2, <1>3 DEF Domains, Goto, Respond
<1>9. StoredInv'
  BY <1>1, <1>2 DEF StoredInv
<1> QED
  BY <1>2, <1>6, <1>7, <1>8, <1>9, OneCallerMoves

LEMMA RaiseStep ==
  ASSUME CallsInv, NEW c \in Callers, More(c), Raise(c), UNCHANGED <<request, calls>>,
         StoredInv', stored \subseteq stored'
  PROVE  CallsInv'
<1>1. request[c].batch \in BOOLEAN /\ phase[c] = "running"
  BY RequestFacts DEF CallsInv, CallerInv, More
<1>2. CASE request[c].batch
  <2> DEFINE x == Outcome(c, "failed", FALSE, "failed")
  <2>1. Record(c, x) /\ UNCHANGED <<phase, response>>
    BY <1>2 DEF Raise
  <2>2. /\ x.symbol = Symbol(c) /\ x.id = RunId(c, Symbol(c))
        /\ x.status = "failed" /\ x.published = FALSE
    BY DEF Outcome
  <2> HIDE DEF x
  <2> QED
    BY <2>1, <2>2, RecordStep
<1>3. CASE ~request[c].batch
  <2>1. Respond(c, Failure("error")) /\ UNCHANGED done
    BY <1>3 DEF Raise
  <2> QED
    BY <1>1, <1>3, <2>1, RespondStep
<1> QED
  BY <1>1, <1>2, <1>3

LEMMA ProgressStep ==
  ASSUME CallsInv, NEW c \in Callers, Progress(c)
  PROVE  CallsInv'
<1>1. StoredInv
  BY DEF CallsInv
<1>2. CASE SimulationFails(c)
  <2>1. StoredInv' /\ stored \subseteq stored'
    BY <1>1, <1>2 DEF SimulationFails, StoredInv
  <2> QED
    BY <1>2, <2>1, RaiseStep DEF SimulationFails
<1>3. CASE Simulated(c)
  <2> DEFINE x == Outcome(c, "success", FALSE, "skipped")
  <2>1. StoredInv' /\ stored \subseteq stored'
    BY <1>1, <1>3 DEF Simulated, StoredInv
  <2>2. /\ x.symbol = Symbol(c) /\ x.id = RunId(c, Symbol(c))
        /\ x.status = "success" /\ x.published = FALSE
    BY DEF Outcome
  <2>3. Record(c, x) /\ More(c) /\ ~request[c].publish
          /\ UNCHANGED <<phase, request, response, calls>>
    BY <1>3 DEF Simulated
  <2> HIDE DEF x
  <2> QED
    BY <2>1, <2>2, <2>3, RecordStep
<1>4. CASE PublishConfirmed(c)
  <2> DEFINE x == Outcome(c, "success", TRUE, "success")
  <2>1. /\ ~Taken(Row(c, Symbol(c))) /\ stored' = With(Row(c, Symbol(c)))
        /\ Record(c, x) /\ More(c) /\ UNCHANGED <<phase, request, response, calls>>
    BY <1>4 DEF PublishConfirmed
  <2>2. /\ StoredInv' /\ stored \subseteq stored'
        /\ \E r \in stored' : Agrees(r, Row(c, Symbol(c)))
    BY <1>1, <2>1, StoredStep
  <2>3. /\ x.symbol = Symbol(c) /\ x.id = RunId(c, Symbol(c))
        /\ x.status = "success" /\ x.published = TRUE
    BY DEF Outcome
  <2> HIDE DEF x
  <2> QED
    BY <2>1, <2>2, <2>3, RecordStep
<1>5. CASE PublishFails(c)
  <2>1. \/ stored' = stored
        \/ ~Taken(Row(c, Symbol(c))) /\ stored' = With(Row(c, Symbol(c)))
    BY <1>5 DEF PublishFails
  <2>2. StoredInv' /\ stored \subseteq stored'
    BY <1>1, <2>1, StoredStep
  <2> QED
    BY <1>5, <2>2, RaiseStep DEF PublishFails
<1>6. CASE PublishSkipped(c)
  <2>1. StoredInv' /\ stored \subseteq stored'
    BY <1>1, <1>6 DEF PublishSkipped, StoredInv
  <2>2. CASE request[c].batch
    BY <1>6, <2>1, <2>2, RaiseStep DEF PublishSkipped
  <2>3. CASE ~request[c].batch
    <3> DEFINE x == Outcome(c, "failed", FALSE, "skipped")
    <3>1. Record(c, x) /\ More(c) /\ UNCHANGED <<phase, request, response, calls>>
      BY <1>6, <2>3 DEF PublishSkipped
    <3>2. /\ x.symbol = Symbol(c) /\ x.id = RunId(c, Symbol(c))
          /\ x.status = "failed" /\ x.published = FALSE
      BY DEF Outcome
    <3> HIDE DEF x
    <3> QED
      BY <2>1, <3>1, <3>2, RecordStep
  <2> QED
    BY <2>2, <2>3
<1>7. CASE Finish(c)
  <2>1. StoredInv' /\ stored \subseteq stored'
    BY <1>1, <1>7 DEF Finish, StoredInv
  <2> QED
    BY <1>7, <2>1, RespondStep DEF Finish
<1> QED
  BY <1>2, <1>3, <1>4, <1>5, <1>6, <1>7 DEF Progress

LEMMA InitCallsInv == CallsInit => CallsInv
<1> SUFFICES ASSUME CallsInit PROVE CallsInv
  OBVIOUS
<1>1. StoredInv
  BY DEF CallsInit, StoredInv
<1>2. ASSUME NEW c \in Callers PROVE CallerInv(c)
  <2>1. Len(NoRequest.symbols) = 0
    BY EmptyList DEF NoRequest
  <2> QED
    BY <2>1, EmptyList DEF CallsInit, CallerInv, Answered
<1> QED
  BY <1>1, <1>2 DEF CallsInit, CallsInv

LEMMA StepCallsInv == CallsInv /\ [CallsNext]_callVars => CallsInv'
<1> SUFFICES ASSUME CallsInv, [CallsNext]_callVars PROVE CallsInv'
  OBVIOUS
<1>1. CASE CallsNext
  BY <1>1, CallStep, ProgressStep DEF CallsNext
<1>2. CASE UNCHANGED callVars
  <2>1. StoredInv' /\ \A c \in Callers : CallerInv(c)'
    BY <1>2, UntouchedCaller DEF callVars, CallsInv, StoredInv
  <2> QED
    BY <1>2, <2>1 DEF callVars, CallsInv
<1> QED
  BY <1>1, <1>2

THEOREM CallsInvariantHolds == CallsSpec => []CallsInv
<1> QED
  BY InitCallsInv, StepCallsInv, PTL DEF CallsSpec

(* The one list of bars under a name.                                      *)
LEMMA BarsFound ==
  ASSUME NEW q \in Requests \cup {NoRequest}, Accepted(q), NEW k \in DOMAIN q.bars
  PROVE  BarsOf(q, q.bars[k].name) = q.bars[k].version
<1> DEFINE name == q.bars[k].name
           Is(i) == q.bars[i].name = name /\ \A j \in 1 .. i - 1 : q.bars[j].name # name
           found == CHOOSE i \in DOMAIN q.bars : Is(i)
<1>1. \A i, j \in DOMAIN q.bars : q.bars[i].name = q.bars[j].name => i = j
  BY DEF Accepted, WellNamed, Normalized, IsInjective
<1>2. DOMAIN q.bars = 1 .. Len(q.bars) /\ Len(q.bars) \in Nat
  BY RequestFacts
<1>3. Is(k)
  <2>1. \A j \in 1 .. k - 1 : j \in DOMAIN q.bars /\ j # k
    BY <1>2
  <2> QED
    BY <1>1, <2>1
<1>4. found \in DOMAIN q.bars /\ Is(found)
  BY <1>3
<1>5. found = k
  BY <1>1, <1>4
<1> QED
  BY <1>5 DEF BarsOf

(* For any callers and requests: what stands under the id of a batch's     *)
(* symbol is evidence of this symbol on these bars, refused only for its   *)
(* account or for a fingerprint that the batch names, and an accepted      *)
(* request runs every list of bars that it brings (main.py:299-327,        *)
(* api_contracts.py:38-98).                                                *)
THEOREM SymbolsNeverMeet == CallsSpec => []SymbolsStayApart
<1>1. ASSUME CallsInv PROVE BatchIdsAreOwn
  <2> SUFFICES ASSUME NEW c \in Callers, request[c].batch, NEW name
               PROVE  LET row == Row(c, name) IN
                        /\ \A r \in Holding(row.id) : /\ r.name = row.name
                                                       /\ r.version = row.version
                        /\ (Taken(row) /\ ~request[c].fingerprinted) =>
                             \E r \in Holding(row.id) : r.account # row.account
    BY DEF BatchIdsAreOwn
  <2> DEFINE row == Row(c, name)
  <2>1. row.id = <<"symbol", row.name, row.version>>
    BY DEF Row, RunId, SymbolRunId
  <2>2. ~request[c].fingerprinted => row.dataset = Absent
    BY DEF Row, Dataset
  <2> HIDE DEF row
  <2>3. ASSUME NEW r \in Holding(row.id)
        PROVE  r.id = row.id /\ r.name = row.name /\ r.version = row.version
    <3>1. r \in stored /\ r.id = <<"symbol", row.name, row.version>>
      BY <2>1 DEF Holding
    <3>2. r.id[1] = "symbol"
      BY <3>1
    <3>3. <<"symbol", row.name, row.version>> = <<"symbol", r.name, r.version>>
      BY <1>1, <3>1, <3>2 DEF CallsInv, StoredInv
    <3> QED
      BY <2>1, <3>1, <3>3
  <2>4. (Taken(row) /\ ~request[c].fingerprinted) =>
          \E r \in Holding(row.id) : r.account # row.account
    BY <2>2, <2>3 DEF Taken, Agrees
  <2> QED
    BY <2>3, <2>4 DEF row
<1>2. ASSUME CallsInv PROVE NoBarsUnused
  BY <1>2, BarsFound DEF CallsInv, CallerInv, Runnable, NoBarsUnused
<1>3. CallsInv => SymbolsStayApart
  BY <1>1, <1>2 DEF SymbolsStayApart
<1> QED
  BY CallsInvariantHolds, <1>3, PTL

(* What a summary says of the outcomes it is made from.                    *)
LEMMA SummaryFacts ==
  ASSUME CallsInv, NEW c \in Callers,
         Runnable(request[c]), Len(done[c]) = Len(request[c].symbols)
  PROVE  /\ Len(done[c]) \in Nat /\ DOMAIN done[c] = 1 .. Len(done[c])
         /\ DOMAIN request[c].symbols = 1 .. Len(done[c])
         /\ \A k \in 1 .. Len(done[c]) : OutcomeIsTrue(c, k, done[c][k])
<1>1. CallerInv(c)
  BY DEF CallsInv
<1>2. DOMAIN request[c].symbols = 1 .. Len(request[c].symbols)
  BY <1>1, RequestFacts DEF CallerInv
<1>3. Len(done[c]) \in Nat /\ DOMAIN done[c] = 1 .. Len(done[c])
  BY <1>1, LenProperties DEF CallerInv, IsList
<1> QED
  BY <1>1, <1>2, <1>3 DEF CallerInv

LEMMA ExitZeroStored == CallsInv => StoredOnExitZero
<1> SUFFICES ASSUME CallsInv, NEW c \in Callers, response[c] # Absent, request[c].publish,
                    ExitCode(request[c], response[c]) = 0,
                    NEW k \in DOMAIN request[c].symbols
             PROVE  /\ \E r \in stored : Agrees(r, Row(c, request[c].symbols[k].name))
                    /\ response[c].items[k].published
  BY DEF StoredOnExitZero
<1>1. /\ response[c] = Summary(request[c], done[c])
      /\ Runnable(request[c]) /\ Len(done[c]) = Len(request[c].symbols)
  <2>1. response[c] # Failure("invalid") /\ response[c] # Failure("error")
    BY DEF ExitCode, Failure
  <2>2. phase[c] # "running"
    BY DEF CallsInv, CallerInv
  <2> QED
    BY <2>1, <2>2 DEF CallsInv, CallerInv, Answered
<1>2. /\ response[c] = Summary(request[c], done[c]) /\ k \in 1 .. Len(done[c])
      /\ DOMAIN done[c] = 1 .. Len(done[c])
      /\ OutcomeIsTrue(c, k, done[c][k])
  BY <1>1, SummaryFacts
<1>3. Having(done[c], "failed") = {}
  BY <1>2 DEF ExitCode, Summary
<1>4. done[c][k].status # "failed" /\ response[c].items = done[c]
  BY <1>2, <1>3 DEF Having, Summary
<1> QED
  BY <1>2, <1>4 DEF OutcomeIsTrue, IsStored

(* The rows of a batch's published symbols are as many as the symbols.     *)
LEMMA RowsCounted ==
  ASSUME CallsInv, NEW c \in Callers, request[c].batch, Runnable(request[c]),
         DOMAIN done[c] = 1 .. Len(done[c]), Len(done[c]) \in Nat,
         DOMAIN request[c].symbols = 1 .. Len(done[c]),
         \A k \in 1 .. Len(done[c]) : OutcomeIsTrue(c, k, done[c][k])
  PROVE  Cardinality(PublishedOf(done[c])) =
           Cardinality({row \in stored : \E k \in DOMAIN done[c] :
                          done[c][k].published /\ done[c][k].id = row.id})
<1> DEFINE S == PublishedOf(done[c])
           T == {row \in stored : \E k \in DOMAIN done[c] :
                   done[c][k].published /\ done[c][k].id = row.id}
           f == [k \in S |-> CHOOSE r \in stored : r.id = done[c][k].id]
<1>1. S \subseteq 1 .. Len(done[c]) /\ IsFiniteSet(S)
  <2>1. S \subseteq 1 .. Len(done[c])
    BY DEF PublishedOf
  <2>2. IsFiniteSet(1 .. Len(done[c]))
    <3>1. 1 \in Int /\ Len(done[c]) \in Int
      OBVIOUS
    <3> QED
      BY <3>1, FS_Interval
  <2> HIDE DEF S
  <2> QED
    BY <2>1, <2>2, FS_Subset
<1>2. ASSUME NEW k \in S
      PROVE  f[k] \in stored /\ f[k].id = done[c][k].id /\ done[c][k].published
  <2>1. done[c][k].published /\ OutcomeIsTrue(c, k, done[c][k])
    BY <1>1 DEF PublishedOf
  <2>2. \E r \in stored : r.id = done[c][k].id
    BY <2>1 DEF OutcomeIsTrue, IsStored, Agrees, Row
  <2> QED
    BY <2>1, <2>2
<1>3. f \in [S -> T]
  BY <1>1, <1>2
<1>4. ASSUME NEW k \in S, NEW l \in S, f[k] = f[l] PROVE k = l
  <2>1. done[c][k].symbol = done[c][l].symbol
    <3>1. \A i \in S : done[c][i].id = RunId(c, done[c][i].symbol)
      BY <1>1 DEF OutcomeIsTrue
    <3>2. done[c][k].id = done[c][l].id
      BY <1>2, <1>4
    <3> QED
      BY <3>1, <3>2 DEF RunId, SymbolRunId
  <2>2. request[c].symbols[k].name = request[c].symbols[l].name
    BY <1>1, <2>1 DEF OutcomeIsTrue
  <2> QED
    BY <1>1, <2>2 DEF Runnable, Accepted, WellNamed, Normalized, IsInjective
<1>5. ASSUME NEW row \in T PROVE \E k \in S : f[k] = row
  <2>1. PICK k \in DOMAIN done[c] : done[c][k].published /\ done[c][k].id = row.id
    OBVIOUS
  <2>2. k \in S
    BY <2>1 DEF PublishedOf
  <2>3. f[k] \in stored /\ f[k].id = row.id
    BY <1>2, <2>1, <2>2
  <2>4. f[k] = row
    BY <2>3 DEF CallsInv, StoredInv
  <2> QED
    BY <2>2, <2>4
<1>0. DOMAIN f = S
  OBVIOUS
<1> HIDE DEF S, T, f
<1>6. f \in Bijection(S, T)
  <2>1. IsInjective(f)
    BY <1>0, <1>4 DEF IsInjective
  <2>2. f \in Injection(S, T)
    BY <1>3, <2>1 DEF Injection
  <2>3. f \in Surjection(S, T)
    BY <1>3, <1>5 DEF Surjection
  <2> QED
    BY <2>2, <2>3 DEF Bijection
<1>7. Cardinality(S) = Cardinality(T)
  BY <1>1, <1>6, FS_Bijection DEF ExistsBijection
<1> QED
  BY <1>7 DEF S, T

LEMMA EverySymbolIsAnswered == CallsInv => EverySymbolAnswered
<1> SUFFICES ASSUME CallsInv, NEW c \in Callers, response[c] # Absent, request[c].batch,
                    response[c].status # "invalid"
             PROVE  /\ [k \in DOMAIN response[c].items |-> response[c].items[k].symbol]
                         = Normalized(request[c].symbols)
                    /\ (response[c].publishStatus = "partial_failure") <=>
                         (\E k, l \in DOMAIN response[c].items :
                            /\ response[c].items[k].status = "success"
                            /\ response[c].items[l].status = "failed")
                    /\ response[c].count =
                         Cardinality({row \in stored : \E k \in DOMAIN response[c].items :
                           /\ response[c].items[k].published
                           /\ response[c].items[k].id = row.id})
  BY DEF EverySymbolAnswered
<1> DEFINE list == done[c]
<1>1. /\ response[c] = Summary(request[c], list) /\ Runnable(request[c])
      /\ Len(list) = Len(request[c].symbols)
  BY DEF CallsInv, CallerInv, Answered, Failure, Runnable
<1>2. /\ Len(list) \in Nat /\ DOMAIN list = 1 .. Len(list)
      /\ DOMAIN request[c].symbols = 1 .. Len(list)
      /\ \A k \in 1 .. Len(list) : OutcomeIsTrue(c, k, list[k])
  BY <1>1, SummaryFacts
<1>3. /\ response[c].items = list
      /\ response[c].publishStatus = BatchStatus(request[c], list)
      /\ response[c].count = Cardinality(PublishedOf(list))
  BY <1>1 DEF Summary
<1>4. [k \in DOMAIN list |-> list[k].symbol] = Normalized(request[c].symbols)
  BY <1>2 DEF OutcomeIsTrue, Normalized
<1>5. (BatchStatus(request[c], list) = "partial_failure") <=>
        (\E k, l \in DOMAIN list : list[k].status = "success" /\ list[l].status = "failed")
  BY DEF BatchStatus, Having
<1>6. Cardinality(PublishedOf(list)) =
        Cardinality({row \in stored : \E k \in DOMAIN list :
                       list[k].published /\ list[k].id = row.id})
  BY <1>1, <1>2, RowsCounted
<1> QED
  BY <1>3, <1>4, <1>5, <1>6

(* For any callers and requests: a call that ends in exit code 0, or in a  *)
(* batch that says all succeeded, has left the evidence of every symbol    *)
(* under its run_id, and a batch answers for each symbol in order and      *)
(* counts exactly the rows its published symbols have (main.py:331-397,    *)
(* scripts/run_hourly_backtest.py).                                        *)
THEOREM ExitCodesAreTrue == CallsSpec => []ExitZeroIsStored
<1>1. CallsInv => ExitZeroIsStored
  BY ExitZeroStored, EverySymbolIsAnswered DEF ExitZeroIsStored
<1> QED
  BY CallsInvariantHolds, <1>1, PTL
=============================================================================
