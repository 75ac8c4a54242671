--------------------------- MODULE RegimeEvidence ---------------------------
(***************************************************************************)
(* The market regime of a closed trade: the as-of join of                  *)
(* phase13_historical_regime.py, the audit of                              *)
(* phase14_historical_regime_validation.py and the corroboration of        *)
(* phase15_independent_evidence.py, called in this order by                *)
(* phase9_oos_fill_evidence.py.                                            *)
(*                                                                         *)
(* Around them, the history they judge: a provider that publishes          *)
(* observations of a regime, some of them late or revised, an archive that *)
(* collects what it sees when it sees it, out-of-sample folds in which     *)
(* trades are entered, a registry of hypotheses, and at last the file the  *)
(* provider hands over, which may not say what was published.              *)
(*                                                                         *)
(* Digests match: a file whose bytes changed is not read.                  *)
(***************************************************************************)
EXTENDS Integers, Sequences, FiniteSets

CONSTANTS
    Symbol,       \* the symbol of the report
    Symbols,      \* the symbols of the feed
    Regimes,
    Folds,        \* the out-of-sample windows, records of start and end
    ResearchEnd,  \* last time of the research slice
    MaxAge,       \* oldest observation that still labels a trade
    MinFolds,     \* minimum_oos_folds of every hypothesis
    Hypotheses,   \* the regimes the registered hypotheses are about
    Alterations,  \* what may be wrong with the file
    RegisterAt,   \* when the hypotheses may be registered
    MaxRecords,   \* bound of the model: observations published
    MaxCollected, \* bound of the model: observations the archive collects
    MaxTrades     \* bound of the model: trades entered

\* What the constants must satisfy.  The out-of-sample windows are apart, as
\* validate_window_independence makes sure (WindowsApart of WalkForward).
RegimeAssumption ==
    /\ Symbol \in Symbols
    /\ Folds \in Seq([start : Nat, end : Nat]) /\ Folds # << >>
    /\ \A f \in DOMAIN Folds : Folds[f].start < Folds[f].end
    /\ \A f, g \in DOMAIN Folds : f < g => Folds[f].end < Folds[g].start
    /\ ResearchEnd \in Nat /\ MaxAge \in Nat /\ MinFolds \in Nat \ {0}
    /\ Hypotheses \subseteq Regimes /\ Hypotheses # {}
    /\ MaxRecords \in Nat /\ MaxCollected \in Nat /\ MaxTrades \in Nat
    /\ RegisterAt \subseteq Nat
    /\ Alterations \subseteq {"none", "backdated", "relabelled", "withheld", "late"}

ASSUME RegimeAssumption

VARIABLES
    now,
    published,  \* the observations of the provider
    current,    \* the observation of Symbol published last, as a set
    archive,    \* what the archive has seen, and when
    registered, \* when the hypotheses were registered, as a set
    decision,   \* what the nested selection decided for each fold
    trades,     \* the closed trades, with what was known at their entry
    file,       \* the historical feed handed over
    honest      \* "undecided" until the file is handed over

historyVars == <<now, published, current, archive, registered, decision, trades, file, honest>>

-----------------------------------------------------------------------------
(* Phase 13: the feed and the join.                                        *)

\* read_historical_regime_feed: one bad observation refuses the whole file.
FeedVerified(feed) ==
    /\ feed # {}
    /\ \A o \in feed : o.asof <= o.available /\ o.available <= ResearchEnd
    /\ \A o, p \in feed : o.symbol = p.symbol /\ o.id = p.id => o = p

Fault_KnownAtEntry(feed, trade) ==
    {o \in feed : o.symbol = trade.symbol /\ o.asof <= trade.entry}

KnownAtEntry(feed, trade) ==
    {o \in feed : /\ o.symbol = trade.symbol
                  /\ o.asof <= o.available /\ o.available <= trade.entry}

Fault_Latest(feed, trade) ==
    LET known == KnownAtEntry(feed, trade)
    IN  {o \in known : \A p \in known : p.asof <= o.asof}

\* The latest by availability, not by what they are about.
Latest(feed, trade) ==
    LET known == KnownAtEntry(feed, trade)
    IN  {o \in known : \A p \in known : p.available <= o.available}

\* No candidate, two of the same moment, or one that is too old: no label.
Labels(feed, trade) ==
    {o \in Latest(feed, trade) :
        Cardinality(Latest(feed, trade)) = 1 /\ trade.entry - o.available <= MaxAge}

\* bind_regime_at_entry: all of the trades or none.
JoinComplete(feed, positions) ==
    /\ FeedVerified(feed) /\ positions # {}
    /\ \A trade \in positions : Labels(feed, trade) # {}

LabelOf(feed, trade) == CHOOSE o \in Labels(feed, trade) : TRUE

-----------------------------------------------------------------------------
(* Phase 14: the audit of the feed, the folds and the labels.              *)

RevisionConflict(feed) ==
    \E o, p \in feed : /\ o.symbol = p.symbol /\ o.asof = p.asof
                       /\ o.regime # p.regime

FoldsDisjoint ==
    \A f, g \in DOMAIN Folds :
        f # g => Folds[f].end < Folds[g].start \/ Folds[g].end < Folds[f].start

TradeFolds == {f \in DOMAIN Folds : decision[f] = "TRADE"}

Fault_TradeAudited(feed, trade) ==
    LET label == LabelOf(feed, trade) IN
      /\ label.asof <= label.available /\ label.available <= trade.entry
      /\ ~ \E o \in feed : /\ o.symbol = trade.symbol /\ o.id # label.id
                           /\ label.available < o.available

\* Inside its fold, its label in the feed, and nothing later was available.
TradeAudited(feed, trade) ==
    LET label == LabelOf(feed, trade) IN
      /\ trade.fold \in TradeFolds
      /\ Folds[trade.fold].start <= trade.entry /\ trade.entry <= Folds[trade.fold].end
      /\ label \in feed
      /\ label.asof <= label.available /\ label.available <= trade.entry
      /\ ~ \E o \in feed : /\ o.symbol = trade.symbol /\ o.id # label.id
                           /\ label.available < o.available
                           /\ o.available <= trade.entry

\* Every TRADE fold has a closed trade: losing folds do not go missing.
AuditPasses(feed, positions) ==
    /\ JoinComplete(feed, positions)
    /\ ~RevisionConflict(feed) /\ FoldsDisjoint
    /\ \A trade \in positions : TradeAudited(feed, trade)
    /\ {trade.fold : trade \in positions} = TradeFolds

-----------------------------------------------------------------------------
(* Phase 15: the archive and the registry.                                 *)

\* The archive has this very observation and had it when the trade began.
Corroborated(feed, trade) ==
    LET label == LabelOf(feed, trade) IN
      \E seen \in archive : seen.record = label /\ seen.at <= trade.entry

\* Before the first window begins, of the folds that abstained too.
RegisteredFirst ==
    \E r \in registered : \A f \in DOMAIN Folds : r < Folds[f].start

FoldsOf(feed, positions, regime) ==
    {trade.fold : trade \in {t \in positions : LabelOf(feed, t).regime = regime}}

Fault_DocumentsConsistent(feed, positions) ==
    /\ AuditPasses(feed, positions) /\ archive # {} /\ RegisteredFirst
    /\ \E trade \in positions : Corroborated(feed, trade)
    /\ \A r \in Hypotheses : Cardinality(FoldsOf(feed, positions, r)) >= MinFolds

DocumentsConsistent(feed, positions) ==
    /\ AuditPasses(feed, positions) /\ archive # {} /\ RegisteredFirst
    /\ \A trade \in positions : Corroborated(feed, trade)
    /\ \A r \in Hypotheses : Cardinality(FoldsOf(feed, positions, r)) >= MinFolds

-----------------------------------------------------------------------------
(* The history.                                                            *)

HistoryInit ==
    /\ now = 0 /\ published = {} /\ current = {} /\ archive = {} /\ registered = {}
    /\ trades = {} /\ file = {} /\ honest = "undecided"
    /\ decision \in [DOMAIN Folds -> {"TRADE", "NO_TRADE"}]

Live == honest = "undecided" /\ now <= ResearchEnd

\* An observation of this moment or of an earlier one, or a revision.  What
\* is published at a moment is published before the trades of that moment.
Publish(symbol, regime, asof) ==
    LET record == [id |-> Cardinality(published) + 1, symbol |-> symbol,
                   regime |-> regime, asof |-> asof, available |-> now]
    IN  /\ Live /\ Cardinality(published) < MaxRecords
        /\ asof <= now /\ \A trade \in trades : trade.entry < now
        /\ published' = published \cup {record}
        /\ current' = IF symbol = Symbol THEN {record} ELSE current
        /\ UNCHANGED <<now, archive, registered, decision, trades, file, honest>>

Collect(record) ==
    /\ Live /\ Cardinality(archive) < MaxCollected
    /\ \A seen \in archive : seen.record # record
    /\ archive' = archive \cup {[record |-> record, at |-> now]}
    /\ UNCHANGED <<now, published, current, registered, decision, trades, file, honest>>

Register ==
    /\ Live /\ registered = {} /\ now \in RegisterAt
    /\ registered' = {now}
    /\ UNCHANGED <<now, published, current, archive, decision, trades, file, honest>>

\* A position opened by the simulation of a test window, and closed in it.
Enter(f) ==
    /\ Live /\ decision[f] = "TRADE" /\ Cardinality(trades) < MaxTrades
    /\ Folds[f].start <= now /\ now <= Folds[f].end
    /\ \A trade \in trades : trade.entry < now
    /\ trades' = trades \cup
         {[fold |-> f, symbol |-> Symbol, entry |-> now, known |-> current]}
    /\ UNCHANGED <<now, published, current, archive, registered, decision, file, honest>>

Tick ==
    /\ Live
    /\ now' = now + 1
    /\ UNCHANGED <<published, current, archive, registered, decision, trades, file, honest>>

Replace(feed, old, new) == (feed \ {old}) \cup {new}

\* What the provider hands over.  "late" holds an observation of the holdout.
Altered(how) ==
    CASE how = "none"       -> {published}
      [] how = "withheld"   -> {published \ {o} : o \in published}
      [] how = "relabelled" -> {Replace(published, o, [o EXCEPT !.regime = r]) :
                                  o \in published, r \in Regimes}
      [] how = "backdated"  -> {Replace(published, o, [o EXCEPT !.available = o.asof]) :
                                  o \in published}
      [] how = "late"       -> {published \cup
                                  {[id |-> 0, symbol |-> s, regime |-> r, asof |-> ResearchEnd,
                                    available |-> ResearchEnd + 1]} :
                                  s \in Symbols, r \in Regimes}

HandOver(how) ==
    /\ honest = "undecided" /\ now > ResearchEnd
    /\ file' \in Altered(how)
    /\ honest' = how
    /\ UNCHANGED <<now, published, current, archive, registered, decision, trades>>

HistoryNext ==
    \/ \E s \in Symbols, r \in Regimes, a \in 0 .. now : Publish(s, r, a)
    \/ \E o \in published : Collect(o)
    \/ Register
    \/ \E f \in DOMAIN Folds : Enter(f)
    \/ Tick
    \/ \E how \in Alterations : HandOver(how)

HistorySpec == HistoryInit /\ [][HistoryNext]_historyVars
-----------------------------------------------------------------------------
\* As long as the file says what was published, the label of a trade is the
\* observation the strategy would have had before it at the entry: nothing
\* published since, no revision and no later observation of an earlier day
\* takes its place (bind_regime_at_entry, phase13_historical_regime.py:155).
LabelsWereKnown ==
    honest \in {"undecided", "none"} =>
        \A trade \in trades :
            Labels(published, trade) # {} => Labels(published, trade) = trade.known

\* A trade that has its label keeps it however the feed grows, and one that
\* has none never gets one (phase13_historical_regime.py:163).
LabelsStay ==
    \A trade \in trades : Labels(published', trade) = Labels(published, trade)

PastLabelsStay == [][LabelsStay]_published

\* Phase 14 looks for itself and comes to the same end: it passes a join of
\* the published history exactly when no day was given two regimes and every
\* fold that traded has a closed trade
\* (phase14_historical_regime_validation.py:96, :210, :244).
AuditFollowsTheJoin ==
    honest = "none" =>
        (AuditPasses(file, trades) <=>
            /\ JoinComplete(file, trades)
            /\ ~RevisionConflict(published)
            /\ \A f \in DOMAIN Folds :
                  decision[f] = "TRADE" => \E trade \in trades : trade.fold = f)

\* Whatever the provider did to the file, documents that phase 15 finds
\* consistent label every trade with an observation that was published, with
\* this regime, before the trade, and come from hypotheses registered before
\* any trade (phase15_independent_evidence.py:177-199, :219).
CorroboratedWasSeen ==
    honest # "undecided" =>
        (DocumentsConsistent(file, trades) =>
            \A trade \in trades :
              /\ LabelOf(file, trade) \in published
              /\ LabelOf(file, trade).available <= trade.entry
              /\ \E r \in registered : r < trade.entry)

\* The label of a trade is what was known at its entry: for the join, for the
\* audit and for documents that phase 15 finds consistent.
LabelsAreTrue == LabelsWereKnown /\ AuditFollowsTheJoin /\ CorroboratedWasSeen
=============================================================================
