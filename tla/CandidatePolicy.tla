--------------------------- MODULE CandidatePolicy ---------------------------
(***************************************************************************)
(* Which strategies a run may choose from: the policies that the script     *)
(* run_nested_hourly_backtest.py installs around the runner, one around the *)
(* other.  The Manager's bucket of a symbol (strategy_bucket_candidate_     *)
(* policy.py) over the expanded suite (research_strategy_expansion_         *)
(* policy.py), the market regime (market_regime_candidate_policy.py), and   *)
(* the ban on promoting exploratory research (exploratory_no_promotion_     *)
(* policy.py).                                                             *)
(*                                                                         *)
(* A hook of the request replaces the one installed before it and calls it, *)
(* so a request passes through the hooks from the newest to the oldest.     *)
(* The Manager writes other files between two cycles; the database keeps    *)
(* what every cycle published.                                             *)
(***************************************************************************)
EXTENDS MultiStrategy, Sequences, SequencesExt

CONSTANTS
    Expanded,       \* the expanded suite, a set of strategy identifiers
    Balanced,       \* the default suite, a set of some of them
    Family,         \* the strategy family of each
    RunSymbols,     \* the symbols of a run, a sequence
    Buckets,        \* what the Manager may have configured, see PolicyInit
    Contexts,       \* what the Manager may have left as market context
    NewestRuns,     \* what a candidate may show in its newest training slice
    MaxCycles       \* bound of the model: processes in a row

Training(criteria) ==
    INSTANCE MultiStrategy WITH Selection <- criteria

Families == {"sma_crossover", "trend_following", "mean_reversion", "breakout"}

\* The trades that _force_no_trade_selection_criteria demands: 2^31 - 1.
Impossible == 2147483647

\* The criteria on the way through a disagreement.
Forced == [Selection EXCEPT !.min_trades = Impossible]

\* What the constants must satisfy.  Nothing that a request may hold is None,
\* and no history is long enough for the trades demanded of it.
PolicyAssumption ==
    /\ Balanced # {} /\ Balanced \subseteq Expanded /\ None \notin Expanded
    /\ Family \in [Expanded -> Families]
    /\ \A m \in NewestRuns : m.trades \in Nat /\ m.trades < Impossible
    /\ RunSymbols \in Seq(ToSet(RunSymbols))
    /\ "min_trades" \in DOMAIN Selection
    /\ \A cs \in SUBSET Expanded : cs # None
    /\ \A cs \in (SUBSET Expanded) \cup {None}, criteria \in {Selection, Forced} :
           [candidates |-> cs, criteria |-> criteria] # None
    /\ MaxCycles \in Nat \ {0}

ASSUME PolicyAssumption

VARIABLES
    buckets,        \* [switch, env, report]: the setting, a map, a report
    context,        \* None, or [tradeable, allowed]
    pc,             \* what the process does next
    hooks,          \* the hooks around the request, oldest first
    bucketOf,       \* the applied map from symbol to bucket, or None
    regime,         \* the applied set of families, or None
    observing,      \* whether the exploratory ban is installed
    items,          \* a result for each symbol done
    store,          \* published evidence: its identity and its candidates
    cycle

process == <<pc, hooks, bucketOf, regime, observing, items>>
policyVars == <<buckets, context, process, store, cycle>>

Fresh ==
    /\ pc' = "bucket"
    /\ hooks' = << >>
    /\ bucketOf' = None
    /\ regime' = None
    /\ observing' = FALSE
    /\ items' = << >>

PolicyInit ==
    /\ buckets \in Buckets
    /\ context \in Contexts
    /\ pc = "bucket"
    /\ hooks = << >>
    /\ bucketOf = None
    /\ regime = None
    /\ observing = FALSE
    /\ items = << >>
    /\ store = {}
    /\ cycle = 1

-----------------------------------------------------------------------------
(* The Manager's buckets.                                                   *)

\* After the expansion each bucket names all variants of its families.
BucketFamilies ==
    [core_dividend |-> {"trend_following", "sma_crossover"},
     value_rebound |-> {"mean_reversion", "sma_crossover"},
     news_momentum |-> {"breakout", "trend_following"},
     exploratory   |-> Families]

InBucket(bucket) == {c \in Expanded : Family[c] \in BucketFamilies[bucket]}

Enabled ==
    IF buckets.switch # None THEN buckets.switch ELSE buckets.report # None

\* The lane that authorised the symbols, a set; the older one only without the
\* newer.
Positions(report) ==
    IF report.research # None THEN report.research ELSE report.legacy

Fault_ReportValid(report) ==
    /\ Positions(report) # None
    /\ Positions(report) # {}
    /\ \A p \in Positions(report) :
           p.classified /\ p.bucket \in DOMAIN BucketFamilies
    /\ \A p, q \in Positions(report) :
           p.symbol = q.symbol => p.bucket = q.bucket
    /\ report.expected \in {{}, {p.symbol : p \in Positions(report)}}

ReportValid(report) ==
    /\ Positions(report) # None
    /\ Positions(report) # {}
    /\ \A p \in Positions(report) :
           p.passed /\ p.classified /\ p.bucket \in DOMAIN BucketFamilies
    /\ \A p, q \in Positions(report) :
           p.symbol = q.symbol => p.bucket = q.bucket
    /\ report.expected \in {{}, {p.symbol : p \in Positions(report)}}

MapValid(map) ==
    DOMAIN map # {} /\ \A s \in DOMAIN map : map[s] \in DOMAIN BucketFamilies

ReportMap(report) ==
    [s \in {p.symbol : p \in Positions(report)} |->
        (CHOOSE p \in Positions(report) : p.symbol = s).bucket]

\* The map of the applied policy, or None when what was left is not usable.
SymbolBuckets ==
    CASE buckets.env # None -> IF MapValid(buckets.env) THEN buckets.env ELSE None
      [] buckets.env = None /\ buckets.report # None ->
             IF ReportValid(buckets.report) THEN ReportMap(buckets.report) ELSE None
      [] OTHER -> None

\* What is enabled but unusable ends the process before it runs anything.
ApplyBuckets ==
    /\ pc = "bucket"
    /\ \/ ~Enabled /\ pc' = "regime" /\ UNCHANGED <<hooks, bucketOf>>
       \/ /\ Enabled /\ SymbolBuckets = None
          /\ pc' = "dead" /\ UNCHANGED <<hooks, bucketOf>>
       \/ /\ Enabled /\ SymbolBuckets # None
          /\ pc' = "regime"
          /\ bucketOf' = SymbolBuckets
          /\ hooks' = Append(hooks, "bucket")
    /\ UNCHANGED <<buckets, context, regime, observing, items, store, cycle>>

-----------------------------------------------------------------------------
(* The market regime and the exploratory ban.                               *)

\* The regime knows the default suite only: the expansion does not reach it.
InRegime(allowed) == {c \in Balanced : Family[c] \in allowed}

\* A context that is absent, or says not to trade, restricts nothing.
Tradeable == context # None /\ context.tradeable

RegimeValid(allowed) ==
    /\ allowed \notin {None, {}}
    /\ allowed \subseteq Families
    /\ InRegime(allowed) # {}

Fault_ApplyRegime ==
    /\ pc = "regime"
    /\ \/ ~Tradeable /\ pc' = "ban" /\ UNCHANGED <<hooks, regime>>
       \/ /\ Tradeable /\ ~RegimeValid(context.allowed)
          /\ pc' = "dead" /\ UNCHANGED <<hooks, regime>>
       \/ /\ Tradeable /\ RegimeValid(context.allowed)
          /\ pc' = "ban"
          /\ regime' = context.allowed
          /\ hooks' = <<"regime">> \o hooks
    /\ UNCHANGED <<buckets, context, bucketOf, observing, items, store, cycle>>

ApplyRegime ==
    /\ pc = "regime"
    /\ \/ ~Tradeable /\ pc' = "ban" /\ UNCHANGED <<hooks, regime>>
       \/ /\ Tradeable /\ ~RegimeValid(context.allowed)
          /\ pc' = "dead" /\ UNCHANGED <<hooks, regime>>
       \/ /\ Tradeable /\ RegimeValid(context.allowed)
          /\ pc' = "ban"
          /\ regime' = context.allowed
          /\ hooks' = Append(hooks, "regime")
    /\ UNCHANGED <<buckets, context, bucketOf, observing, items, store, cycle>>

ApplyBan ==
    /\ pc = "ban"
    /\ observing' = TRUE
    /\ pc' = "run"
    /\ UNCHANGED <<buckets, context, hooks, bucketOf, regime, items, store,
                   cycle>>

-----------------------------------------------------------------------------
(* The request of one symbol on its way through the hooks.                  *)

ThroughRegime(request) ==
    IF request.candidates # None THEN None
    ELSE [request EXCEPT !.candidates = InRegime(regime)]

\* Nothing in common: a request that cannot succeed, on a candidate that does
\* not matter.
ThroughBucket(s, request) ==
    LET source == IF request.candidates = None THEN Expanded
                  ELSE request.candidates
        common == source \cap InBucket(bucketOf[s])
    IN  CASE s \notin DOMAIN bucketOf -> None
          [] s \in DOMAIN bucketOf /\ common = {} ->
                 [candidates |-> {CHOOSE c \in source : TRUE}, criteria |-> Forced]
          [] OTHER -> [request EXCEPT !.candidates = common]

\* None is a request that raised.
Through(s, request, hook) ==
    CASE request = None   -> None
      [] request # None /\ hook = "regime" -> ThroughRegime(request)
      [] OTHER -> ThroughBucket(s, request)

Request(s) ==
    LET after[n \in 0 .. Len(hooks)] ==
          IF n = 0 THEN [candidates |-> None, criteria |-> Selection]
          ELSE Through(s, after[n - 1], hooks[Len(hooks) + 1 - n])
        built == after[Len(hooks)]
    IN  IF built = None \/ built.candidates # None THEN built
        ELSE [built EXCEPT !.candidates = Balanced]

\* Who may win on these bars: the newest training slice must have elected it.
Electable(request, runs) ==
    {c \in request.candidates :
        Training(request.criteria)!InnerSafe(runs[c])}

Exploratory(s) ==
    bucketOf # None /\ s \in DOMAIN bucketOf /\ bucketOf[s] = "exploratory"

Fault_Select(s, winner) == winner

Select(s, winner) == IF observing /\ Exploratory(s) THEN None ELSE winner

Fault_Identity(s, c) ==
    [symbol |-> s, strategy |-> c,
     bucket |-> IF bucketOf = None THEN None ELSE bucketOf[s],
     policy |-> bucketOf]

\* Both hooks of _run_id add the identity of their policy to the strategy's.
Identity(s, c) ==
    [symbol |-> s, strategy |-> c,
     bucket |-> IF bucketOf = None THEN None ELSE bucketOf[s],
     policy |-> bucketOf,
     regime |-> regime]

Item(s, status, c) == [symbol |-> s, status |-> status, strategy |-> c]

Backtest ==
    /\ pc = "run" /\ Len(items) < Len(RunSymbols)
    /\ LET s == RunSymbols[Len(items) + 1]
           request == Request(s)
       IN  \/ /\ request = None
              /\ items' = Append(items, Item(s, "failed", None))
              /\ UNCHANGED store
           \/ /\ request # None
              /\ \E runs \in [request.candidates -> NewestRuns] :
                 \E winner \in Electable(request, runs) \cup {None} :
                    LET c == Select(s, winner) IN
                    IF c = None
                    THEN /\ items' = Append(items,
                                        Item(s, "no_eligible_strategy", None))
                         /\ UNCHANGED store
                    ELSE /\ items' = Append(items,
                                        Item(s, "eligible_strategy_found", c))
                         /\ store' = store \cup
                                {[id |-> Identity(s, c),
                                  candidates |-> request.candidates]}
    /\ UNCHANGED <<buckets, context, pc, hooks, bucketOf, regime, observing,
                   cycle>>

\* The next workflow is a new process, on what the Manager has left by then.
NextCycle ==
    /\ cycle < MaxCycles
    /\ pc = "dead" \/ (pc = "run" /\ Len(items) = Len(RunSymbols))
    /\ cycle' = cycle + 1
    /\ buckets' \in Buckets
    /\ context' \in Contexts
    /\ Fresh
    /\ UNCHANGED store

PolicyNext == ApplyBuckets \/ ApplyRegime \/ ApplyBan \/ Backtest \/ NextCycle

PolicySpec == PolicyInit /\ [][PolicyNext]_policyVars

-----------------------------------------------------------------------------
(* Properties.                                                              *)

\* The types of the variables; an item names a strategy if it found one.
PolicyTypeOK ==
    /\ pc \in {"bucket", "regime", "ban", "run", "dead"}
    /\ hooks \in SeqOf({"bucket", "regime"}, 2)
    /\ observing \in BOOLEAN
    /\ cycle \in 1 .. MaxCycles
    /\ \A i \in DOMAIN items :
           /\ items[i].symbol = RunSymbols[i]
           /\ items[i].status = "eligible_strategy_found"
                  <=> items[i].strategy \in Expanded

Found == {x \in ToSet(items) : x.status = "eligible_strategy_found"}

\* Whatever a run finds eligible, every policy in force allows (the hooks of
\* the request and the criteria that make a disagreement impossible to pass):
\* it is in the bucket of its symbol, the bucket is not exploratory, and its
\* family is allowed by the regime.
EligibleIsAllowed ==
    \A x \in Found :
        /\ bucketOf # None =>
               /\ x.strategy \in InBucket(bucketOf[x.symbol])
               /\ bucketOf[x.symbol] # "exploratory"
        /\ regime # None => Family[x.strategy] \in regime

\* What a Manager report did not authorise is never found eligible under it
\* (_extract_manager_symbol_buckets): each position of the symbol passed the
\* evidence gate, and all agree on a bucket that has the strategy.
AuthorizedOnly ==
    Enabled /\ buckets.env = None =>
        \A x \in Found :
            /\ \E p \in Positions(buckets.report) : p.symbol = x.symbol
            /\ \A p \in Positions(buckets.report) :
                   p.symbol = x.symbol =>
                       p.passed /\ p.classified /\ x.strategy \in InBucket(p.bucket)

\* Policies that are valid but have nothing in common are a decision not to
\* trade, not a failure (apply_strategy_bucket_candidate_policy): an item fails
\* here only when the Manager gave its symbol no bucket.
DisagreementIsNoTrade ==
    \A x \in ToSet(items) :
        x.status = "failed" => bucketOf # None /\ x.symbol \notin DOMAIN bucketOf

\* What is eligible has earned it under the policies in force.
EligibleIsEarned == EligibleIsAllowed /\ AuthorizedOnly /\ DisagreementIsNoTrade

\* Evidence is never taken for other evidence (policy_run_id): in whatever
\* cycles two pieces were published, the same identity means that the strategy
\* was chosen from the same candidates, which its statistics depend on.
EvidenceNotConfused ==
    \A e, f \in store : e.id = f.id => e.candidates = f.candidates

==============================================================================
