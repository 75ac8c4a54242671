----------------------------- MODULE MarketData -----------------------------
(***************************************************************************)
(* AlpacaMarketDataProvider.fetch_bars and validate_price_bars             *)
(* (app/data_provider.py): page by page until the service has no more or   *)
(* the limit is reached, then checked and sorted.                          *)
(*                                                                         *)
(* The service is external.  It has bars 1 to total in the range asked     *)
(* for and cuts them into pages as it likes, in ascending order and within *)
(* the limit of the request, as the parameters ask.  It may fail, send a   *)
(* bar the contract refuses, or repeat the last bar of a page.             *)
(***************************************************************************)
EXTENDS Naturals, Sequences, SequencesExt, FiniteSets

CONSTANTS
    MaxBars,      \* bound of the model: bars the service may have
    PageMax,      \* most bars in a page (10000)
    Limit,        \* limit of the call
    MinimumBars   \* bars the caller needs

\* What the constants must satisfy.
ASSUME MarketDataAssumption ==
    /\ MaxBars \in Nat /\ MinimumBars \in Nat
    /\ PageMax \in Nat \ {0} /\ Limit \in Nat

VARIABLES
    total,    \* the bars the service has
    raw,      \* the timestamps received
    token,    \* the service has more: the last bar it has sent, or 0
    first,    \* no page has been asked for yet
    strange,  \* the service has repeated a bar or sent a bad one
    pc,
    bars      \* what the call returns

fetchVars == <<total, raw, token, first, strange, pc, bars>>

BadBar == 0   \* a bar that StrictPriceBar refuses

FetchInit ==
    /\ total \in 0 .. MaxBars
    /\ raw = << >> /\ bars = << >>
    /\ token = 0 /\ first = TRUE /\ strange = FALSE
    /\ pc = "fetching"

Asked == IF PageMax < Limit - Len(raw) THEN PageMax ELSE Limit - Len(raw)

Fault_ShortPageIsLast ==
    Len(raw) < Limit /\ (first \/ (token # 0 /\ Len(raw) % PageMax = 0))

Fault_IgnoreToken == Len(raw) < Limit

\* while len(raw_bars) < limit, and not after a page without a token.
MorePages == Len(raw) < Limit /\ (first \/ token # 0)

Pages(n) == {SubSeq([b \in 1 .. total |-> b], token + 1, token + k) :
                k \in 0 .. (IF n < total - token THEN n ELSE total - token)}

\* Assumed of the service: a page without bars comes without a token.  The
\* loop of the code asks on for as long as there is one.
Fetch ==
    /\ pc = "fetching" /\ MorePages
    /\ first' = FALSE
    /\ \E page \in Pages(Asked) :
         LET sent == token + Len(page) IN
           /\ Len(page) = 0 => total = token
           /\ token' = IF sent = total THEN 0 ELSE sent
           /\ \/ raw' = raw \o page /\ UNCHANGED strange
              \/ /\ token # 0 /\ Len(page) < Asked
                 /\ raw' = raw \o <<token>> \o page /\ strange' = TRUE
              \/ /\ page # << >>
                 /\ raw' = raw \o [page EXCEPT ![1] = BadBar] /\ strange' = TRUE
    /\ UNCHANGED <<total, pc, bars>>

\* The connection, the status or the document: nothing is tried again.
Fail ==
    /\ pc = "fetching" /\ MorePages
    /\ pc' = "failed" /\ strange' = TRUE
    /\ UNCHANGED <<total, raw, token, first, bars>>

Fault_Acceptable(rows) == BadBar \notin Range(rows) /\ Len(rows) >= MinimumBars

\* validate_price_bars: every bar good, no timestamp twice, enough of them.
Acceptable(rows) ==
    /\ BadBar \notin Range(rows)
    /\ IsInjective(rows)
    /\ Len(rows) >= MinimumBars

\* list.sort: at each place the row that has fewer rows before it, and with the
\* rows equal to it as many as the place.
Sorted(rows) ==
    [k \in 1 .. Len(rows) |->
        CHOOSE t \in Range(rows) :
            /\ Cardinality({i \in DOMAIN rows : rows[i] < t}) < k
            /\ k <= Cardinality({i \in DOMAIN rows : rows[i] <= t})]

Validate ==
    /\ pc = "fetching" /\ ~MorePages
    /\ IF Acceptable(raw)
       THEN pc' = "returned" /\ bars' = Sorted(raw)
       ELSE pc' = "failed" /\ UNCHANGED bars
    /\ UNCHANGED <<total, raw, token, first, strange>>

FetchNext == Fetch \/ Fail \/ Validate

\* urlopen has a timeout, and the loop is sequential.  Nothing makes the
\* service fail, so no fairness is asked of Fail.
FetchSpec == FetchInit /\ [][FetchNext]_fetchVars /\ WF_fetchVars(Fetch \/ Validate)
-----------------------------------------------------------------------------
\* What a call returns are the first bars of the range without a gap, up to
\* the limit: the same however the service pages, so that the fingerprint of
\* the data, and with it the run_id, is the same on every fetch (fetch_bars,
\* dataset_fingerprint).  Repeated bars never get through.
ReturnsThePrefix ==
    pc = "returned" =>
      /\ bars = [k \in 1 .. (IF total < Limit THEN total ELSE Limit) |-> k]
      /\ Len(bars) >= MinimumBars

\* A history that is long enough is refused only for what the service did
\* wrong, never for how it was paged.
RefusalsAreJustified ==
    pc = "failed" =>
      strange \/ (IF total < Limit THEN total ELSE Limit) < MinimumBars

\* A fetch returns what the service has, or says why not.
FetchIsFaithful == ReturnsThePrefix /\ RefusalsAreJustified

\* The loop ends when every page brings bars or is the last.
FetchEnds == <>(pc # "fetching")
=============================================================================
