---------------------------- MODULE MCAlgorithms ----------------------------
(***************************************************************************)
(* Small instances of the four algorithms that work alone: the search for  *)
(* the entry quantity, the signals of the strategies, the fetching of the  *)
(* bars and the overfitting gate.  They share nothing.  The subject of a   *)
(* behaviour is the one that runs; the others rest, with nothing to do.    *)
(***************************************************************************)
EXTENDS EntrySearch, MarketData, Strategies, OverfitGate

CONSTANTS Requests, Volumes, Prices, Budgets   \* of the search

VARIABLE subject

allVars == <<subject, vars, marketVars, fetchVars, gateVars>>

Dollars(n) == n * BPS * BPS * BPS * BPS

(* Requests on both sides of what is left of the bar's capacity, impact    *)
(* from nothing to the whole of MarketImpactBps, and each of the limits in *)
(* turn the one that binds.                                                *)
MCOrders ==
  { o \in [requested : Requests, available : {VolumeCapacity(v) : v \in Volumes},
           ref : {Reference(p) : p \in Prices}, volume : Volumes,
           limits : [cash : {Dollars(b) : b \in Budgets},
                     exposure : {Dollars(b) : b \in Budgets},
                     equity : {Dollars(b) : b \in Budgets}]] :
      o.available <= VolumeCapacity(o.volume) }

(* Around a price of 100: still, wide, and moves of one to five percent.   *)
MCBars ==
  {[low |-> c, close |-> c, high |-> c] : c \in {95, 99, 100, 102}}
    \cup {[low |-> 98, close |-> 100, high |-> 103], [low |-> 97, close |-> 102, high |-> 102]}
-----------------------------------------------------------------------------
SearchRests ==
  /\ order = CHOOSE o \in Orders : o.requested = 0
  /\ lowSteps = 0 /\ highSteps = 0

FetchRests ==
  /\ total = 0 /\ raw = << >> /\ token = 0 /\ first = TRUE /\ strange = FALSE
  /\ pc = "resting" /\ bars = << >>

GateRests == series = << >> /\ result = [status |-> "resting"]

MCInit ==
  \/ subject = "search" /\ Init /\ MarketInit /\ FetchRests /\ GateRests
  \/ subject = "signals" /\ SearchRests /\ MarketInit /\ FetchRests /\ GateRests
  \/ subject = "fetch" /\ SearchRests /\ MarketInit /\ FetchInit /\ GateRests
  \/ subject = "gate" /\ SearchRests /\ MarketInit /\ FetchRests /\ GateInit

MCNext ==
  /\ UNCHANGED subject
  /\ \/ subject = "search" /\ Next /\ UNCHANGED <<marketVars, fetchVars, gateVars>>
     \/ subject = "signals" /\ MarketNext /\ UNCHANGED <<vars, fetchVars, gateVars>>
     \/ subject = "fetch" /\ FetchNext /\ UNCHANGED <<vars, marketVars, gateVars>>
     \/ subject = "gate" /\ GateNext /\ UNCHANGED <<vars, marketVars, fetchVars>>

(* The fairness of EntrySearch and of MarketData.                          *)
MCSpec ==
  /\ MCInit /\ [][MCNext]_allVars
  /\ WF_vars(Next)
  /\ WF_fetchVars(Fetch \/ Validate)
-----------------------------------------------------------------------------
(* The two loops end: the search (max_entry_quantity) and the pages        *)
(* (fetch_bars), however the service pages, as long as a page that names   *)
(* another one holds a bar; with an empty page and a token, again and      *)
(* again, data_provider.py:87-130 would go on.                             *)
LoopsEnd == Terminates /\ FetchEnds
=============================================================================
