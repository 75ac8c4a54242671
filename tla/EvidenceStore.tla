--------------------------- MODULE EvidenceStore ---------------------------
(***************************************************************************)
(* What publishing a backtest run promises, without the requests that      *)
(* achieve it: one run_id keeps one evidence for good, and a publisher     *)
(* hears "confirmed" only when the evidence kept is the one it offered.    *)
(*                                                                         *)
(* A payload has an identity (what the client compares: parameters,        *)
(* metrics, fingerprint ...) and a context (what it does not compare: the  *)
(* workflow, the trigger).  A publisher offers the same identity whenever  *)
(* it tries again, in whatever context.                                    *)
(***************************************************************************)
CONSTANTS Publishers, Identities, Contexts, Nothing

VARIABLES
  stored,    \* the evidence kept under the run_id, or Nothing
  offer,     \* publisher -> the payload it publishes now
  verdict    \* publisher -> what it was told

vars == <<stored, offer, verdict>>

Payloads == [identity : Identities, context : Contexts]
Verdicts == {"open", "confirmed", "failed", "skipped"}

Matches(kept, payload) == kept # Nothing /\ kept.identity = payload.identity

TypeOK ==
  /\ stored \in Payloads \cup {Nothing}
  /\ offer \in [Publishers -> Payloads]
  /\ verdict \in [Publishers -> Verdicts]

Init ==
  /\ stored = Nothing
  /\ offer \in [Publishers -> Payloads]
  /\ verdict = [p \in Publishers |-> "open"]

(* Something offered is kept; nothing replaces it.                         *)
Keep ==
  /\ stored = Nothing
  /\ stored' \in {q \in Payloads : \E p \in Publishers : Matches(q, offer[p])}
  /\ UNCHANGED <<offer, verdict>>

Confirm(p) ==
  /\ verdict[p] = "open" /\ Matches(stored, offer[p])
  /\ verdict' = [verdict EXCEPT ![p] = "confirmed"]
  /\ UNCHANGED <<stored, offer>>

(* A refusal promises nothing about what is kept.                          *)
Refuse(p) ==
  /\ verdict[p] = "open"
  /\ verdict' \in {[verdict EXCEPT ![p] = v] : v \in {"failed", "skipped"}}
  /\ UNCHANGED <<stored, offer>>

Again(p) ==
  /\ verdict[p] # "open"
  /\ verdict' = [verdict EXCEPT ![p] = "open"]
  /\ offer' \in {[offer EXCEPT ![p].context = c] : c \in Contexts}
  /\ UNCHANGED stored

Next == Keep \/ \E p \in Publishers : Confirm(p) \/ Refuse(p) \/ Again(p)

Spec == Init /\ [][Next]_vars
=============================================================================
