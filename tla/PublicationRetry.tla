-------------------------- MODULE PublicationRetry --------------------------
(***************************************************************************)
(* Publication with an observer of each publisher's current try: has the   *)
(* database, or the way to it, misbehaved since the try began?  A try is   *)
(* calm while the server stores what it can, says so, answers 409 for an   *)
(* id that is taken by other bytes, and shows what it holds when asked.    *)
(*                                                                         *)
(* What earlier tries were told is no part of it: a gateway may have       *)
(* answered 502 after the commit, which the client reports as a failure,   *)
(* and their POSTs may arrive during the try.                              *)
(***************************************************************************)
EXTENDS Publication

VARIABLE calm   \* publisher -> nothing has gone wrong in its current try

retryVars == <<vars, calm>>

\* What a server that works answers to a POST it has just handled.
ProperAnswer(p) ==
  IF stored \in {Nothing, payload[p]}
  THEN answer'[p] = "success" /\ stored' = payload[p]
  ELSE answer'[p] = "conflict"

Undisturbed(p) ==
  /\ (answer[p] = "pending") => (answer'[p] = "pending" \/ ProperAnswer(p))
  /\ (pc[p] = "posting" /\ pc'[p] = "reconciling") => answer[p] \in Answers
  /\ (pc[p] = "reconciling") =>
       /\ attempt'[p] = attempt[p]
       /\ (pc'[p] = "failed") => ~Matches(stored, payload[p])

RetryInit == Init /\ calm = [p \in Publishers |-> TRUE]

RetryNext ==
  /\ Next
  /\ calm' = [p \in Publishers |->
                IF pc[p] = "idle" THEN TRUE ELSE calm[p] /\ Undisturbed(p)]

RetrySpec == RetryInit /\ [][RetryNext]_retryVars

(* As FairSpec: the client's requests time out, so it takes another step.  *)
FairRetrySpec == RetrySpec /\ \A p \in Publishers : WF_vars(Client(p))
-----------------------------------------------------------------------------
\* A failed publication whose run the database holds all the same is put
\* right by the next try: a calm try fails only when the id is taken by a
\* different run, whatever earlier tries left behind or were told wrongly
\* (database_client.py:315-324, and the 409 that follows a 502).
CalmTryIsConfirmed ==
  \A p \in Publishers :
    (pc[p] = "failed" /\ calm[p]) =>
      (stored # Nothing /\ ~Matches(stored, payload[p]))

\* What a publisher is told is right: success only of what is stored, and
\* failure, if nothing went wrong in its try, only of what cannot be stored.
VerdictsAreRight == ConfirmedIsStored /\ CalmTryIsConfirmed
=============================================================================
