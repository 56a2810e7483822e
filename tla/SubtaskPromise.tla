--------------------------- MODULE SubtaskPromise --------------------------
(***************************************************************************)
(* What create_subtasks promises its client, without ledger, locks, runs   *)
(* or messages: an idempotency key belongs to the first payload accepted   *)
(* for it, each draft of that payload gets at most one card of its own,    *)
(* cards are never withdrawn, and the operation is finished only when all  *)
(* its drafts have their card (docs/board-providers.md, "Durable recovery" *)
(* and "Retry safety").                                                    *)
(***************************************************************************)
CONSTANTS Request, Key, KeyOf, Draft, Card, NoRequest

VARIABLES
  owner,      \* the payload each key stands for
  cards,      \* the cards made for each draft of each payload
  finished    \* payloads reported as complete

promiseVars == <<owner, cards, finished>>

Init ==
  /\ owner = [k \in Key |-> NoRequest]
  /\ cards = [s \in Request \X Draft |-> {}]
  /\ finished = {}

Accept(q) ==
  /\ owner[KeyOf[q]] = NoRequest
  /\ owner' = [owner EXCEPT ![KeyOf[q]] = q]
  /\ UNCHANGED <<cards, finished>>

MakeCard(s, c) ==
  /\ owner[KeyOf[s[1]]] = s[1]
  /\ cards[s] = {}
  /\ \A t \in Request \X Draft : c \notin cards[t]
  /\ cards' = [cards EXCEPT ![s] = {c}]
  /\ UNCHANGED <<owner, finished>>

Finish(q) ==
  /\ owner[KeyOf[q]] = q
  /\ \A d \in Draft : cards[<<q, d>>] # {}
  /\ finished' = finished \cup {q}
  /\ UNCHANGED <<owner, cards>>

Next ==
  \/ \E q \in Request : Accept(q) \/ Finish(q)
  \/ \E s \in Request \X Draft, c \in Card : MakeCard(s, c)

Spec == Init /\ [][Next]_promiseVars
=============================================================================
