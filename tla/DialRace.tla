------------------------------ MODULE DialRace ------------------------------
(***************************************************************************)
(* connect of internal/upstream/doq.go: the staircase of handshakes with   *)
(* the addresses of one upstream.  The next address starts when the one    *)
(* before has failed or has not answered for dialStagger; the first        *)
(* handshake to complete wins; drainDials closes the others that complete  *)
(* nevertheless.                                                           *)
(***************************************************************************)
EXTENDS Naturals, FiniteSets, Sequences

CONSTANTS
  Addresses,
  MaxTargets   \* the longest list of addresses considered

ASSUME DialRaceAssumption == MaxTargets \in Nat

VARIABLES
  targets,   \* what dialTargets returned, without an error
  hand,      \* the handshake with each of them, then what became of its result
  next,      \* addresses launched so far
  pending,   \* launched and not yet received from out
  state,     \* connect: not called, racing, won or failed
  winner,    \* the place in targets that won, 0 before
  left       \* results drainDials still waits for

raceVars == <<targets, hand, next, pending, state, winner, left>>

Places == 1..MaxTargets

\* A handshake is "waiting" for its turn, "dialing", has put its result in out
\* ("up" or "refused"), and the result is then "used", "counted" or "closed".
RaceTypeOK ==
  /\ targets \in Seq(Addresses) /\ Len(targets) <= MaxTargets
  /\ hand \in [Places -> {"waiting", "dialing", "up", "refused", "used", "counted", "closed"}]
  /\ {next, pending, winner, left} \subseteq 0..MaxTargets
  /\ state \in {"idle", "racing", "won", "failed"}

RaceInit ==
  /\ targets = <<>> /\ hand = [i \in Places |-> "waiting"]
  /\ next = 0 /\ pending = 0 /\ state = "idle" /\ winner = 0 /\ left = 0

-----------------------------------------------------------------------------
\* connect has its addresses and launches the first.  Without an address it fails
\* before that.
Launch(list) ==
  LET first == IF list = <<>> THEN 0 ELSE 1 IN
    /\ targets' = list
    /\ hand' = [i \in Places |-> IF i = first THEN "dialing" ELSE "waiting"]
    /\ next' = first /\ pending' = first
    /\ state' = IF list = <<>> THEN "failed" ELSE "racing"
    /\ winner' = 0 /\ left' = 0

\* The goroutine of one address: dialAddr returns and its result goes to out,
\* which has room for every address.  A handshake that is cancelled, or whose
\* context has run out, is refused; one may complete in spite of that.
HandshakeDone(i, result) ==
  /\ hand[i] = "dialing"
  /\ hand' = [hand EXCEPT ![i] = result]
  /\ UNCHANGED <<targets, next, pending, state, winner, left>>

\* connect receives a connection: it wins, the others are cancelled and left to
\* drainDials.
ReceiveWinner(i) ==
  /\ state = "racing" /\ hand[i] = "up"
  /\ hand' = [hand EXCEPT ![i] = "used"]
  /\ pending' = pending - 1
  /\ state' = "won" /\ winner' = i
  /\ left' = pending - 1
  /\ UNCHANGED <<targets, next>>

\* connect receives a failure and launches the next address at once.
LaunchAfterFailure(i) ==
  /\ state = "racing" /\ hand[i] = "refused"
  /\ next < Len(targets)
  /\ hand' = [hand EXCEPT ![i] = "counted", ![next + 1] = "dialing"]
  /\ next' = next + 1
  /\ UNCHANGED <<targets, pending, state, winner, left>>

\* Mutant: connect fails once every address has been launched.
FailWhenLaunched(i) ==
  /\ state = "racing" /\ hand[i] = "refused"
  /\ next = Len(targets)
  /\ hand' = [hand EXCEPT ![i] = "counted"]
  /\ pending' = pending - 1
  /\ state' = "failed"
  /\ UNCHANGED <<targets, next, winner, left>>

\* Mutant: an address that failed is tried again when no other is left.
TryAgain(i) ==
  /\ state = "racing" /\ hand[i] = "refused"
  /\ next = Len(targets)
  /\ hand' = [hand EXCEPT ![i] = "dialing"]
  /\ UNCHANGED <<targets, next, pending, state, winner, left>>

\* connect receives a failure when no address is left; it fails with the last.
CountFailure(i) ==
  /\ state = "racing" /\ hand[i] = "refused"
  /\ next = Len(targets)
  /\ hand' = [hand EXCEPT ![i] = "counted"]
  /\ pending' = pending - 1
  /\ state' = IF pending = 1 THEN "failed" ELSE "racing"
  /\ UNCHANGED <<targets, next, winner, left>>

\* Mutant: the handshake the tick starts is not counted.
TickUncounted ==
  /\ state = "racing" /\ next < Len(targets)
  /\ hand' = [hand EXCEPT ![next + 1] = "dialing"]
  /\ next' = next + 1
  /\ UNCHANGED <<targets, pending, state, winner, left>>

\* dialStagger has passed.
Tick ==
  /\ state = "racing" /\ next < Len(targets)
  /\ hand' = [hand EXCEPT ![next + 1] = "dialing"]
  /\ next' = next + 1
  /\ pending' = pending + 1
  /\ UNCHANGED <<targets, state, winner, left>>

\* drainDials receives one more result and closes it if it is a connection.
Drain(i) ==
  /\ state = "won" /\ left > 0
  /\ hand[i] \in {"up", "refused"}
  /\ hand' = [hand EXCEPT ![i] = IF hand[i] = "up" THEN "closed" ELSE "counted"]
  /\ left' = left - 1
  /\ UNCHANGED <<targets, next, pending, state, winner>>

Receive(i) == ReceiveWinner(i) \/ LaunchAfterFailure(i) \/ CountFailure(i)

\* Nothing of the race runs any more.
Settled == state # "racing" /\ \A i \in Places : hand[i] \notin {"dialing", "up", "refused"}

-----------------------------------------------------------------------------
(* Properties. *)

\* NoneLeftBehind: when drainDials ends, no handshake is running and no
\* connection but the winner's is open: cancelling the losers is not enough, for
\* one may complete all the same (doq.go:304-306, 327-333).
NoneLeftBehind ==
  state = "won" /\ left = 0 =>
    /\ hand[winner] = "used"
    /\ \A i \in Places : i # winner => hand[i] \in {"waiting", "counted", "closed"}

\* FailsOnlyAfterAll: connect gives up only when every address has been tried and
\* has failed (doq.go:309-317).
FailsOnlyAfterAll ==
  state = "failed" => \A i \in 1..Len(targets) : hand[i] = "counted"
=============================================================================
