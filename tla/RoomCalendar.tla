----------------------------- MODULE RoomCalendar -----------------------------
(***************************************************************************)
(* What the booking service promises, without statements, schedules, SQL   *)
(* or faults: a ledger of bookings in which a booking is entered and       *)
(* released at one instant between the request and its answer, and no two  *)
(* unreleased bookings of a room ever overlap in time.                     *)
(*                                                                         *)
(* wish[p] is the last request of p, pending the set of those whose        *)
(* request is still undecided, answer[p] the answer to the last one:       *)
(* "booked", "taken", "released", "refused", or "unknown" when the client  *)
(* cannot tell whether the request took effect, and NULL when it was told  *)
(* nothing.                                                                *)
(***************************************************************************)
EXTENDS Integers

CONSTANTS Procs, SlotLength, NULL,
          Wishes    \* the requests: records with op, user, room, start, id

VARIABLES ledger,   \* id -> [user, room, start]: never shrinks, never changes
          released, \* ids of the bookings cancelled by their owners
          wish,
          pending,
          answer

vars == <<ledger, released, wish, pending, answer>>

Init ==
  /\ ledger = [b \in {} |-> NULL]
  /\ released = {}
  /\ wish = [p \in Procs |-> NULL]
  /\ pending = {}
  /\ answer = [p \in Procs |-> NULL]

Overlap(s, t) == s < t + SlotLength /\ t < s + SlotLength

Blocking(w) ==
  { id \in DOMAIN ledger \ released :
      ledger[id].room = w.room /\ Overlap(ledger[id].start, w.start) }

Own(w) == w.id \in DOMAIN ledger /\ ledger[w.id].user = w.user

Decide(p, a) ==
  /\ pending' = pending \ {p}
  /\ answer' = [answer EXCEPT ![p] = a]

\* The effect is certain, the answer may be lost on its way.
DecideOrLose(p, a) == \E b \in {a, "unknown", NULL} : Decide(p, b)

Ask(p, w) ==
  /\ wish' = [wish EXCEPT ![p] = w]
  /\ pending' = pending \cup {p}
  /\ answer' = [answer EXCEPT ![p] = NULL]
  /\ UNCHANGED <<ledger, released>>

\* The release of one's own booking is never refused.
Refusable(w) == w.op = "cancel" => ~ Own(w)

RefuseAtOnce(p, w) ==
  /\ wish' = [wish EXCEPT ![p] = w]
  /\ Refusable(w)
  /\ Decide(p, "refused")
  /\ UNCHANGED <<ledger, released>>

Refuse(p) ==
  /\ Refusable(wish[p])
  /\ Decide(p, "refused")
  /\ UNCHANGED <<ledger, released, wish>>

Book(p) ==
  LET w == wish[p]
  IN  /\ w.op = "create"
      /\ w.id \notin DOMAIN ledger
      /\ Blocking(w) = {}
      /\ ledger' = [id \in DOMAIN ledger \cup {w.id} |->
                      IF id = w.id
                        THEN [user |-> w.user, room |-> w.room,
                              start |-> w.start]
                        ELSE ledger[id]]
      /\ DecideOrLose(p, "booked")
      /\ UNCHANGED <<released, wish>>

Conflict(p) ==
  /\ wish[p].op = "create"
  /\ Blocking(wish[p]) # {}
  /\ Decide(p, "taken")
  /\ UNCHANGED <<ledger, released, wish>>

\* Releasing twice is allowed and changes nothing.
Release(p) ==
  /\ wish[p].op = "cancel"
  /\ Own(wish[p])
  /\ released' = released \cup {wish[p].id}
  /\ DecideOrLose(p, "released")
  /\ UNCHANGED <<ledger, wish>>

\* Given up without an effect; a client that is still there learns nothing.
GiveUp(p) ==
  /\ \E b \in {"unknown", NULL} : Decide(p, b)
  /\ UNCHANGED <<ledger, released, wish>>

Next ==
  \/ \E p \in Procs \ pending, w \in Wishes : Ask(p, w) \/ RefuseAtOnce(p, w)
  \/ \E p \in pending :
       Book(p) \/ Conflict(p) \/ Release(p) \/ Refuse(p) \/ GiveUp(p)

Spec == Init /\ [][Next]_vars

=============================================================================
