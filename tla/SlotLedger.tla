----------------------------- MODULE SlotLedger -----------------------------
(***************************************************************************)
(* What TechRent promises about a device's calendar, with no requests,     *)
(* transactions, locks or statuses: a ledger of held slots in which no two *)
(* bookings hold overlapping slots of one device.  A holding appears,      *)
(* disappears or moves to another device in one step.                      *)
(* SlotReservation implements it under the mapping "a booking holds its    *)
(* slot while its status is pending, confirmed or ongoing".                *)
(***************************************************************************)
EXTENDS Naturals

CONSTANTS Bookings,  \* booking ids
          Devices,   \* device ids
          Slots      \* rental periods, records [from, to]

VARIABLE held        \* the holdings, records [booking, device, slot]

Holding == [booking : Bookings, device : Devices, slot : Slots]

(* startTime < other.endTime and endTime > other.startTime: half-open      *)
(* periods, so that a rental may start the moment another one ends.        *)
Overlaps(s, t) == s.from < t.to /\ t.from < s.to

Clash(g, h) == g.device = h.device /\ Overlaps(g.slot, h.slot)

Init == held = {}

Reserve(h) ==
  /\ \A g \in held : g.booking # h.booking /\ ~Clash(g, h)
  /\ held' = held \union {h}

Release(h) ==
  /\ h \in held
  /\ held' = held \ {h}

(* The booking keeps its period and changes device. *)
Move(h, d) ==
  LET moved == [h EXCEPT !.device = d] IN
  /\ h \in held
  /\ \A g \in held \ {h} : ~Clash(g, moved)
  /\ held' = (held \ {h}) \union {moved}

Next ==
  \E h \in Holding : \/ Reserve(h)
                     \/ Release(h)
                     \/ \E d \in Devices : Move(h, d)

Spec == Init /\ [][Next]_held
=============================================================================
