----------------------------- MODULE UsageWindow -----------------------------
(***************************************************************************)
(* Which row of public.daily_usage a charge goes to, for one owner and one *)
(* capability whose owner moves between time zones.  A row is named by its *)
(* usage_date and keeps the zone it was created in; it is open until the   *)
(* midnight that ends its date in that zone, and while a row is open it is *)
(* the one to charge, whatever the owner's zone is by then.                *)
(*                                                                         *)
(* Time is counted in units from an arbitrary midnight UTC, a zone is its  *)
(* offset from UTC in the same units, a date the number of its day.        *)
(***************************************************************************)
EXTENDS Integers, FiniteSets

CONSTANTS Zones,     \* offsets of the zones the owner may set
          Day,       \* units in a day
          Limit,     \* daily_limit(capability)
          MaxClock   \* bound on the clock

ASSUME UsageWindowAssumption ==
    /\ Day \in Nat \ {0}
    /\ Zones \in (SUBSET Int) \ {{}}
    /\ Limit \in Nat \ {0}
    /\ MaxClock \in Nat

VARIABLES clock,
          zone,    \* user_preferences.timezone
          usage,   \* usage[d]: the row with usage_date d
          reply    \* the last snapshot answered: when, and its reset_at

usageVars == <<clock, zone, usage, reply>>

\* local_usage_date: the date it is in zone z at the instant now.
LocalDate(now, z) == (now + z) \div Day

Dates == {LocalDate(now, z) : now \in 0 .. MaxClock, z \in Zones}

NoUsage == [zone |-> 0, used |-> 0, exists |-> FALSE]

UsageTypeOK ==
    /\ clock \in 0 .. MaxClock
    /\ zone \in Zones
    /\ usage \in [Dates -> [zone: Zones \cup {0}, used: 0 .. Limit, exists: BOOLEAN]]
    /\ reply \in [at: Int, resetAt: Int]

UsageInit ==
    /\ clock = 0
    /\ zone \in Zones
    /\ usage = [d \in Dates |-> NoUsage]
    /\ reply = [at |-> 0, resetAt |-> Day]

-----------------------------------------------------------------------------
\* usage_reset_at: the instant the date d ends in zone z.
ResetAt(d, z) == (d + 1) * Day - z

\* Mutation of OpenRows: the midnight is that of the owner's present zone.
OpenRowsHere(now) == {d \in Dates : usage[d].exists /\ ResetAt(d, zone) > now}

\* The WHERE clause of _ACTIVE_WINDOW_SQL.
OpenRows(now) == {d \in Dates : usage[d].exists /\ ResetAt(d, usage[d].zone) > now}

\* Mutation of ActiveWindow: the date is always that of the owner's zone.
ActiveWindowHere(now) == [date |-> LocalDate(now, zone), zone |-> zone]

\* resolve_usage_window: ORDER BY usage_date DESC LIMIT 1, else today.
ActiveWindow(now) ==
    IF OpenRows(now) # {}
    THEN LET d == CHOOSE d \in OpenRows(now) : \A e \in OpenRows(now) : e <= d
         IN [date |-> d, zone |-> usage[d].zone]
    ELSE [date |-> LocalDate(now, zone), zone |-> zone]

\* ensure_usage_row: ON CONFLICT (user_id, usage_date, capability) DO NOTHING.
Ensured(w) ==
    IF usage[w.date].exists THEN usage[w.date]
    ELSE [NoUsage EXCEPT !.zone = w.zone, !.exists = TRUE]

\* Mutation of Charged: used <= limit_value.
ChargedOnceMore(row) ==
    IF row.used <= Limit THEN [row EXCEPT !.used = @ + 1] ELSE row

Charged(row) ==
    IF row.used + 1 <= Limit THEN [row EXCEPT !.used = @ + 1] ELSE row

\* consume; a refusal answers the reset_at of the row as well.
Consume ==
    LET w == ActiveWindow(clock)
        row == Ensured(w)
    IN /\ usage' = [usage EXCEPT ![w.date] = Charged(row)]
       /\ reply' = [at |-> clock, resetAt |-> ResetAt(w.date, row.zone)]
       /\ UNCHANGED <<clock, zone>>

\* PATCH of the timezone preference: it does not touch daily_usage.
SetZone(z) ==
    /\ zone' = z
    /\ UNCHANGED <<clock, usage, reply>>

Tock ==
    /\ clock < MaxClock
    /\ clock' = clock + 1
    /\ UNCHANGED <<zone, usage, reply>>

UsageNext ==
    \/ Consume
    \/ \E z \in Zones : SetZone(z)
    \/ Tock

UsageSpec == UsageInit /\ [][UsageNext]_usageVars

-----------------------------------------------------------------------------
(* Properties. *)

\* At most one row is open at a time, so the order in which the active window
\* query picks its row does not matter (repositories/quota.py:24-31).
OneOpenRow == \A d, e \in OpenRows(clock) : d = e

\* "Timezone changes reuse an unexpired usage_date and cannot mint a fresh day"
\* (domain/quota.py:4-5): no charge goes to a date before one that has a row, so
\* every date that passes is spent once.  The owner may set any zone, and this fails
\* where they are more than a day apart.
NoFreshDay ==
    [][usage' # usage =>
          \A d \in Dates : usage'[d] # usage[d] =>
              \A e \in Dates : usage[e].exists => e <= d]_usageVars

\* What holds whatever zones the owner moves through: a charge goes back to a date
\* before one that has a row by less than two of the zones are apart, which is not at
\* all within a day and one date for UTC+14 and UTC-12 (repositories/quota.py:24-31).
BackWithinZones ==
    [][usage' # usage =>
          \A d \in Dates : usage'[d] # usage[d] =>
              \A e \in Dates : usage[e].exists /\ e > d =>
                  \E y, z \in Zones : (e - d) * Day < y - z]_usageVars

\* The usage rows have their types, and one of them is open.
UsageInv == UsageTypeOK /\ OneOpenRow
=============================================================================
