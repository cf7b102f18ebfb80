----------------------------- MODULE AccountProofs -----------------------------
(***************************************************************************)
(* Theorems about an account: UsageWindow, for every set of zones, length  *)
(* of the day, limit and bound of the clock; Friends, for all spirits,     *)
(* requests and numbers of transactions at a time; Profile, for all        *)
(* owners, devices, client ids and codes; Notices, for every cap, lag,     *)
(* length of the day and quiet hours; and Report, for all requests, client *)
(* ids, memories and workers.                                              *)
(***************************************************************************)
EXTENDS UsageWindow, Friends, Profile, Notices, Report, TLAPS, FiniteSetTheorems

-----------------------------------------------------------------------------
(* UsageWindow: dates and the instants they begin and end. *)

LEMMA DayBounds ==
    ASSUME NEW x \in Int
    PROVE  /\ x \div Day \in Int
           /\ (x \div Day) * Day <= x /\ x < (x \div Day + 1) * Day
  BY UsageWindowAssumption

LEMMA ConstantsTyped ==
    /\ Day \in Int
    /\ \A z \in Zones \cup {0} : z \in Int
    /\ \A c \in 0 .. MaxClock : c \in Int
  BY UsageWindowAssumption

LEMMA LocalDateInDates ==
    ASSUME clock \in 0 .. MaxClock, zone \in Zones
    PROVE  LocalDate(clock, zone) \in Dates
  BY DEF Dates

LEMMA DatesAreInt ==
    ASSUME NEW d \in Dates
    PROVE  d \in Int
<1>1. PICK now \in 0 .. MaxClock, z \in Zones : d = LocalDate(now, z)
  BY DEF Dates
<1>2. now + z \in Int
  BY UsageWindowAssumption
<1> QED
  BY <1>1, <1>2, DayBounds DEF LocalDate

\* A date that has ended in one zone while another has not in another zone is later
\* by less than the zones are apart.
LEMMA EndedWhileOpen ==
    ASSUME NEW now \in Int, NEW e \in Int, NEW d \in Int, NEW y \in Int, NEW z \in Int,
           ResetAt(e, y) <= now, now < ResetAt(d, z)
    PROVE  (e - d) * Day < y - z
<1>1. Day \in Int
  BY UsageWindowAssumption
<1> DEFINE a == e * Day
           b == d * Day
           endE == (e + 1) * Day
           endD == (d + 1) * Day
<1>2. endE = a + Day /\ endD = b + Day /\ a \in Int /\ b \in Int
  BY <1>1
<1>3. endE - y <= now /\ now < endD - z
  BY DEF ResetAt
<1>4. (e - d) * Day = a - b
  BY <1>1
<1> HIDE DEF a, b, endE, endD
<1> QED
  BY <1>1, <1>2, <1>3, <1>4

-----------------------------------------------------------------------------
(* UsageWindow: the inductive invariant. *)

\* The rows that exist have the zone they were created in.
RowZones == \A d \in Dates : usage[d].exists => usage[d].zone \in Zones

OpenInv == UsageInv /\ RowZones

\* The row that Consume charges is the open one, or that of the date it is
\* where the owner is when none is open.
LEMMA WindowIsOpen ==
    ASSUME OpenInv, OpenRows(clock) # {}
    PROVE  /\ ActiveWindow(clock).date \in OpenRows(clock)
           /\ ActiveWindow(clock).zone = usage[ActiveWindow(clock).date].zone
<1>1. PICK d \in OpenRows(clock) : TRUE
  OBVIOUS
<1>2. d \in Dates /\ d \in Int
  BY DatesAreInt DEF OpenRows
<1>3. \A e \in OpenRows(clock) : e <= d
  BY <1>2 DEF OpenInv, UsageInv, OneOpenRow
<1> QED
  BY <1>3 DEF ActiveWindow

LEMMA WindowIsToday ==
    ASSUME OpenRows(clock) = {}
    PROVE  ActiveWindow(clock) = [date |-> LocalDate(clock, zone), zone |-> zone]
  BY DEF ActiveWindow

LEMMA WindowTyped ==
    ASSUME OpenInv
    PROVE  ActiveWindow(clock).date \in Dates /\ ActiveWindow(clock).zone \in Zones
<1>1. CASE OpenRows(clock) # {}
  BY <1>1, WindowIsOpen DEF OpenRows, OpenInv, RowZones
<1>2. CASE OpenRows(clock) = {}
  BY <1>2, WindowIsToday, LocalDateInDates DEF OpenInv, UsageInv, UsageTypeOK
<1> QED
  BY <1>1, <1>2

\* What a charge does to the rows: all but the charged one stay as they are, and
\* that one exists and has its zone.
LEMMA ChargeMoves ==
    ASSUME OpenInv, Consume, NEW w, w = ActiveWindow(clock)
    PROVE  /\ usage' \in [Dates -> [zone: Zones \cup {0}, used: 0 .. Limit, exists: BOOLEAN]]
           /\ \A d \in Dates \ {w.date} : usage'[d] = usage[d]
           /\ usage'[w.date].exists
           /\ usage'[w.date].zone = IF usage[w.date].exists THEN usage[w.date].zone ELSE w.zone
           /\ clock' = clock /\ zone' = zone
           /\ reply' \in [at: Int, resetAt: Int]
<1> DEFINE row == Ensured(w)
<1>1. w.date \in Dates /\ w.zone \in Zones
  BY WindowTyped
<1>2. /\ usage \in [Dates -> [zone: Zones \cup {0}, used: 0 .. Limit, exists: BOOLEAN]]
      /\ clock \in 0 .. MaxClock
  BY DEF OpenInv, UsageInv, UsageTypeOK
<1>3. /\ row \in [zone: Zones \cup {0}, used: 0 .. Limit, exists: BOOLEAN]
      /\ row.exists
      /\ row.zone = IF usage[w.date].exists THEN usage[w.date].zone ELSE w.zone
  <2>1. CASE usage[w.date].exists
    BY <2>1, <1>1, <1>2 DEF Ensured
  <2>2. CASE ~usage[w.date].exists
    <3>1. row = [zone |-> w.zone, used |-> 0, exists |-> TRUE]
      BY <2>2 DEF Ensured, NoUsage
    <3> QED
      BY <3>1, <2>2, <1>1, UsageWindowAssumption
  <2> QED
    BY <2>1, <2>2
<1>4. /\ usage' = [usage EXCEPT ![w.date] = Charged(row)]
      /\ reply' = [at |-> clock, resetAt |-> ResetAt(w.date, row.zone)]
      /\ clock' = clock /\ zone' = zone
  BY DEF Consume
<1> HIDE DEF row
<1>5. /\ Charged(row) \in [zone: Zones \cup {0}, used: 0 .. Limit, exists: BOOLEAN]
      /\ Charged(row).exists
      /\ Charged(row).zone = row.zone
  <2>1. CASE row.used + 1 <= Limit
    BY <2>1, <1>3, UsageWindowAssumption DEF Charged
  <2>2. CASE ~(row.used + 1 <= Limit)
    BY <2>2, <1>3 DEF Charged
  <2> QED
    BY <2>1, <2>2
<1>6. reply' \in [at: Int, resetAt: Int]
  <2>1. w.date \in Int /\ row.zone \in Int /\ Day \in Int
    BY <1>1, <1>3, DatesAreInt, ConstantsTyped
  <2>2. (w.date + 1) * Day \in Int
    BY <2>1
  <2> QED
    BY <2>1, <2>2, <1>2, <1>4 DEF ResetAt
<1> QED
  BY <1>1, <1>2, <1>3, <1>4, <1>5, <1>6

-----------------------------------------------------------------------------
LEMMA ConsumeInv == ASSUME OpenInv, Consume PROVE OpenInv'
<1> DEFINE w == ActiveWindow(clock)
<1>1. w.date \in Dates /\ w.zone \in Zones
  BY WindowTyped
<1>2. /\ usage' \in [Dates -> [zone: Zones \cup {0}, used: 0 .. Limit, exists: BOOLEAN]]
      /\ \A d \in Dates \ {w.date} : usage'[d] = usage[d]
      /\ usage'[w.date].exists
      /\ usage'[w.date].zone = IF usage[w.date].exists THEN usage[w.date].zone ELSE w.zone
      /\ clock' = clock /\ zone' = zone
      /\ reply' \in [at: Int, resetAt: Int]
  BY ChargeMoves
<1>3. OpenRows(clock) # {} =>
          w.date \in OpenRows(clock) /\ \A d \in OpenRows(clock) : d = w.date
  BY WindowIsOpen DEF OpenInv, UsageInv, OneOpenRow
<1> HIDE DEF w
<1>4. UsageTypeOK'
  BY <1>2 DEF UsageTypeOK, OpenInv, UsageInv
<1>5. RowZones'
  BY <1>1, <1>2 DEF RowZones, OpenInv
<1>6. \A d \in OpenRows(clock)' : d = w.date
  <2> SUFFICES ASSUME NEW d \in OpenRows(clock)', d # w.date
               PROVE  FALSE
    OBVIOUS
  <2>1. d \in OpenRows(clock)
    BY <1>2 DEF OpenRows
  <2> QED
    BY <2>1, <1>3
<1> QED
  BY <1>4, <1>5, <1>6 DEF OpenInv, UsageInv, OneOpenRow

LEMMA SetZoneInv == ASSUME OpenInv, NEW z \in Zones, SetZone(z) PROVE OpenInv'
<1>1. UsageTypeOK'
  BY DEF OpenInv, UsageInv, UsageTypeOK, SetZone
<1>2. OneOpenRow' /\ RowZones'
  BY DEF OpenInv, UsageInv, OneOpenRow, OpenRows, RowZones, SetZone
<1> QED
  BY <1>1, <1>2 DEF OpenInv, UsageInv

\* As the clock runs rows only close.
LEMMA TockCloses ==
    ASSUME OpenInv, Tock
    PROVE  OpenRows(clock)' \subseteq OpenRows(clock)
<1> SUFFICES ASSUME NEW d \in OpenRows(clock)'
             PROVE  d \in OpenRows(clock)
  OBVIOUS
<1>1. /\ d \in Dates /\ usage[d].exists
      /\ ResetAt(d, usage[d].zone) > clock + 1
  BY DEF OpenRows, Tock
<1>2. d \in Int /\ usage[d].zone \in Int /\ clock \in Int /\ Day \in Int
  BY <1>1, DatesAreInt, ConstantsTyped DEF OpenInv, RowZones, UsageInv, UsageTypeOK
<1>3. ResetAt(d, usage[d].zone) \in Int
  BY <1>2 DEF ResetAt
<1> QED
  BY <1>1, <1>2, <1>3 DEF OpenRows

LEMMA TockInv == ASSUME OpenInv, Tock PROVE OpenInv'
<1>1. UsageTypeOK'
  BY UsageWindowAssumption DEF OpenInv, UsageInv, UsageTypeOK, Tock
<1>2. OneOpenRow'
  BY TockCloses DEF OpenInv, UsageInv, OneOpenRow
<1>3. RowZones'
  BY DEF OpenInv, RowZones, Tock
<1> QED
  BY <1>1, <1>2, <1>3 DEF OpenInv, UsageInv

LEMMA UsageNextInv == ASSUME OpenInv, [UsageNext]_usageVars PROVE OpenInv'
<1>1. CASE UNCHANGED usageVars
  BY <1>1 DEF usageVars, OpenInv, UsageInv, UsageTypeOK, OneOpenRow, OpenRows, RowZones
<1> QED
  BY <1>1, ConsumeInv, SetZoneInv, TockInv DEF UsageNext

LEMMA UsageInitInv == UsageInit => OpenInv
<1> SUFFICES ASSUME UsageInit PROVE OpenInv
  OBVIOUS
<1>1. UsageTypeOK
  BY UsageWindowAssumption DEF UsageInit, UsageTypeOK, NoUsage
<1>2. \A d \in Dates : ~usage[d].exists
  BY DEF UsageInit, NoUsage
<1> QED
  BY <1>1, <1>2 DEF OpenInv, UsageInv, OneOpenRow, OpenRows, RowZones

LEMMA UsageInvariance == UsageSpec => []OpenInv
  BY UsageInitInv, UsageNextInv, PTL DEF UsageSpec

\* The rows of an owner have their types, and at most one of them is open
\* however often the owner changes zone and however far the zones are apart:
\* the active window query (repositories/quota.py:24-31) never has to choose.
THEOREM OneRowIsOpen == UsageSpec => []UsageInv
<1>1. OpenInv => UsageInv
  BY DEF OpenInv
<1> QED
  BY <1>1, UsageInvariance, PTL

-----------------------------------------------------------------------------
(* UsageWindow: how far back a charge goes. *)

\* The date that is charged has not ended, in the zone of its row if that is open and
\* where the owner is if none is.
LEMMA ChargesUnended ==
    ASSUME OpenInv
    PROVE  \E z \in Zones : clock < ResetAt(ActiveWindow(clock).date, z)
<1>1. clock \in Int /\ zone \in Zones /\ zone \in Int
  BY ConstantsTyped DEF OpenInv, UsageInv, UsageTypeOK
<1>2. CASE OpenRows(clock) # {}
  <2> DEFINE d == ActiveWindow(clock).date
  <2>1. d \in OpenRows(clock)
    BY <1>2, WindowIsOpen
  <2> HIDE DEF d
  <2>2. /\ d \in Dates /\ usage[d].zone \in Zones
        /\ ResetAt(d, usage[d].zone) > clock
    BY <2>1 DEF OpenRows, OpenInv, RowZones
  <2>3. d \in Int /\ usage[d].zone \in Int /\ Day \in Int
    BY <2>2, DatesAreInt, ConstantsTyped
  <2>4. ResetAt(d, usage[d].zone) \in Int
    BY <2>3 DEF ResetAt
  <2> QED
    BY <1>1, <2>2, <2>4 DEF d
<1>3. CASE OpenRows(clock) = {}
  <2> DEFINE l == LocalDate(clock, zone)
  <2>1. l \in Int /\ clock + zone < (l + 1) * Day /\ Day \in Int
    BY <1>1, DayBounds, ConstantsTyped DEF LocalDate
  <2>2. ActiveWindow(clock).date = l
    BY <1>3, WindowIsToday
  <2> HIDE DEF l
  <2>3. (l + 1) * Day \in Int
    BY <2>1
  <2>4. clock < ResetAt(l, zone)
    BY <1>1, <2>1, <2>3 DEF ResetAt
  <2> QED
    BY <1>1, <2>2, <2>4
<1> QED
  BY <1>2, <1>3

\* However often the owner changes zone, a charge goes back to an earlier date by less
\* than the zones are apart (repositories/quota.py:24-31): the row that is charged has
\* not ended, and all others have.  So within a day no date is given afresh.
THEOREM BackByZonesOnly == UsageSpec => BackWithinZones
<1>1. OpenInv /\ [UsageNext]_usageVars =>
          (usage' # usage =>
              \A d \in Dates : usage'[d] # usage[d] =>
                  \A e \in Dates : usage[e].exists /\ e > d =>
                      \E y, z \in Zones : (e - d) * Day < y - z)
  <2> SUFFICES ASSUME OpenInv, [UsageNext]_usageVars, NEW d \in Dates,
                      usage'[d] # usage[d], NEW e \in Dates, usage[e].exists, e > d
               PROVE  \E y, z \in Zones : (e - d) * Day < y - z
    OBVIOUS
  <2>1. Consume
    BY DEF UsageNext, usageVars, SetZone, Tock
  <2>2. d = ActiveWindow(clock).date
    BY <2>1, ChargeMoves
  <2>3. d \in Int /\ e \in Int /\ clock \in Int
    BY DatesAreInt, ConstantsTyped DEF OpenInv, UsageInv, UsageTypeOK
  <2>4. PICK z \in Zones : clock < ResetAt(d, z)
    BY <2>2, ChargesUnended
  <2>5. e \notin OpenRows(clock)
    <3>1. e # d
      BY <2>3
    <3>2. OpenRows(clock) # {} => d \in OpenRows(clock)
      BY <2>2, WindowIsOpen
    <3> QED
      BY <3>1, <3>2 DEF OpenInv, UsageInv, OneOpenRow
  <2>6. usage[e].zone \in Zones /\ usage[e].zone \in Int /\ z \in Int /\ Day \in Int
    BY ConstantsTyped DEF OpenInv, RowZones
  <2>7. ResetAt(e, usage[e].zone) \in Int
    BY <2>3, <2>6 DEF ResetAt
  <2>8. ResetAt(e, usage[e].zone) <= clock
    BY <2>3, <2>5, <2>7 DEF OpenRows
  <2>9. (e - d) * Day < usage[e].zone - z
    BY <2>3, <2>4, <2>6, <2>8, EndedWhileOpen
  <2> QED
    BY <2>6, <2>9
<1> QED
  BY <1>1, UsageInvariance, PTL DEF UsageSpec, BackWithinZones

-----------------------------------------------------------------------------
(* Friends: the inductive invariant. *)

TxRow == [phase: {"locked", "paired", "conflicted", "found", "checking", "inserted",
                  "removing", "removed"},
          by: Spirits, peer: Spirits, cid: FriendIds, edge: EdgeIds \cup {0}]

KeyRow == [op: {"add", "remove"}, by: Spirits, peer: Spirits, edge: EdgeIds]

Edge == [id: EdgeIds, low: Spirits, high: Spirits]

PairOf(w) == {w.by, w.peer}

Ends(e) == {e.low, e.high}

\* Has the advisory lock of its pair.
Keeps(w) == w.phase \in {"paired", "conflicted", "found", "checking", "inserted"}

\* Has a new edge that is not committed.
Fresh(w) == w.phase \in {"checking", "inserted"}

\* What a transaction may rely on of the committed edges E and answers K: its
\* client id has no answer; the edge it inserts is the first of its pair and has
\* a new id; the edge it removes was added, and once deleted nobody else removes it.
TxOK(w, E, K) ==
    /\ w.by # w.peer
    /\ K[w.cid] = NoFriendKey
    /\ Fresh(w) => /\ w.edge \in EdgeIds
                   /\ \A e \in E : Ends(e) # PairOf(w)
                   /\ \A c \in FriendIds : K[c].edge # w.edge
    /\ w.phase \in {"removing", "removed"} =>
           \E d \in FriendIds : /\ K[d].op = "add" /\ K[d].edge = w.edge
                                /\ PairOf(K[d]) = PairOf(w)
    /\ w.phase = "removed" => \E e \in E : e.id = w.edge

\* What the locks keep apart of two transactions.
Apart(v, w) ==
    /\ v.by # w.by /\ v.cid # w.cid
    /\ Keeps(v) /\ Keeps(w) => PairOf(v) # PairOf(w)
    /\ v.phase = "removed" /\ w.phase = "removed" => PairOf(v) # PairOf(w)
    /\ Fresh(v) \/ Fresh(w) => v.edge # w.edge

FriendTxInv ==
    /\ friendTx \in [FriendHandlers -> TxRow \cup {NoTx}]
    /\ \A h \in Busy : TxOK(friendTx[h], edges, friendKeys)
    /\ \A h, k \in Busy : h # k => Apart(friendTx[h], friendTx[k])

\* What the edges and the answers say of each other.
EdgeInv ==
    /\ edges \subseteq Edge
    /\ friendKeys \in [FriendIds -> KeyRow \cup {NoFriendKey}]
    /\ \A e \in edges : e.low < e.high
    /\ \A e, f \in edges : Ends(e) = Ends(f) \/ e.id = f.id => e = f
    /\ \A i : (\E e \in edges : e.id = i) <=>
              /\ \E c \in FriendIds : friendKeys[c].op = "add" /\ friendKeys[c].edge = i
              /\ ~\E c \in FriendIds : friendKeys[c].op = "remove" /\ friendKeys[c].edge = i
    /\ \A c, d \in FriendIds :
          /\ friendKeys[c].op = "remove" /\ friendKeys[d].op = "remove" =>
                (friendKeys[c].edge = friendKeys[d].edge => c = d)
          /\ friendKeys[c].op = "add" /\ friendKeys[d].op = "add"
             /\ friendKeys[c].edge = friendKeys[d].edge =>
                PairOf(friendKeys[c]) = PairOf(friendKeys[d])
    /\ \A c \in FriendIds :
          friendKeys[c].op = "add" => friendKeys[c].by # friendKeys[c].peer
    /\ \A e \in edges, c \in FriendIds :
          friendKeys[c].op = "add" /\ friendKeys[c].edge = e.id =>
              PairOf(friendKeys[c]) = Ends(e)

AnswersOf(s) == {c \in FriendIds : friendKeys[c].by = s}

BumpInv ==
    /\ DOMAIN friendBumps = Spirits
    /\ \A s \in Spirits : /\ IsFiniteSet(AnswersOf(s))
                          /\ friendBumps[s] = Cardinality(AnswersOf(s))

FriendsIndInv == FriendTxInv /\ EdgeInv /\ BumpInv

LEMMA FriendConstants ==
    /\ Spirits \subseteq Nat \ {0} /\ FriendIds \subseteq Nat \ {0}
    /\ EdgeIds \subseteq Nat \ {0}
    /\ NoTx \notin TxRow /\ NoFriendKey \notin KeyRow
    /\ NoTx.phase = "idle" /\ NoFriendKey.op = "none" /\ NoFriendKey.by = 0
    /\ NoFriendKey.edge = 0
<1>1. Spirits \cup FriendIds \cup EdgeIds \subseteq Nat \ {0}
  BY FriendsAssumption
<1> QED
  BY <1>1 DEF NoTx, TxRow, NoFriendKey, KeyRow

LEMMA BusyTyped ==
    ASSUME FriendsIndInv, NEW h \in FriendHandlers
    PROVE  /\ h \in Busy <=> friendTx[h] # NoTx
           /\ h \in Busy => /\ friendTx[h] \in TxRow
                            /\ TxOK(friendTx[h], edges, friendKeys)
           /\ friendTx[h].phase # "idle" => h \in Busy
           /\ friendTx \in [FriendHandlers -> TxRow \cup {NoTx}]
<1>1. \A x \in TxRow : x.phase # "idle"
  BY DEF TxRow
<1> QED
  BY <1>1, FriendConstants DEF FriendsIndInv, FriendTxInv, Busy

-----------------------------------------------------------------------------
(* Friends: a statement, and a transaction that is lost. *)

LEMMA ApartSymmetric ==
    ASSUME NEW v, NEW w, Apart(v, w) PROVE Apart(w, v)
  BY DEF Apart

\* Only transaction h changes, from what it was to w.
LEMMA TxStep ==
    ASSUME FriendsIndInv, NEW h \in FriendHandlers, NEW w \in TxRow \cup {NoTx},
           friendTx' = [friendTx EXCEPT ![h] = w],
           UNCHANGED <<edges, friendKeys, friendBumps>>,
           w # NoTx => TxOK(w, edges, friendKeys),
           w # NoTx => \A k \in Busy \ {h} : Apart(w, friendTx[k])
    PROVE  FriendsIndInv'
<1>1. friendTx \in [FriendHandlers -> TxRow \cup {NoTx}]
  BY DEF FriendsIndInv, FriendTxInv
<1>2. friendTx' \in [FriendHandlers -> TxRow \cup {NoTx}]
  BY <1>1
<1>3. \A k \in Busy' \ {h} : k \in Busy /\ friendTx'[k] = friendTx[k]
  BY <1>1 DEF Busy
<1>4. h \in Busy' => w # NoTx /\ friendTx'[h] = w
  BY <1>1 DEF Busy
<1>5. ASSUME NEW k \in Busy' PROVE TxOK(friendTx'[k], edges', friendKeys')
  <2>1. CASE k = h
    BY <1>4, <2>1
  <2>2. CASE k # h
    BY <1>3, <2>2 DEF FriendsIndInv, FriendTxInv
  <2> QED
    BY <2>1, <2>2
<1>6. ASSUME NEW j \in Busy', NEW k \in Busy', j # k
      PROVE  Apart(friendTx'[j], friendTx'[k])
  <2>1. CASE j = h
    BY <1>3, <1>4, <1>6, <2>1
  <2>2. CASE k = h
    <3>1. Apart(w, friendTx[j]) /\ friendTx'[j] = friendTx[j] /\ friendTx'[k] = w
      BY <1>3, <1>4, <1>6, <2>2
    <3> QED
      BY <3>1, ApartSymmetric
  <2>3. CASE j # h /\ k # h
    BY <1>3, <1>6, <2>3 DEF FriendsIndInv, FriendTxInv
  <2> QED
    BY <2>1, <2>2, <2>3
<1>7. FriendTxInv'
  BY <1>2, <1>5, <1>6 DEF FriendTxInv
<1>8. EdgeInv' /\ BumpInv'
  BY DEF FriendsIndInv, EdgeInv, BumpInv, AnswersOf
<1> QED
  BY <1>7, <1>8 DEF FriendsIndInv

\* A transaction ends without a commit.
LEMMA LostTx ==
    ASSUME FriendsIndInv, NEW h \in FriendHandlers,
           friendTx' = [friendTx EXCEPT ![h] = NoTx],
           UNCHANGED <<edges, friendKeys, friendBumps>>
    PROVE  FriendsIndInv'
  BY TxStep

\* A transaction goes on as v says: what it is of, and who else is, stays.
LEMMA MoveTx ==
    ASSUME FriendsIndInv, NEW h \in Busy, NEW v \in TxRow,
           friendTx' = [friendTx EXCEPT ![h] = v],
           UNCHANGED <<edges, friendKeys, friendBumps>>,
           v.by = friendTx[h].by, v.peer = friendTx[h].peer, v.cid = friendTx[h].cid,
           Keeps(v) /\ ~Keeps(friendTx[h]) =>
               \A k \in Busy \ {h} : Keeps(friendTx[k]) => Pair(k) # PairOf(v),
           v.phase = "removed" =>
               /\ \A k \in Busy \ {h} : friendTx[k].phase = "removed" => Pair(k) # PairOf(v)
               /\ friendTx[h].phase = "removing"
               /\ \E e \in edges : e.id = v.edge,
           v.phase # "removing",
           v.edge # friendTx[h].edge =>
               \A k \in Busy \ {h} : Fresh(friendTx[k]) => friendTx[k].edge # v.edge,
           v.phase = "removed" => v.edge = friendTx[h].edge,
           Fresh(v) =>
               /\ v.edge \in EdgeIds
               /\ \A e \in edges : Ends(e) # PairOf(v)
               /\ \A c \in FriendIds : friendKeys[c].edge # v.edge
               /\ \A k \in Busy \ {h} : friendTx[k].edge # v.edge
    PROVE  FriendsIndInv'
<1>1. /\ h \in FriendHandlers /\ friendTx[h] \in TxRow
      /\ TxOK(friendTx[h], edges, friendKeys)
  BY BusyTyped DEF Busy
<1>2. PairOf(v) = PairOf(friendTx[h])
  BY DEF PairOf
<1>3. TxOK(v, edges, friendKeys)
  BY <1>1, <1>2 DEF TxOK
<1>4. ASSUME NEW k \in Busy \ {h} PROVE Apart(v, friendTx[k])
  <2>1. Apart(friendTx[h], friendTx[k])
    BY <1>4 DEF FriendsIndInv, FriendTxInv
  <2>2. Pair(k) = PairOf(friendTx[k])
    BY DEF Pair, PairOf
  <2> QED
    BY <1>2, <2>1, <2>2 DEF Apart
<1> QED
  BY <1>1, <1>3, <1>4, TxStep

\* The statements that only move a transaction to another phase.
LEMMA MovedTx ==
    ASSUME FriendsIndInv, NEW h \in Busy,
           NEW phase \in {"locked", "paired", "conflicted", "found", "checking",
                          "inserted", "removing", "removed"},
           Move(h, phase)
    PROVE  \E v \in TxRow :
              /\ friendTx' = [friendTx EXCEPT ![h] = v]
              /\ v.phase = phase /\ v.by = friendTx[h].by /\ v.peer = friendTx[h].peer
              /\ v.cid = friendTx[h].cid /\ v.edge = friendTx[h].edge
<1> DEFINE v == [friendTx[h] EXCEPT !.phase = phase]
<1>1. friendTx[h] \in TxRow
  BY BusyTyped DEF Busy
<1>2. /\ v \in TxRow /\ v.phase = phase /\ v.by = friendTx[h].by
      /\ v.peer = friendTx[h].peer /\ v.cid = friendTx[h].cid /\ v.edge = friendTx[h].edge
  BY <1>1 DEF TxRow
<1>3. friendTx' = [friendTx EXCEPT ![h] = v]
  BY DEF Move
<1> HIDE DEF v
<1> QED
  BY <1>2, <1>3

\* The pair of an edge is that of OrderedPair.
LEMMA SamePair ==
    ASSUME FriendsIndInv, NEW e \in edges, NEW s \in Spirits, NEW p \in Spirits, s # p
    PROVE  e \in EdgesOf(s, p) <=> Ends(e) = {s, p}
<1>1. /\ e \in Edge /\ e.low < e.high
  BY DEF FriendsIndInv, EdgeInv
<1>2. /\ e.low \in Nat /\ e.high \in Nat /\ s \in Nat /\ p \in Nat
  BY <1>1, FriendConstants DEF Edge
<1>3. e \in EdgesOf(s, p) <=> e.low = OrderedPair(s, p).low /\ e.high = OrderedPair(s, p).high
  BY DEF EdgesOf, OrderedPair
<1>4. CASE s < p
  BY <1>1, <1>2, <1>3, <1>4 DEF OrderedPair, Ends
<1>5. CASE p < s
  BY <1>1, <1>2, <1>3, <1>5 DEF OrderedPair, Ends
<1> QED
  BY <1>2, <1>4, <1>5

LEMMA StartInv ==
    ASSUME FriendsIndInv, NEW h \in FriendHandlers, NEW w \in TxRow,
           friendTx' = [friendTx EXCEPT ![h] = w],
           UNCHANGED <<edges, friendKeys, friendBumps>>,
           w.by # w.peer, SpiritTakers(w.by) = {}, NewFriendKey(w.cid),
           ~Keeps(w), w.phase # "removed",
           w.edge = 0 \/ \E d \in FriendIds : /\ friendKeys[d].op = "add"
                                               /\ friendKeys[d].edge = w.edge
                                               /\ PairOf(friendKeys[d]) = PairOf(w),
           w.phase = "removing" => w.edge # 0
    PROVE  FriendsIndInv'
<1>1. ~Fresh(w) /\ friendKeys[w.cid] = NoFriendKey
  BY DEF Keeps, Fresh, NewFriendKey
<1>2. TxOK(w, edges, friendKeys)
  BY <1>1 DEF TxOK
<1>3. ASSUME NEW k \in Busy \ {h} PROVE Apart(w, friendTx[k])
  <2>1. friendTx[k].by # w.by /\ friendTx[k].cid # w.cid
    BY DEF SpiritTakers, NewFriendKey
  <2>2. k \in FriendHandlers /\ TxOK(friendTx[k], edges, friendKeys)
    BY BusyTyped DEF Busy
  <2>3. Fresh(friendTx[k]) => friendTx[k].edge # w.edge
    BY <2>2, FriendConstants DEF TxOK
  <2> QED
    BY <1>1, <2>1, <2>3 DEF Apart
<1> QED
  BY <1>2, <1>3, TxStep

LEMMA StartAddInv ==
    ASSUME FriendsIndInv, NEW h \in FriendHandlers, NEW s \in Spirits, NEW p \in Spirits,
           NEW c \in FriendIds, StartAdd(h, s, p, c)
    PROVE  FriendsIndInv'
<1> DEFINE w == [phase |-> "locked", by |-> s, peer |-> p, cid |-> c, edge |-> 0]
<1>1. /\ w \in TxRow /\ w.phase = "locked" /\ w.by = s /\ w.peer = p /\ w.cid = c
      /\ w.edge = 0
  BY DEF TxRow
<1>2. /\ friendTx' = [friendTx EXCEPT ![h] = w] /\ s # p
      /\ SpiritTakers(s) = {} /\ NewFriendKey(c)
      /\ UNCHANGED <<edges, friendKeys, friendBumps>>
  BY DEF StartAdd
<1> HIDE DEF w
<1> QED
  BY <1>1, <1>2, StartInv DEF Keeps

LEMMA StartRemoveInv ==
    ASSUME FriendsIndInv, NEW h \in FriendHandlers, NEW s \in Spirits,
           NEW c \in FriendIds, NEW d \in FriendIds, StartRemove(h, s, c, d)
    PROVE  FriendsIndInv'
<1> DEFINE added == friendKeys[d]
           peer == IF s = added.by THEN added.peer ELSE added.by
           w == [phase |-> "removing", by |-> s, cid |-> c, edge |-> added.edge, peer |-> peer]
<1>1. /\ added.op = "add" /\ s \in {added.by, added.peer}
      /\ SpiritTakers(s) = {} /\ NewFriendKey(c)
      /\ friendTx' = [friendTx EXCEPT ![h] = w]
      /\ UNCHANGED <<edges, friendKeys, friendBumps>>
  BY DEF StartRemove
<1>2. added \in KeyRow
  BY <1>1, FriendConstants DEF FriendsIndInv, EdgeInv
<1>3. /\ w \in TxRow /\ w.phase = "removing" /\ w.by = s /\ w.peer = peer /\ w.cid = c
      /\ w.edge = added.edge /\ w.edge # 0
  BY <1>2, FriendConstants DEF KeyRow, TxRow
<1>4. PairOf(added) = PairOf(w)
  BY <1>1, <1>3 DEF PairOf
<1>5. added.by # added.peer => w.by # w.peer
  BY <1>1, <1>3
<1>6. added.by # added.peer
  BY <1>1 DEF FriendsIndInv, EdgeInv
<1> HIDE DEF w, added
<1> QED
  BY <1>1, <1>3, <1>4, <1>5, <1>6, StartInv DEF Keeps, added

LEMMA LockPairInv ==
    ASSUME FriendsIndInv, NEW h \in FriendHandlers, LockPair(h) PROVE FriendsIndInv'
<1>1. /\ friendTx[h].phase = "locked" /\ ~Waits(h) /\ Move(h, "paired")
      /\ UNCHANGED <<edges, friendKeys, friendBumps>>
  BY DEF LockPair
<1>2. h \in Busy
  BY <1>1, BusyTyped
<1>3. PICK v \in TxRow :
          /\ friendTx' = [friendTx EXCEPT ![h] = v]
          /\ v.phase = "paired" /\ v.by = friendTx[h].by /\ v.peer = friendTx[h].peer
          /\ v.cid = friendTx[h].cid /\ v.edge = friendTx[h].edge
  BY <1>1, <1>2, MovedTx
<1>4. \A k \in Busy \ {h} : Keeps(friendTx[k]) => Pair(k) # PairOf(v)
  <2>1. \A k \in FriendHandlers \ {h} : k \notin PairKeepers(Pair(h))
    BY <1>1 DEF Waits, WaitsFor
  <2>2. PairOf(v) = Pair(h)
    BY <1>3 DEF PairOf, Pair
  <2> QED
    BY <2>1, <2>2 DEF PairKeepers, Keeps, Busy
<1>5. ~Fresh(v) /\ v.phase # "removed" /\ v.phase # "removing"
  BY <1>3 DEF Fresh
<1> QED
  BY <1>1, <1>2, <1>3, <1>4, <1>5, MoveTx

LEMMA InsertEdgeInv ==
    ASSUME FriendsIndInv, NEW h \in FriendHandlers, InsertEdge(h) PROVE FriendsIndInv'
<1> DEFINE tx == friendTx[h]
<1>1. /\ tx.phase = "paired" /\ UNCHANGED <<edges, friendKeys, friendBumps>>
      /\ \/ Move(h, "conflicted")
         \/ /\ EdgesOf(tx.by, tx.peer) = {}
            /\ \E e \in FirstNew(EdgeIds, NewEdge) :
                  friendTx' = [friendTx EXCEPT ![h] = [tx EXCEPT !.phase = "checking", !.edge = e]]
  BY DEF InsertEdge
<1>2. /\ h \in Busy /\ tx \in TxRow /\ TxOK(tx, edges, friendKeys) /\ Keeps(tx)
  BY <1>1, BusyTyped DEF Keeps
<1> HIDE DEF tx
<1>3. CASE Move(h, "conflicted")
  <2>1. PICK v \in TxRow :
            /\ friendTx' = [friendTx EXCEPT ![h] = v]
            /\ v.phase = "conflicted" /\ v.by = friendTx[h].by /\ v.peer = friendTx[h].peer
            /\ v.cid = friendTx[h].cid /\ v.edge = friendTx[h].edge
    BY <1>2, <1>3, MovedTx
  <2>2. ~Fresh(v) /\ v.phase # "removed" /\ v.phase # "removing"
    BY <2>1 DEF Fresh
  <2> QED
    BY <1>1, <1>2, <2>1, <2>2, MoveTx DEF tx
<1>4. ASSUME NEW e \in FirstNew(EdgeIds, NewEdge), EdgesOf(tx.by, tx.peer) = {},
             friendTx' = [friendTx EXCEPT ![h] = [tx EXCEPT !.phase = "checking", !.edge = e]]
      PROVE  FriendsIndInv'
  <2> DEFINE v == [tx EXCEPT !.phase = "checking", !.edge = e]
  <2>1. e \in EdgeIds /\ NewEdge(e)
    BY <1>4 DEF FirstNew
  <2>2. /\ v \in TxRow /\ v.phase = "checking" /\ v.edge = e /\ v.by = tx.by
        /\ v.peer = tx.peer /\ v.cid = tx.cid
    BY <1>2, <2>1 DEF TxRow
  <2>3. friendTx' = [friendTx EXCEPT ![h] = v]
    BY <1>4
  <2> HIDE DEF v
  <2>4. \A f \in edges : Ends(f) # PairOf(v)
    <3>1. /\ tx.by \in Spirits /\ tx.peer \in Spirits /\ tx.by # tx.peer
      BY <1>2 DEF TxRow, TxOK
    <3> QED
      BY <1>4, <2>2, <3>1, SamePair DEF PairOf
  <2>5. /\ \A c \in FriendIds : friendKeys[c].edge # e
        /\ \A k \in Busy : friendTx[k].edge # e
    BY <2>1 DEF NewEdge
  <2>6. v.phase # "removed" /\ v.phase # "removing"
    BY <2>2
  <2> QED
    BY <1>1, <1>2, <2>1, <2>2, <2>3, <2>4, <2>5, <2>6, MoveTx DEF tx
<1> QED
  BY <1>1, <1>3, <1>4

LEMMA CheckEdgeInv ==
    ASSUME FriendsIndInv, NEW h \in FriendHandlers, CheckEdge(h) PROVE FriendsIndInv'
<1>1. /\ friendTx[h].phase = "checking" /\ Move(h, "inserted")
      /\ UNCHANGED <<edges, friendKeys, friendBumps>>
  BY DEF CheckEdge
<1>2. /\ h \in Busy /\ TxOK(friendTx[h], edges, friendKeys) /\ Keeps(friendTx[h])
      /\ Fresh(friendTx[h])
  BY <1>1, BusyTyped DEF Keeps, Fresh
<1>3. PICK v \in TxRow :
          /\ friendTx' = [friendTx EXCEPT ![h] = v]
          /\ v.phase = "inserted" /\ v.by = friendTx[h].by /\ v.peer = friendTx[h].peer
          /\ v.cid = friendTx[h].cid /\ v.edge = friendTx[h].edge
  BY <1>1, <1>2, MovedTx
<1>4. \A k \in Busy \ {h} : friendTx[k].edge # v.edge
  BY <1>2, <1>3 DEF FriendsIndInv, FriendTxInv, Apart
<1>5. v.phase # "removed" /\ v.phase # "removing" /\ PairOf(v) = PairOf(friendTx[h])
  BY <1>3 DEF PairOf
<1>6. /\ v.edge \in EdgeIds
      /\ \A e \in edges : Ends(e) # PairOf(v)
      /\ \A c \in FriendIds : friendKeys[c].edge # v.edge
  BY <1>2, <1>3, <1>5 DEF TxOK
<1> QED
  BY <1>1, <1>2, <1>3, <1>4, <1>5, <1>6, MoveTx

LEMMA FindEdgeInv ==
    ASSUME FriendsIndInv, NEW h \in FriendHandlers, FindEdge(h) PROVE FriendsIndInv'
<1> DEFINE tx == friendTx[h]
<1>1. /\ tx.phase = "conflicted" /\ UNCHANGED <<edges, friendKeys, friendBumps>>
      /\ \/ \E e \in EdgesOf(tx.by, tx.peer) :
               friendTx' = [friendTx EXCEPT ![h] = [tx EXCEPT !.phase = "found", !.edge = e.id]]
         \/ friendTx' = [friendTx EXCEPT ![h] = NoTx]
  BY DEF FindEdge
<1>2. h \in Busy /\ tx \in TxRow /\ Keeps(tx)
  BY <1>1, BusyTyped DEF Keeps
<1> HIDE DEF tx
<1>3. ASSUME NEW e \in EdgesOf(tx.by, tx.peer),
             friendTx' = [friendTx EXCEPT ![h] = [tx EXCEPT !.phase = "found", !.edge = e.id]]
      PROVE  FriendsIndInv'
  <2> DEFINE v == [tx EXCEPT !.phase = "found", !.edge = e.id]
  <2>1. e \in edges /\ e.id \in EdgeIds
    BY <1>3 DEF EdgesOf, FriendsIndInv, EdgeInv, Edge
  <2>2. /\ v \in TxRow /\ v.phase = "found" /\ v.edge = e.id /\ v.by = tx.by
        /\ v.peer = tx.peer /\ v.cid = tx.cid
    BY <1>2, <2>1 DEF TxRow
  <2>3. friendTx' = [friendTx EXCEPT ![h] = v]
    BY <1>3
  <2> HIDE DEF v
  <2>4. PICK c \in FriendIds : friendKeys[c].edge = e.id
    BY <2>1 DEF FriendsIndInv, EdgeInv
  <2>5. \A k \in Busy \ {h} : Fresh(friendTx[k]) => friendTx[k].edge # v.edge
    BY <2>2, <2>4 DEF FriendsIndInv, FriendTxInv, TxOK
  <2>6. ~Fresh(v) /\ v.phase # "removed" /\ v.phase # "removing"
    BY <2>2 DEF Fresh
  <2> QED
    BY <1>1, <1>2, <2>2, <2>3, <2>5, <2>6, MoveTx DEF tx
<1> QED
  BY <1>1, <1>3, LostTx

LEMMA DeleteEdgeInv ==
    ASSUME FriendsIndInv, NEW h \in FriendHandlers, DeleteEdge(h) PROVE FriendsIndInv'
<1>1. /\ friendTx[h].phase = "removing" /\ ~Waits(h)
      /\ UNCHANGED <<edges, friendKeys, friendBumps>>
      /\ \/ Removed(h) /\ Move(h, "removed")
         \/ friendTx' = [friendTx EXCEPT ![h] = NoTx]
  BY DEF DeleteEdge
<1>2. h \in Busy
  BY <1>1, BusyTyped
<1>3. CASE Removed(h) /\ Move(h, "removed")
  <2>1. PICK v \in TxRow :
            /\ friendTx' = [friendTx EXCEPT ![h] = v]
            /\ v.phase = "removed" /\ v.by = friendTx[h].by /\ v.peer = friendTx[h].peer
            /\ v.cid = friendTx[h].cid /\ v.edge = friendTx[h].edge
    BY <1>2, <1>3, MovedTx
  <2>2. \A k \in Busy \ {h} : friendTx[k].phase = "removed" => Pair(k) # PairOf(v)
    <3>1. \A k \in FriendHandlers \ {h} :
              ~(friendTx[k].phase = "removed" /\ Pair(h) = Pair(k))
      BY <1>1 DEF Waits, WaitsFor
    <3>2. PairOf(v) = Pair(h)
      BY <2>1 DEF PairOf, Pair
    <3> QED
      BY <3>1, <3>2 DEF Busy
  <2>3. \E e \in edges : e.id = v.edge
    BY <1>3, <2>1 DEF Removed
  <2>4. ~Fresh(v) /\ ~Keeps(v) /\ v.phase # "removing"
    BY <2>1 DEF Fresh, Keeps
  <2> QED
    BY <1>1, <1>2, <2>1, <2>2, <2>3, <2>4, MoveTx
<1> QED
  BY <1>1, <1>3, LostTx

-----------------------------------------------------------------------------
(* Friends: the commits. *)

\* The answer of h: its client id had none, and nobody else answers under it.
LEMMA AnsweredKeys ==
    ASSUME FriendsIndInv, NEW h \in Busy, NEW op \in {"add", "remove"},
           friendTx[h].edge \in EdgeIds, friendKeys' = Answered(h, op)
    PROVE  LET c == friendTx[h].cid
           IN /\ c \in FriendIds /\ friendKeys[c] = NoFriendKey
              /\ friendKeys' \in [FriendIds -> KeyRow \cup {NoFriendKey}]
              /\ friendKeys'[c].op = op /\ friendKeys'[c].edge = friendTx[h].edge
              /\ friendKeys'[c].by = friendTx[h].by /\ friendKeys'[c].peer = friendTx[h].peer
              /\ friendKeys'[c].by # friendKeys'[c].peer
              /\ PairOf(friendKeys'[c]) = PairOf(friendTx[h])
              /\ \A d \in FriendIds : d # c => friendKeys'[d] = friendKeys[d]
<1> DEFINE c == friendTx[h].cid
           r == [op |-> op, by |-> friendTx[h].by, peer |-> friendTx[h].peer,
                 edge |-> friendTx[h].edge]
<1>1. friendTx[h] \in TxRow /\ TxOK(friendTx[h], edges, friendKeys)
  BY BusyTyped DEF Busy
<1>2. /\ r \in KeyRow /\ r.op = op /\ r.edge = friendTx[h].edge /\ r.by = friendTx[h].by
      /\ r.peer = friendTx[h].peer /\ r.by # r.peer
  BY <1>1 DEF TxRow, KeyRow, TxOK
<1>3. c \in FriendIds /\ friendKeys[c] = NoFriendKey
  BY <1>1 DEF TxRow, TxOK
<1>4. friendKeys' = [friendKeys EXCEPT ![c] = r]
  BY DEF Answered
<1>5. friendKeys \in [FriendIds -> KeyRow \cup {NoFriendKey}]
  BY DEF FriendsIndInv, EdgeInv
<1> HIDE DEF c, r
<1>6. friendKeys'[c] = r /\ \A d \in FriendIds : d # c => friendKeys'[d] = friendKeys[d]
  BY <1>3, <1>4, <1>5
<1>7. friendKeys' \in [FriendIds -> KeyRow \cup {NoFriendKey}]
  BY <1>2, <1>4, <1>5
<1> QED
  BY <1>2, <1>3, <1>6, <1>7 DEF PairOf, c

\* The version of the caller counts the answer.
LEMMA CommitBumps ==
    ASSUME FriendsIndInv, NEW h \in Busy, NEW op \in {"add", "remove"},
           friendTx[h].edge \in EdgeIds, friendKeys' = Answered(h, op),
           friendBumps' = Bump(h)
    PROVE  BumpInv'
<1> DEFINE c == friendTx[h].cid
           by == friendTx[h].by
<1>1. /\ c \in FriendIds /\ friendKeys[c] = NoFriendKey /\ friendKeys'[c].by = by
      /\ \A d \in FriendIds : d # c => friendKeys'[d] = friendKeys[d]
  BY AnsweredKeys
<1>2. by \in Spirits
  BY BusyTyped DEF Busy, TxRow
<1>3. friendBumps' = [friendBumps EXCEPT ![by] = @ + 1]
  BY DEF Bump
<1>4. /\ DOMAIN friendBumps = Spirits
      /\ \A s \in Spirits : /\ IsFiniteSet(AnswersOf(s))
                            /\ friendBumps[s] = Cardinality(AnswersOf(s))
  BY DEF FriendsIndInv, BumpInv
<1> HIDE DEF c, by
<1>5. ASSUME NEW s \in Spirits
      PROVE  /\ IsFiniteSet(AnswersOf(s)')
             /\ friendBumps'[s] = Cardinality(AnswersOf(s)')
  <2>1. s # 0 /\ c \notin AnswersOf(s)
    BY <1>1, FriendConstants DEF AnswersOf
  <2>2. CASE s = by
    <3>1. AnswersOf(s)' = AnswersOf(s) \cup {c}
      BY <1>1, <2>1, <2>2 DEF AnswersOf
    <3>2. /\ IsFiniteSet(AnswersOf(s) \cup {c})
          /\ Cardinality(AnswersOf(s) \cup {c}) = Cardinality(AnswersOf(s)) + 1
      BY <1>4, <2>1, FS_AddElement
    <3>3. friendBumps'[s] = friendBumps[s] + 1
      BY <1>2, <1>3, <1>4, <2>2
    <3> QED
      BY <1>4, <3>1, <3>2, <3>3
  <2>3. CASE s # by
    <3>1. AnswersOf(s)' = AnswersOf(s)
      BY <1>1, <2>1, <2>3 DEF AnswersOf
    <3>2. friendBumps'[s] = friendBumps[s]
      BY <1>3, <1>4, <2>3
    <3> QED
      BY <1>4, <3>1, <3>2
  <2> QED
    BY <2>2, <2>3
<1>6. DOMAIN friendBumps' = Spirits
  BY <1>3, <1>4
<1> QED
  BY <1>5, <1>6 DEF BumpInv

\* A commit leaves to the others what they rely on.
LEMMA CommitTx ==
    ASSUME FriendsIndInv, NEW h \in Busy, NEW op \in {"add", "remove"},
           friendTx[h].edge \in EdgeIds, friendKeys' = Answered(h, op),
           friendTx' = [friendTx EXCEPT ![h] = NoTx],
           \A k \in Busy \ {h} : Fresh(friendTx[k]) =>
               \A e \in edges' : Ends(e) # PairOf(friendTx[k]),
           \A k \in Busy \ {h} : friendTx[k].phase = "removed" =>
               \E e \in edges' : e.id = friendTx[k].edge
    PROVE  FriendTxInv'
<1> DEFINE c == friendTx[h].cid
<1>1. friendTx \in [FriendHandlers -> TxRow \cup {NoTx}]
  BY DEF FriendsIndInv, FriendTxInv
<1>2. Busy' = Busy \ {h} /\ \A k \in Busy' : friendTx'[k] = friendTx[k]
  BY <1>1 DEF Busy
<1>3. /\ c \in FriendIds /\ friendKeys[c] = NoFriendKey
      /\ friendKeys'[c].edge = friendTx[h].edge
      /\ \A d \in FriendIds : d # c => friendKeys'[d] = friendKeys[d]
  BY AnsweredKeys
<1>4. ASSUME NEW k \in Busy' PROVE TxOK(friendTx'[k], edges', friendKeys')
  <2> DEFINE w == friendTx[k]
  <2>1. /\ k \in Busy \ {h} /\ friendTx'[k] = w /\ w \in TxRow
        /\ TxOK(w, edges, friendKeys) /\ Apart(friendTx[h], w)
    BY <1>2, BusyTyped DEF FriendsIndInv, FriendTxInv, Busy
  <2>2. friendKeys'[w.cid] = NoFriendKey
    BY <1>3, <2>1 DEF TxOK, Apart, TxRow
  <2>3. Fresh(w) => /\ w.edge \in EdgeIds
                    /\ \A e \in edges' : Ends(e) # PairOf(w)
                    /\ \A d \in FriendIds : friendKeys'[d].edge # w.edge
    BY <1>3, <2>1 DEF TxOK, Apart
  <2>4. w.phase \in {"removing", "removed"} =>
            \E d \in FriendIds : /\ friendKeys'[d].op = "add" /\ friendKeys'[d].edge = w.edge
                                 /\ PairOf(friendKeys'[d]) = PairOf(w)
    <3> SUFFICES ASSUME w.phase \in {"removing", "removed"}
                 PROVE  \E d \in FriendIds :
                           /\ friendKeys'[d].op = "add" /\ friendKeys'[d].edge = w.edge
                           /\ PairOf(friendKeys'[d]) = PairOf(w)
      OBVIOUS
    <3>1. PICK d \in FriendIds : /\ friendKeys[d].op = "add" /\ friendKeys[d].edge = w.edge
                                 /\ PairOf(friendKeys[d]) = PairOf(w)
      BY <2>1 DEF TxOK
    <3>2. d # c
      BY <1>3, <3>1, FriendConstants
    <3> QED
      BY <1>3, <3>1, <3>2
  <2>5. w.by # w.peer /\ (w.phase = "removed" => \E e \in edges' : e.id = w.edge)
    BY <2>1 DEF TxOK
  <2> QED
    BY <2>1, <2>2, <2>3, <2>4, <2>5 DEF TxOK
<1>5. \A j, k \in Busy' : j # k => Apart(friendTx'[j], friendTx'[k])
  BY <1>2 DEF FriendsIndInv, FriendTxInv
<1>6. friendTx' \in [FriendHandlers -> TxRow \cup {NoTx}]
  BY <1>1
<1> QED
  BY <1>4, <1>5, <1>6 DEF FriendTxInv

\* The row that an add inserts, or finds.
LEMMA OrderedRow ==
    ASSUME NEW i \in EdgeIds, NEW s \in Spirits, NEW p \in Spirits, s # p,
           NEW new, new = [id |-> i, low |-> OrderedPair(s, p).low,
                           high |-> OrderedPair(s, p).high]
    PROVE  new \in Edge /\ new.id = i /\ new.low < new.high /\ Ends(new) = {s, p}
<1>1. s \in Nat /\ p \in Nat
  BY FriendConstants
<1>2. CASE s < p
  BY <1>2 DEF OrderedPair, Edge, Ends
<1>3. CASE p < s
  BY <1>1, <1>3 DEF OrderedPair, Edge, Ends
<1> QED
  BY <1>1, <1>2, <1>3

\* An add is answered: with the edge it inserts, the first of its pair, or with one
\* that is there.
LEMMA AddedEdges ==
    ASSUME FriendsIndInv, NEW h \in Busy, NEW new \in Edge,
           new.id = friendTx[h].edge, new.low < new.high, Ends(new) = PairOf(friendTx[h]),
           Fresh(friendTx[h]) \/ new \in edges,
           edges' = edges \cup {new}, friendKeys' = Answered(h, "add")
    PROVE  EdgeInv'
<1> DEFINE c == friendTx[h].cid
<1>1. new.id \in EdgeIds
  BY DEF Edge
<1>2. /\ c \in FriendIds /\ friendKeys[c] = NoFriendKey
      /\ friendKeys' \in [FriendIds -> KeyRow \cup {NoFriendKey}]
      /\ friendKeys'[c].op = "add" /\ friendKeys'[c].edge = new.id
      /\ friendKeys'[c].by # friendKeys'[c].peer /\ PairOf(friendKeys'[c]) = Ends(new)
      /\ \A d \in FriendIds : d # c => friendKeys'[d] = friendKeys[d]
  BY <1>1, AnsweredKeys
<1>3. \/ new \in edges
      \/ /\ \A e \in edges : Ends(e) # Ends(new)
         /\ \A d \in FriendIds : friendKeys[d].edge # new.id
  BY BusyTyped DEF TxOK, Busy
<1> HIDE DEF c
<1>4. EdgeInv
  BY DEF FriendsIndInv
<1>5. friendKeys[c].op = "none" /\ friendKeys[c].edge = 0 /\ new.id # 0
  BY <1>1, <1>2, FriendConstants
<1>6. \A e, f \in edges' : Ends(e) = Ends(f) \/ e.id = f.id => e = f
  <2>1. \A e \in edges : Ends(e) = Ends(new) \/ e.id = new.id => e = new
    BY <1>3, <1>4 DEF EdgeInv
  <2> QED
    BY <1>4, <2>1 DEF EdgeInv
<1>7. ASSUME NEW i
      PROVE  (\E e \in edges' : e.id = i) <=>
             /\ \E d \in FriendIds : friendKeys'[d].op = "add" /\ friendKeys'[d].edge = i
             /\ ~\E d \in FriendIds : friendKeys'[d].op = "remove" /\ friendKeys'[d].edge = i
  <2>1. (\E e \in edges : e.id = i) <=>
        /\ \E d \in FriendIds : friendKeys[d].op = "add" /\ friendKeys[d].edge = i
        /\ ~\E d \in FriendIds : friendKeys[d].op = "remove" /\ friendKeys[d].edge = i
    BY <1>4 DEF EdgeInv
  <2>2. (\E d \in FriendIds : friendKeys'[d].op = "remove" /\ friendKeys'[d].edge = i)
        <=> (\E d \in FriendIds : friendKeys[d].op = "remove" /\ friendKeys[d].edge = i)
    BY <1>2, <1>5
  <2>3. (\E d \in FriendIds : friendKeys'[d].op = "add" /\ friendKeys'[d].edge = i)
        <=> (i = new.id \/ \E d \in FriendIds : friendKeys[d].op = "add" /\ friendKeys[d].edge = i)
    BY <1>2, <1>5
  <2>4. CASE i = new.id
    <3>1. \E e \in edges' : e.id = i
      BY <2>4
    <3>2. ~\E d \in FriendIds : friendKeys[d].op = "remove" /\ friendKeys[d].edge = i
      BY <1>3, <2>1, <2>4
    <3> QED
      BY <2>2, <2>3, <2>4, <3>1, <3>2
  <2>5. CASE i # new.id
    <3>1. (\E e \in edges' : e.id = i) <=> \E e \in edges : e.id = i
      BY <2>5
    <3> QED
      BY <2>1, <2>2, <2>3, <2>5, <3>1
  <2> QED
    BY <2>4, <2>5
<1>8. \A e \in edges', d \in FriendIds :
          friendKeys'[d].op = "add" /\ friendKeys'[d].edge = e.id =>
              PairOf(friendKeys'[d]) = Ends(e)
  <2> SUFFICES ASSUME NEW e \in edges', NEW d \in FriendIds,
                      friendKeys'[d].op = "add", friendKeys'[d].edge = e.id
               PROVE  PairOf(friendKeys'[d]) = Ends(e)
    OBVIOUS
  <2>1. CASE d = c
    <3>1. e.id = new.id /\ new \in edges'
      BY <1>2, <2>1
    <3> QED
      BY <1>2, <1>6, <2>1, <3>1
  <2>2. CASE d # c
    <3>1. friendKeys'[d] = friendKeys[d]
      BY <1>2, <2>2
    <3>2. e \in edges
      BY <1>3, <3>1
    <3> QED
      BY <1>4, <3>1, <3>2 DEF EdgeInv
  <2> QED
    BY <2>1, <2>2
<1>9. ASSUME NEW a \in FriendIds, NEW d \in FriendIds
      PROVE  /\ friendKeys'[a].op = "remove" /\ friendKeys'[d].op = "remove" =>
                   (friendKeys'[a].edge = friendKeys'[d].edge => a = d)
             /\ friendKeys'[a].op = "add" /\ friendKeys'[d].op = "add"
                /\ friendKeys'[a].edge = friendKeys'[d].edge =>
                   PairOf(friendKeys'[a]) = PairOf(friendKeys'[d])
  <2>1. friendKeys'[a].op = "remove" /\ friendKeys'[d].op = "remove" =>
            (friendKeys'[a].edge = friendKeys'[d].edge => a = d)
    BY <1>2, <1>4 DEF EdgeInv
  <2>2. ASSUME friendKeys'[a].op = "add", friendKeys'[d].op = "add",
               friendKeys'[a].edge = friendKeys'[d].edge
        PROVE  PairOf(friendKeys'[a]) = PairOf(friendKeys'[d])
    <3>1. CASE friendKeys'[a].edge = new.id
      BY <1>8, <2>2, <3>1
    <3>2. CASE friendKeys'[a].edge # new.id
      <4>1. a # c /\ d # c
        BY <1>2, <2>2, <3>2
      <4> QED
        BY <1>2, <1>4, <2>2, <4>1 DEF EdgeInv
    <3> QED
      BY <3>1, <3>2
  <2> QED
    BY <2>1, <2>2
<1>10. \A d \in FriendIds :
           friendKeys'[d].op = "add" => friendKeys'[d].by # friendKeys'[d].peer
  BY <1>2, <1>4 DEF EdgeInv
<1>11. edges' \subseteq Edge /\ \A e \in edges' : e.low < e.high
  BY <1>4 DEF EdgeInv
<1> QED
  BY <1>2, <1>6, <1>7, <1>8, <1>9, <1>10, <1>11 DEF EdgeInv

LEMMA FinishAddInv ==
    ASSUME FriendsIndInv, NEW h \in FriendHandlers, FinishAdd(h) PROVE FriendsIndInv'
<1> DEFINE tx == friendTx[h]
           new == [id |-> tx.edge, low |-> OrderedPair(tx.by, tx.peer).low,
                   high |-> OrderedPair(tx.by, tx.peer).high]
<1>1. /\ \/ tx.phase = "inserted" /\ edges' = edges \cup {new}
         \/ tx.phase = "found" /\ new \in edges /\ edges' = edges
      /\ friendKeys' = Answered(h, "add") /\ friendBumps' = Bump(h)
      /\ friendTx' = [friendTx EXCEPT ![h] = NoTx]
  BY DEF FinishAdd
<1>2. h \in Busy /\ tx \in TxRow /\ TxOK(tx, edges, friendKeys) /\ Keeps(tx)
  BY <1>1, BusyTyped DEF Keeps
<1>3. edges' = edges \cup {new} /\ (Fresh(tx) \/ new \in edges)
  BY <1>1 DEF Fresh
<1>4. tx.edge \in EdgeIds
  <2>1. CASE Fresh(tx)
    BY <1>2, <2>1 DEF TxOK
  <2>2. CASE new \in edges
    <3>1. new.id \in EdgeIds
      BY <2>2 DEF FriendsIndInv, EdgeInv, Edge
    <3> QED
      BY <3>1
  <2> QED
    BY <1>3, <2>1, <2>2
<1>5. /\ new \in Edge /\ new.id = tx.edge /\ new.low < new.high
      /\ Ends(new) = PairOf(tx)
  <2>1. tx.by \in Spirits /\ tx.peer \in Spirits /\ tx.by # tx.peer
    BY <1>2 DEF TxRow, TxOK
  <2> QED
    BY <1>4, <2>1, OrderedRow DEF PairOf
<1> HIDE DEF new
<1>6. EdgeInv'
  BY <1>1, <1>2, <1>3, <1>5, AddedEdges
<1>7. BumpInv'
  BY <1>1, <1>2, <1>4, CommitBumps
<1>8. ASSUME NEW k \in Busy \ {h}, Fresh(friendTx[k]), NEW e \in edges'
      PROVE  Ends(e) # PairOf(friendTx[k])
  <2>1. TxOK(friendTx[k], edges, friendKeys) /\ Apart(tx, friendTx[k])
    BY <1>2 DEF FriendsIndInv, FriendTxInv
  <2>2. Keeps(friendTx[k])
    BY <1>8 DEF Fresh, Keeps
  <2>3. PairOf(tx) # PairOf(friendTx[k])
    BY <1>2, <2>1, <2>2 DEF Apart
  <2>4. \A f \in edges : Ends(f) # PairOf(friendTx[k])
    BY <1>8, <2>1 DEF TxOK
  <2> QED
    BY <1>3, <1>5, <2>3, <2>4
<1>9. \A k \in Busy \ {h} : friendTx[k].phase = "removed" =>
          \E e \in edges' : e.id = friendTx[k].edge
  BY <1>3 DEF FriendsIndInv, FriendTxInv, TxOK
<1>10. FriendTxInv'
  BY <1>1, <1>2, <1>4, <1>8, <1>9, CommitTx
<1> QED
  BY <1>6, <1>7, <1>10 DEF FriendsIndInv

\* A remove is answered: its edge was there, and no answer has removed it.
LEMMA RemovedEdges ==
    ASSUME FriendsIndInv, NEW h \in Busy, friendTx[h].phase = "removed",
           friendTx[h].edge \in EdgeIds,
           edges' = {e \in edges : e.id # friendTx[h].edge},
           friendKeys' = Answered(h, "remove")
    PROVE  EdgeInv'
<1> DEFINE c == friendTx[h].cid
           x == friendTx[h].edge
<1>1. /\ c \in FriendIds /\ friendKeys[c] = NoFriendKey
      /\ friendKeys' \in [FriendIds -> KeyRow \cup {NoFriendKey}]
      /\ friendKeys'[c].op = "remove" /\ friendKeys'[c].edge = x
      /\ \A d \in FriendIds : d # c => friendKeys'[d] = friendKeys[d]
  BY AnsweredKeys
<1>2. \E e \in edges : e.id = x
  BY BusyTyped DEF TxOK, Busy
<1> HIDE DEF c, x
<1>3. EdgeInv
  BY DEF FriendsIndInv
<1>4. friendKeys[c].op = "none"
  BY <1>1, FriendConstants
<1>5. edges' = {e \in edges : e.id # x}
  BY DEF x
<1>6. \A d \in FriendIds : ~(friendKeys[d].op = "remove" /\ friendKeys[d].edge = x)
  BY <1>2, <1>3 DEF EdgeInv
<1>7. ASSUME NEW i
      PROVE  (\E e \in edges' : e.id = i) <=>
             /\ \E d \in FriendIds : friendKeys'[d].op = "add" /\ friendKeys'[d].edge = i
             /\ ~\E d \in FriendIds : friendKeys'[d].op = "remove" /\ friendKeys'[d].edge = i
  <2>1. (\E e \in edges : e.id = i) <=>
        /\ \E d \in FriendIds : friendKeys[d].op = "add" /\ friendKeys[d].edge = i
        /\ ~\E d \in FriendIds : friendKeys[d].op = "remove" /\ friendKeys[d].edge = i
    BY <1>3 DEF EdgeInv
  <2>2. (\E d \in FriendIds : friendKeys'[d].op = "add" /\ friendKeys'[d].edge = i)
        <=> (\E d \in FriendIds : friendKeys[d].op = "add" /\ friendKeys[d].edge = i)
    BY <1>1, <1>4
  <2>3. (\E d \in FriendIds : friendKeys'[d].op = "remove" /\ friendKeys'[d].edge = i)
        <=> (i = x \/ \E d \in FriendIds : friendKeys[d].op = "remove" /\ friendKeys[d].edge = i)
    BY <1>1, <1>4
  <2>4. (\E e \in edges' : e.id = i) <=> i # x /\ \E e \in edges : e.id = i
    BY <1>5
  <2> QED
    BY <2>1, <2>2, <2>3, <2>4
<1>8. ASSUME NEW a \in FriendIds, NEW d \in FriendIds
      PROVE  /\ friendKeys'[a].op = "remove" /\ friendKeys'[d].op = "remove" =>
                   (friendKeys'[a].edge = friendKeys'[d].edge => a = d)
             /\ friendKeys'[a].op = "add" /\ friendKeys'[d].op = "add"
                /\ friendKeys'[a].edge = friendKeys'[d].edge =>
                   PairOf(friendKeys'[a]) = PairOf(friendKeys'[d])
  <2>1. friendKeys'[a].op = "remove" /\ friendKeys'[d].op = "remove" =>
            (friendKeys'[a].edge = friendKeys'[d].edge => a = d)
    BY <1>1, <1>3, <1>6 DEF EdgeInv
  <2>2. friendKeys'[a].op = "add" /\ friendKeys'[d].op = "add"
        /\ friendKeys'[a].edge = friendKeys'[d].edge =>
            PairOf(friendKeys'[a]) = PairOf(friendKeys'[d])
    BY <1>1, <1>3 DEF EdgeInv
  <2> QED
    BY <2>1, <2>2
<1>9. \A d \in FriendIds :
          friendKeys'[d].op = "add" => friendKeys'[d].by # friendKeys'[d].peer
  BY <1>1, <1>3 DEF EdgeInv
<1>10. \A e \in edges', d \in FriendIds :
           friendKeys'[d].op = "add" /\ friendKeys'[d].edge = e.id =>
               PairOf(friendKeys'[d]) = Ends(e)
  BY <1>1, <1>3, <1>5 DEF EdgeInv
<1>11. /\ edges' \subseteq Edge /\ \A e \in edges' : e.low < e.high
       /\ \A e, f \in edges' : Ends(e) = Ends(f) \/ e.id = f.id => e = f
  BY <1>3, <1>5 DEF EdgeInv
<1> QED
  BY <1>1, <1>7, <1>8, <1>9, <1>10, <1>11 DEF EdgeInv

LEMMA FinishRemoveInv ==
    ASSUME FriendsIndInv, NEW h \in FriendHandlers, FinishRemove(h) PROVE FriendsIndInv'
<1> DEFINE tx == friendTx[h]
<1>1. /\ tx.phase = "removed" /\ edges' = {e \in edges : e.id # tx.edge}
      /\ friendKeys' = Answered(h, "remove") /\ friendBumps' = Bump(h)
      /\ friendTx' = [friendTx EXCEPT ![h] = NoTx]
  BY DEF FinishRemove
<1>2. h \in Busy /\ TxOK(tx, edges, friendKeys)
  BY <1>1, BusyTyped
<1>3. EdgeInv
  BY DEF FriendsIndInv
<1>4. tx.edge \in EdgeIds
  BY <1>1, <1>2, <1>3 DEF TxOK, EdgeInv, Edge
<1>5. EdgeInv' /\ BumpInv'
  BY <1>1, <1>2, <1>4, RemovedEdges, CommitBumps
<1>6. ASSUME NEW k \in Busy \ {h}, friendTx[k].phase = "removed"
      PROVE  \E e \in edges' : e.id = friendTx[k].edge
  <2>1. TxOK(friendTx[k], edges, friendKeys) /\ Apart(tx, friendTx[k])
    BY <1>2 DEF FriendsIndInv, FriendTxInv
  <2>2. PICK a \in FriendIds : /\ friendKeys[a].op = "add" /\ friendKeys[a].edge = tx.edge
                               /\ PairOf(friendKeys[a]) = PairOf(tx)
    BY <1>1, <1>2 DEF TxOK
  <2>3. PICK d \in FriendIds : /\ friendKeys[d].op = "add"
                               /\ friendKeys[d].edge = friendTx[k].edge
                               /\ PairOf(friendKeys[d]) = PairOf(friendTx[k])
    BY <1>6, <2>1 DEF TxOK
  <2>4. friendTx[k].edge # tx.edge
    <3>1. PairOf(tx) # PairOf(friendTx[k])
      BY <1>1, <1>6, <2>1 DEF Apart
    <3> QED
      BY <1>3, <2>2, <2>3, <3>1 DEF EdgeInv
  <2>5. PICK e \in edges : e.id = friendTx[k].edge
    BY <1>6, <2>1 DEF TxOK
  <2> QED
    BY <1>1, <2>4, <2>5
<1>7. ASSUME NEW k \in Busy \ {h}, Fresh(friendTx[k]), NEW e \in edges'
      PROVE  Ends(e) # PairOf(friendTx[k])
  BY <1>1, <1>7 DEF FriendsIndInv, FriendTxInv, TxOK
<1>8. FriendTxInv'
  BY <1>1, <1>2, <1>4, <1>6, <1>7, CommitTx
<1> QED
  BY <1>5, <1>8 DEF FriendsIndInv

LEMMA LoseFriendInv ==
    ASSUME FriendsIndInv, NEW h \in FriendHandlers, LoseFriend(h) PROVE FriendsIndInv'
  BY LostTx DEF LoseFriend

-----------------------------------------------------------------------------
(* Friends: every behaviour. *)

LEMMA FriendRoutesInv ==
    ASSUME FriendsIndInv, [FriendRoutes]_friendVars PROVE FriendsIndInv'
<1>1. CASE FriendRoutes
  <2>1. PICK h \in FriendHandlers :
            \/ \E s, p \in Spirits, c \in FirstNew(FriendIds, NewFriendKey) : StartAdd(h, s, p, c)
            \/ \E s \in Spirits, c \in FirstNew(FriendIds, NewFriendKey), d \in FriendIds :
                  StartRemove(h, s, c, d)
            \/ LockPair(h) \/ InsertEdge(h) \/ CheckEdge(h) \/ FindEdge(h) \/ FinishAdd(h)
            \/ DeleteEdge(h) \/ FinishRemove(h) \/ LoseFriend(h)
    BY <1>1 DEF FriendRoutes
  <2>2. FirstNew(FriendIds, NewFriendKey) \subseteq FriendIds
    BY DEF FirstNew
  <2>3. CASE \E s, p \in Spirits, c \in FirstNew(FriendIds, NewFriendKey) : StartAdd(h, s, p, c)
    BY <2>2, <2>3, StartAddInv
  <2>4. CASE \E s \in Spirits, c \in FirstNew(FriendIds, NewFriendKey), d \in FriendIds :
                 StartRemove(h, s, c, d)
    BY <2>2, <2>4, StartRemoveInv
  <2> QED
    BY <2>1, <2>3, <2>4, LockPairInv, InsertEdgeInv, CheckEdgeInv, FindEdgeInv,
       FinishAddInv, DeleteEdgeInv, FinishRemoveInv, LoseFriendInv
<1>2. CASE UNCHANGED friendVars
  BY <1>2 DEF friendVars, FriendsIndInv, FriendTxInv, EdgeInv, BumpInv, AnswersOf, Busy
<1> QED
  BY <1>1, <1>2

LEMMA FriendsInitInv == FriendsInit => FriendsIndInv
<1> SUFFICES ASSUME FriendsInit PROVE FriendsIndInv
  OBVIOUS
<1>1. FriendTxInv
  BY DEF FriendsInit, FriendTxInv, Busy
<1>2. EdgeInv
  BY FriendConstants DEF FriendsInit, EdgeInv
<1>3. ASSUME NEW s \in Spirits PROVE AnswersOf(s) = {}
  BY FriendConstants DEF FriendsInit, AnswersOf
<1>4. IsFiniteSet({}) /\ Cardinality({}) = 0
  BY FS_EmptySet
<1>5. BumpInv
  BY <1>3, <1>4 DEF FriendsInit, BumpInv
<1> QED
  BY <1>1, <1>2, <1>5 DEF FriendsIndInv

LEMMA FriendsIndImplies == FriendsIndInv => FriendsInv
<1> SUFFICES ASSUME FriendsIndInv PROVE FriendsInv
  OBVIOUS
<1>1. ASSUME NEW s \in Spirits PROVE Cardinality(SpiritLockers(s)) <= 1
  <2>1. \A h, k \in SpiritLockers(s) : h = k
    BY DEF SpiritLockers, FriendsIndInv, FriendTxInv, Apart
  <2>2. CASE SpiritLockers(s) = {}
    <3>1. Cardinality({}) = 0
      BY FS_EmptySet
    <3> QED
      BY <2>2, <3>1
  <2>3. CASE \E h : h \in SpiritLockers(s)
    <3>1. PICK h : h \in SpiritLockers(s)
      BY <2>3
    <3>2. SpiritLockers(s) = {h}
      BY <2>1, <3>1
    <3>3. Cardinality({h}) = 1
      BY FS_Singleton
    <3> QED
      BY <3>2, <3>3
  <2> QED
    BY <2>2, <2>3
<1>2. FriendsTypeOK
  <2>1. \A c \in FriendIds : friendKeys[c].op \in {"none", "add", "remove"}
    BY FriendConstants DEF FriendsIndInv, EdgeInv, KeyRow
  <2> QED
    BY <1>1, <2>1 DEF FriendsTypeOK, FriendsIndInv, EdgeInv, Edge
<1>3. {e.id : e \in edges} = KeyEdges("add") \ KeyEdges("remove")
  BY DEF KeyEdges, FriendsIndInv, EdgeInv
<1>4. \A e, f \in edges : {e.low, e.high} = {f.low, f.high} => e = f
  BY DEF FriendsIndInv, EdgeInv, Ends
<1>5. \A c, d \in FriendIds :
          friendKeys[c].op = "remove" /\ friendKeys[d].op = "remove" =>
              (friendKeys[c].edge = friendKeys[d].edge => c = d)
  BY DEF FriendsIndInv, EdgeInv
<1>6. \A s \in Spirits :
          friendBumps[s] = Cardinality({c \in FriendIds : friendKeys[c].by = s})
  BY DEF FriendsIndInv, BumpInv, AnswersOf
<1> QED
  BY <1>2, <1>3, <1>4, <1>5, <1>6 DEF FriendsInv, FriendsAddUp

\* However many add and remove each other at a time, and whichever of them are
\* aborted or lost between two statements (services/friends.py, the functions of
\* private): a row of a spirit has one locker, two spirits have one edge, the edges
\* are those that an add has answered and no remove, no two removes of an edge are
\* answered, and the version of a spirit counts its own answers.
THEOREM FriendsAgree == FriendsSpec => []FriendsInv
<1>1. FriendsInit => FriendsIndInv
  BY FriendsInitInv
<1>2. FriendsIndInv /\ [FriendRoutes]_friendVars => FriendsIndInv'
  BY FriendRoutesInv
<1>3. FriendsIndInv => FriendsInv
  BY FriendsIndImplies
<1> QED
  BY <1>1, <1>2, <1>3, PTL DEF FriendsSpec

-----------------------------------------------------------------------------
(* Profile: the inductive invariant. *)

ProfileRow == [client: CreateIds, code: InviteCodes, version: Nat \ {0},
               name: CreateIds \cup PatchIds, prefs: CreateIds \cup PatchIds, facts: Nat]

TryRow == [phase: {"drawing", "drawn"}, client: CreateIds, code: InviteCodes \cup {0},
           attempts: Nat]

Seen(o) == {NoSpirit} \cup {past[o][v] : v \in DOMAIN past[o]}

\* past[o] has each version of a spirit once, and the last is the row that there is.
PastOK(o) ==
    \/ spirits[o] = NoSpirit /\ past[o] = <<>>
    \/ /\ spirits[o] \in ProfileRow /\ past[o] \in Seq(ProfileRow)
       /\ spirits[o].version <= MaxProfile[o]
       /\ Len(past[o]) = spirits[o].version
       /\ past[o][spirits[o].version] = spirits[o]
       /\ \A v \in DOMAIN past[o] : past[o][v].version = v

PastInv ==
    /\ DOMAIN spirits = Owners /\ DOMAIN past = Owners
    /\ \A o \in Owners : PastOK(o)
    /\ \A o, p \in Owners : Exists(o) /\ spirits[o].code = spirits[p].code => o = p

\* What a device keeps, or is reading, is a version of its spirit.
ToldInv ==
    /\ told \in [Devices -> [of: CreateIds \cup {0}, row: ProfileRow \cup {NoSpirit}]]
    /\ reading \in [Devices -> [phase: {"idle", "read"}, row: ProfileRow \cup {NoSpirit}]]
    /\ \A d \in Devices :
          /\ told[d].row \in Seen(OwnerOf[d]) /\ reading[d].row \in Seen(OwnerOf[d])
          /\ told[d].of \in CreateIds => told[d].row.client = told[d].of

\* What a transaction that creates may rely on: its owner has no spirit, its client
\* id no record, and its code, once inserted, no other spirit.
TryOK(o, w) ==
    /\ ~Exists(o)
    /\ createKeys[w.client] = "none"
    /\ w.attempts < MaxAllocate
    /\ w.phase = "drawn" => w.code \in InviteCodes /\ \A p \in Owners : spirits[p].code # w.code

TriesApart(v, w) ==
    /\ v.client # w.client
    /\ v.phase = "drawn" /\ w.phase = "drawn" => v.code # w.code

TryInv ==
    /\ creating \in [Devices -> TryRow \cup {NotCreating}]
    /\ \A d \in Devices : creating[d] # NotCreating => TryOK(OwnerOf[d], creating[d])
    /\ \A d, e \in Devices :
          d # e /\ creating[d] # NotCreating /\ creating[e] # NotCreating =>
              OwnerOf[d] # OwnerOf[e] /\ TriesApart(creating[d], creating[e])

KeysInv ==
    /\ createKeys \in [CreateIds -> Owners \cup {"none"}]
    /\ DOMAIN consents = Owners
    /\ \A o \in Owners :
          /\ consents[o] = {c \in CreateIds : createKeys[c] = o}
          /\ consents[o] = IF Exists(o) THEN {spirits[o].client} ELSE {}

ProfileIndInv == PastInv /\ ToldInv /\ TryInv /\ KeysInv

LEMMA ProfileConstants ==
    /\ OwnerOf \in [Devices -> Owners] /\ "none" \notin Owners
    /\ MaxAllocate \in Nat /\ MaxAllocate > 0
    /\ \A o \in Owners : MaxProfile[o] \in Nat /\ MaxProfile[o] > 0
    /\ 0 \notin CreateIds /\ 0 \notin InviteCodes /\ CreateIds \cap PatchIds = {}
    /\ CreateIds \subseteq Nat /\ InviteCodes \subseteq Nat
    /\ NotCreating \notin TryRow /\ NoSpirit \notin ProfileRow
    /\ NoSpirit.code = 0 /\ NoSpirit.version = 0 /\ NoSpirit.client = 0
<1>1. CreateIds \cup PatchIds \cup InviteCodes \subseteq Nat \ {0}
  BY ProfileAssumption
<1>2. /\ OwnerOf \in [Devices -> Owners] /\ "none" \notin Owners
      /\ MaxAllocate \in Nat /\ MaxAllocate > 0 /\ CreateIds \cap PatchIds = {}
  BY ProfileAssumption
<1>3. \A o \in Owners : MaxProfile[o] \in Nat /\ MaxProfile[o] > 0
  BY ProfileAssumption
<1> QED
  BY <1>1, <1>2, <1>3 DEF NotCreating, TryRow, NoSpirit, ProfileRow

\* A device has only seen versions that the spirit had.
LEMMA SeenVersions ==
    ASSUME PastInv, NEW o \in Owners
    PROVE  /\ spirits[o] \in Seen(o) /\ NoSpirit \in Seen(o)
           /\ Seen(o) \subseteq ProfileRow \cup {NoSpirit}
           /\ \A r \in Seen(o) : r # NoSpirit /\ r.version = spirits[o].version => r = spirits[o]
<1>1. PastOK(o)
  BY DEF PastInv
<1>2. CASE spirits[o] = NoSpirit /\ past[o] = <<>>
  BY <1>2 DEF Seen
<1>3. CASE /\ spirits[o] \in ProfileRow /\ past[o] \in Seq(ProfileRow)
           /\ Len(past[o]) = spirits[o].version
           /\ past[o][spirits[o].version] = spirits[o]
           /\ \A v \in DOMAIN past[o] : past[o][v].version = v
  <2>1. DOMAIN past[o] = 1 .. Len(past[o]) /\ spirits[o].version \in DOMAIN past[o]
    BY <1>3 DEF ProfileRow
  <2>2. \A v \in DOMAIN past[o] : past[o][v] \in ProfileRow
    BY <1>3, <2>1
  <2> QED
    BY <1>3, <2>1, <2>2 DEF Seen
<1> QED
  BY <1>1, <1>2, <1>3 DEF PastOK

-----------------------------------------------------------------------------
(* Profile: what the steps of a device do. *)

\* The rows and the records stay.
LEMMA SameRows ==
    ASSUME ProfileIndInv, UNCHANGED <<spirits, consents, createKeys, past>>
    PROVE  PastInv' /\ KeysInv'
<1>1. PastInv'
  BY DEF ProfileIndInv, PastInv, PastOK, Exists
<1>2. KeysInv'
  BY DEF ProfileIndInv, KeysInv, Exists
<1> QED
  BY <1>1, <1>2

LEMMA SameTries ==
    ASSUME ProfileIndInv, UNCHANGED <<spirits, createKeys, creating>>
    PROVE  TryInv'
  BY DEF ProfileIndInv, TryInv, TryOK, Exists

\* What device d is told is a version that its spirit had, or has now.
LEMMA ToldStep ==
    ASSUME ProfileIndInv, NEW d \in Devices,
           \A o \in Owners : Seen(o) \subseteq Seen(o)',
           UNCHANGED reading,
           NEW answer \in [of: CreateIds \cup {0}, row: ProfileRow \cup {NoSpirit}],
           answer.row \in Seen(OwnerOf[d])',
           answer.of \in CreateIds => answer.row.client = answer.of,
           told' = told \/ told' = [told EXCEPT ![d] = answer]
    PROVE  ToldInv'
<1>1. \A e \in Devices : OwnerOf[e] \in Owners
  BY ProfileConstants
<1>2. told' \in [Devices -> [of: CreateIds \cup {0}, row: ProfileRow \cup {NoSpirit}]]
  BY DEF ProfileIndInv, ToldInv
<1>3. ASSUME NEW e \in Devices
      PROVE  /\ told'[e].row \in Seen(OwnerOf[e])' /\ reading'[e].row \in Seen(OwnerOf[e])'
             /\ told'[e].of \in CreateIds => told'[e].row.client = told'[e].of
  <2>1. told'[e] = told[e] \/ (e = d /\ told'[e] = answer)
    BY DEF ProfileIndInv, ToldInv
  <2>2. told[e].row \in Seen(OwnerOf[e])' /\ reading[e].row \in Seen(OwnerOf[e])'
    BY <1>1 DEF ProfileIndInv, ToldInv
  <2> QED
    BY <2>1, <2>2 DEF ProfileIndInv, ToldInv
<1> QED
  BY <1>2, <1>3 DEF ProfileIndInv, ToldInv

\* Device d goes on creating as w says, or ends.
LEMMA TryStep ==
    ASSUME ProfileIndInv, NEW d \in Devices, NEW w \in TryRow \cup {NotCreating},
           creating' = [creating EXCEPT ![d] = w],
           UNCHANGED <<spirits, consents, createKeys, reading, told, past>>,
           w # NotCreating => TryOK(OwnerOf[d], w),
           w # NotCreating =>
               \A e \in Devices \ {d} : creating[e] # NotCreating =>
                   OwnerOf[d] # OwnerOf[e] /\ TriesApart(w, creating[e])
    PROVE  ProfileIndInv'
<1>1. PastInv' /\ KeysInv'
  BY SameRows
<1>2. ToldInv'
  BY DEF ProfileIndInv, ToldInv, Seen
<1>3. /\ creating' \in [Devices -> TryRow \cup {NotCreating}] /\ creating'[d] = w
      /\ \A e \in Devices \ {d} : creating'[e] = creating[e]
  BY DEF ProfileIndInv, TryInv
<1>4. ASSUME NEW e \in Devices, creating'[e] # NotCreating
      PROVE  TryOK(OwnerOf[e], creating[e])'
  <2>1. CASE e = d
    BY <1>3, <1>4, <2>1 DEF TryOK, Exists
  <2>2. CASE e # d
    <3>1. TryOK(OwnerOf[e], creating[e]) /\ creating'[e] = creating[e]
      BY <1>3, <1>4, <2>2 DEF ProfileIndInv, TryInv
    <3> QED
      BY <3>1 DEF TryOK, Exists
  <2> QED
    BY <2>1, <2>2
<1>5. ASSUME NEW e \in Devices, NEW f \in Devices, e # f,
             creating'[e] # NotCreating, creating'[f] # NotCreating
      PROVE  OwnerOf[e] # OwnerOf[f] /\ TriesApart(creating'[e], creating'[f])
  <2>1. CASE e = d
    BY <1>3, <1>5, <2>1
  <2>2. CASE f = d
    <3>1. OwnerOf[d] # OwnerOf[e] /\ TriesApart(w, creating[e]) /\ creating'[f] = w
          /\ creating'[e] = creating[e]
      BY <1>3, <1>5, <2>2
    <3> QED
      BY <2>2, <3>1 DEF TriesApart
  <2>3. CASE e # d /\ f # d
    BY <1>3, <1>5, <2>3 DEF ProfileIndInv, TryInv
  <2> QED
    BY <2>1, <2>2, <2>3
<1>6. TryInv'
  BY <1>3, <1>4, <1>5 DEF TryInv
<1> QED
  BY <1>1, <1>2, <1>6 DEF ProfileIndInv

LEMMA StartCreateInv ==
    ASSUME ProfileIndInv, NEW d \in Devices, NEW c \in CreateIds, StartCreate(d, c)
    PROVE  ProfileIndInv'
<1> DEFINE o == OwnerOf[d]
           w == [NotCreating EXCEPT !.phase = "drawing", !.client = c]
           answer == [of |-> c, row |-> spirits[o]]
<1>1. /\ creating[d] = NotCreating /\ OwnerCreateFree(o)
      /\ NewCreateKey(c) \/ createKeys[c] = o
      /\ \/ ~Exists(o) /\ creating' = [creating EXCEPT ![d] = w] /\ UNCHANGED told
         \/ Exists(o) /\ CreateReplay(o, c) /\ Merged(d, answer) /\ UNCHANGED creating
      /\ UNCHANGED <<spirits, consents, createKeys, patchKeys, reading, past>>
  BY DEF StartCreate
<1>2. o \in Owners
  BY ProfileConstants
<1>3. CASE ~Exists(o) /\ creating' = [creating EXCEPT ![d] = w] /\ UNCHANGED told
  <2>1. /\ w \in TryRow /\ w.phase = "drawing" /\ w.client = c /\ w.attempts = 0
    BY DEF NotCreating, TryRow
  <2>2. createKeys[c] # o
    BY <1>2, <1>3 DEF ProfileIndInv, KeysInv
  <2>3. NewCreateKey(c)
    BY <1>1, <2>2
  <2> HIDE DEF w
  <2>4. TryOK(o, w)
    BY <1>3, <2>1, <2>3, ProfileConstants DEF TryOK, NewCreateKey
  <2>5. ASSUME NEW e \in Devices \ {d}, creating[e] # NotCreating
        PROVE  OwnerOf[d] # OwnerOf[e] /\ TriesApart(w, creating[e])
    BY <1>1, <2>1, <2>3, <2>5 DEF OwnerCreateFree, NewCreateKey, TriesApart
  <2> QED
    BY <1>1, <1>3, <2>1, <2>4, <2>5, TryStep
<1>4. CASE Exists(o) /\ CreateReplay(o, c) /\ Merged(d, answer) /\ UNCHANGED creating
  <2>1. PastInv' /\ KeysInv' /\ TryInv'
    BY <1>1, <1>4, SameRows, SameTries
  <2>2. spirits[o] \in ProfileRow /\ spirits[o].client = c /\ spirits[o] \in Seen(o)
    BY <1>2, <1>4, SeenVersions DEF ProfileIndInv, Exists, CreateReplay
  <2>3. /\ answer \in [of: CreateIds \cup {0}, row: ProfileRow \cup {NoSpirit}]
        /\ answer.of \in CreateIds => answer.row.client = answer.of
        /\ answer.row \in Seen(o)
    BY <2>2
  <2>4. told' = told \/ told' = [told EXCEPT ![d] = answer]
    BY <1>4 DEF Merged
  <2>5. \A p \in Owners : Seen(p)' = Seen(p)
    BY <1>1 DEF Seen
  <2> HIDE DEF answer
  <2>6. UNCHANGED reading /\ answer.row \in Seen(OwnerOf[d])'
    BY <1>1, <1>2, <2>3, <2>5
  <2>7. ToldInv'
    BY <2>3, <2>4, <2>5, <2>6, ToldStep
  <2> QED
    BY <2>1, <2>7 DEF ProfileIndInv
<1> QED
  BY <1>1, <1>3, <1>4

LEMMA DrawCodeInv ==
    ASSUME ProfileIndInv, NEW d \in Devices, NEW code \in InviteCodes, DrawCode(d, code)
    PROVE  ProfileIndInv'
<1> DEFINE try == creating[d]
           w == IF ~CodeTaken(code) THEN [try EXCEPT !.phase = "drawn", !.code = code]
                ELSE IF try.attempts + 1 < MaxAllocate
                     THEN [try EXCEPT !.attempts = try.attempts + 1]
                     ELSE NotCreating
<1>1. /\ try.phase = "drawing" /\ ~CodeInserted(code)
      /\ creating' = [creating EXCEPT ![d] = w]
      /\ UNCHANGED <<spirits, consents, createKeys, reading, told, past>>
  BY DEF DrawCode
<1>2. try \in TryRow /\ try # NotCreating /\ TryOK(OwnerOf[d], try)
  BY <1>1, ProfileConstants DEF ProfileIndInv, TryInv, NotCreating
<1>3. /\ w \in TryRow \cup {NotCreating}
      /\ w # NotCreating => /\ w.client = try.client /\ w.attempts < MaxAllocate
                            /\ w.phase = "drawn" => w.code = code /\ ~CodeTaken(code)
  <2>1. CASE ~CodeTaken(code)
    <3>1. /\ w \in TryRow /\ w.client = try.client /\ w.attempts = try.attempts
          /\ w.code = code
      BY <1>2, <2>1 DEF TryRow
    <3> QED
      BY <1>2, <2>1, <3>1 DEF TryOK
  <2>2. CASE CodeTaken(code) /\ try.attempts + 1 < MaxAllocate
    <3>1. /\ w \in TryRow /\ w.client = try.client /\ w.attempts = try.attempts + 1
          /\ w.phase = "drawing"
      BY <1>1, <1>2, <2>2 DEF TryRow
    <3> QED
      BY <2>2, <3>1
  <2>3. CASE CodeTaken(code) /\ ~(try.attempts + 1 < MaxAllocate)
    BY <2>3
  <2> QED
    BY <2>1, <2>2, <2>3
<1> HIDE DEF w
<1>4. w # NotCreating => TryOK(OwnerOf[d], w)
  <2>1. ~CodeTaken(code) => \A p \in Owners : spirits[p].code # code
    BY ProfileConstants DEF CodeTaken, Exists
  <2> QED
    BY <1>2, <1>3, <2>1 DEF TryOK
<1>5. ASSUME w # NotCreating, NEW e \in Devices \ {d}, creating[e] # NotCreating
      PROVE  OwnerOf[d] # OwnerOf[e] /\ TriesApart(w, creating[e])
  <2>1. OwnerOf[d] # OwnerOf[e] /\ TriesApart(try, creating[e])
    BY <1>2, <1>5 DEF ProfileIndInv, TryInv
  <2>2. creating[e].phase = "drawn" => creating[e].code # code
    BY <1>1 DEF CodeInserted
  <2> QED
    BY <1>3, <1>5, <2>1, <2>2 DEF TriesApart
<1> QED
  BY <1>1, <1>3, <1>4, <1>5, TryStep

LEMMA LoseCreateInv ==
    ASSUME ProfileIndInv, NEW d \in Devices, LoseCreate(d) PROVE ProfileIndInv'
  BY TryStep DEF LoseCreate

LEMMA FinishCreateInv ==
    ASSUME ProfileIndInv, NEW d \in Devices, FinishCreate(d) PROVE ProfileIndInv'
<1> DEFINE o == OwnerOf[d]
           c == creating[d].client
           r == Born(d)
           answer == [of |-> c, row |-> r]
<1>1. /\ creating[d].phase = "drawn"
      /\ spirits' = [spirits EXCEPT ![o] = r]
      /\ past' = [past EXCEPT ![o] = <<r>>]
      /\ consents' = [consents EXCEPT ![o] = @ \cup {c}]
      /\ createKeys' = [createKeys EXCEPT ![c] = o]
      /\ creating' = [creating EXCEPT ![d] = NotCreating]
      /\ told' = told \/ told' = [told EXCEPT ![d] = answer]
      /\ UNCHANGED reading
  BY DEF FinishCreate, Consented, Merged
<1>2. /\ creating[d] \in TryRow /\ creating[d] # NotCreating /\ TryOK(o, creating[d])
  BY <1>1, ProfileConstants DEF ProfileIndInv, TryInv, NotCreating
<1>3. /\ r \in ProfileRow /\ r.client = c /\ r.version = 1 /\ r.code = creating[d].code
      /\ c \in CreateIds
  BY <1>1, <1>2 DEF Born, ProfileRow, TryRow, TryOK
<1>4. /\ o \in Owners /\ spirits[o] = NoSpirit /\ past[o] = <<>> /\ createKeys[c] = "none"
      /\ consents[o] = {} /\ \A p \in Owners : spirits[p].code # r.code
      /\ r # NoSpirit
  <2>1. o \in Owners /\ spirits[o] = NoSpirit
    BY <1>2, ProfileConstants DEF TryOK, Exists
  <2>2. past[o] = <<>> /\ consents[o] = {}
    BY <2>1, ProfileConstants DEF ProfileIndInv, PastInv, PastOK, KeysInv, Exists
  <2> QED
    BY <1>1, <1>2, <1>3, <2>1, <2>2, ProfileConstants DEF TryOK
<1>5. /\ answer \in [of: CreateIds \cup {0}, row: ProfileRow \cup {NoSpirit}]
      /\ answer.row = r /\ answer.of = c
  BY <1>3
<1> HIDE DEF o, c, r, answer
<1>6. /\ spirits'[o] = r /\ past'[o] = <<r>>
      /\ DOMAIN spirits' = Owners /\ DOMAIN past' = Owners
      /\ \A p \in Owners \ {o} : spirits'[p] = spirits[p] /\ past'[p] = past[p]
  BY <1>1, <1>4 DEF ProfileIndInv, PastInv
<1>7. PastInv'
  <2>1. ASSUME NEW p \in Owners PROVE PastOK(p)'
    <3>1. CASE p = o
      <4>1. <<r>> \in Seq(ProfileRow) /\ Len(<<r>>) = 1 /\ <<r>>[1] = r /\ DOMAIN <<r>> = {1}
        BY <1>3
      <4>2. MaxProfile[o] \in Nat /\ MaxProfile[o] > 0
        BY <1>4, ProfileConstants
      <4>3. /\ spirits'[p] = r /\ past'[p] = <<r>> /\ r.version <= MaxProfile[p]
            /\ Len(past'[p]) = r.version /\ past'[p][r.version] = r
        BY <1>3, <1>6, <3>1, <4>1, <4>2
      <4>4. \A v \in DOMAIN past'[p] : past'[p][v].version = v
        BY <1>3, <4>1, <4>3
      <4> QED
        BY <1>3, <4>1, <4>3, <4>4 DEF PastOK
    <3>2. CASE p # o
      BY <1>6, <3>2 DEF ProfileIndInv, PastInv, PastOK
    <3> QED
      BY <3>1, <3>2
  <2>2. \A p, q \in Owners : Exists(p)' /\ spirits'[p].code = spirits'[q].code => p = q
    <3>1. \A p \in Owners : p # o => spirits'[p].code # r.code /\ (Exists(p)' => Exists(p))
      BY <1>4, <1>6 DEF Exists
    <3> QED
      BY <1>6, <3>1 DEF ProfileIndInv, PastInv
  <2> QED
    BY <1>6, <2>1, <2>2 DEF PastInv
<1>8. KeysInv'
  <2>1. /\ createKeys'[c] = o /\ \A k \in CreateIds \ {c} : createKeys'[k] = createKeys[k]
        /\ createKeys' \in [CreateIds -> Owners \cup {"none"}]
    BY <1>1, <1>3, <1>4 DEF ProfileIndInv, KeysInv
  <2>2. /\ consents'[o] = {c} /\ \A p \in Owners \ {o} : consents'[p] = consents[p]
        /\ DOMAIN consents' = Owners
    BY <1>1, <1>4 DEF ProfileIndInv, KeysInv
  <2>3. ASSUME NEW p \in Owners
        PROVE  /\ consents'[p] = {k \in CreateIds : createKeys'[k] = p}
               /\ consents'[p] = IF Exists(p)' THEN {spirits'[p].client} ELSE {}
    <3>1. CASE p = o
      <4>1. \A k \in CreateIds : createKeys[k] # o
        BY <1>4 DEF ProfileIndInv, KeysInv
      <4> QED
        BY <1>3, <1>4, <1>6, <2>1, <2>2, <3>1, <4>1 DEF Exists
    <3>2. CASE p # o
      <4>1. \A k \in CreateIds : createKeys'[k] = p <=> createKeys[k] = p
        BY <1>4, <2>1, <3>2, ProfileConstants
      <4> QED
        BY <1>6, <2>2, <3>2, <4>1 DEF Exists, ProfileIndInv, KeysInv
    <3> QED
      BY <3>1, <3>2
  <2> QED
    BY <2>1, <2>2, <2>3 DEF KeysInv
<1>9. TryInv'
  <2>1. /\ creating' \in [Devices -> TryRow \cup {NotCreating}] /\ creating'[d] = NotCreating
        /\ \A e \in Devices \ {d} : creating'[e] = creating[e]
    BY <1>1 DEF ProfileIndInv, TryInv
  <2>2. ASSUME NEW e \in Devices, creating'[e] # NotCreating PROVE TryOK(OwnerOf[e], creating[e])'
    <3>1. /\ e # d /\ creating'[e] = creating[e] /\ TryOK(OwnerOf[e], creating[e])
          /\ OwnerOf[d] # OwnerOf[e] /\ TriesApart(creating[d], creating[e])
          /\ OwnerOf[e] \in Owners /\ creating[e] \in TryRow
      BY <1>2, <2>1, <2>2, ProfileConstants DEF ProfileIndInv, TryInv
    <3>2. creating[e].client # c /\ creating[e].client \in CreateIds
      BY <3>1 DEF TriesApart, TryRow, c
    <3>3. creating[e].phase = "drawn" => creating[e].code # r.code
      BY <1>1, <1>3, <3>1 DEF TriesApart
    <3>4. createKeys'[creating[e].client] = createKeys[creating[e].client]
      BY <1>1, <3>2 DEF ProfileIndInv, KeysInv
    <3>5. ~Exists(OwnerOf[e])'
      BY <1>6, <3>1 DEF Exists, TryOK, o
    <3>6. creating[e].phase = "drawn" => \A p \in Owners : spirits'[p].code # creating[e].code
      BY <1>6, <3>1, <3>3 DEF TryOK
    <3> QED
      BY <3>1, <3>4, <3>5, <3>6 DEF TryOK
  <2>3. \A e, f \in Devices :
            e # f /\ creating'[e] # NotCreating /\ creating'[f] # NotCreating =>
                OwnerOf[e] # OwnerOf[f] /\ TriesApart(creating'[e], creating'[f])
    BY <2>1 DEF ProfileIndInv, TryInv
  <2> QED
    BY <2>1, <2>2, <2>3 DEF TryInv
<1>10. ToldInv'
  <2>1. \A p \in Owners : Seen(p) \subseteq Seen(p)'
    BY <1>4, <1>6 DEF Seen
  <2>2. r \in Seen(o)'
    BY <1>6 DEF Seen
  <2>3. /\ answer.row \in Seen(OwnerOf[d])'
        /\ answer.of \in CreateIds => answer.row.client = answer.of
    BY <1>3, <1>5, <2>2 DEF o
  <2> QED
    BY <1>1, <1>5, <2>1, <2>3, ToldStep
<1> QED
  BY <1>7, <1>8, <1>9, <1>10 DEF ProfileIndInv

\* A version after the last: the row is not another spirit's, and what was seen
\* stays.
LEMMA WriteStep ==
    ASSUME ProfileIndInv, NEW o \in Owners, Exists(o), NEW r \in ProfileRow,
           r.version = spirits[o].version + 1, r.client = spirits[o].client,
           r.code = spirits[o].code, Write(o, r), UNCHANGED <<consents, createKeys, creating>>
    PROVE  /\ PastInv' /\ KeysInv' /\ TryInv' /\ r \in Seen(o)'
           /\ \A p \in Owners : Seen(p) \subseteq Seen(p)'
<1>1. /\ r.version <= MaxProfile[o]
      /\ spirits' = [spirits EXCEPT ![o] = r]
      /\ past' = [past EXCEPT ![o] = Append(past[o], r)]
  BY DEF Write
<1>2. /\ spirits[o] \in ProfileRow /\ past[o] \in Seq(ProfileRow)
      /\ Len(past[o]) = spirits[o].version
      /\ \A v \in DOMAIN past[o] : past[o][v].version = v
  BY DEF ProfileIndInv, PastInv, PastOK, Exists
<1>3. /\ spirits'[o] = r /\ past'[o] = Append(past[o], r)
      /\ DOMAIN spirits' = Owners /\ DOMAIN past' = Owners
      /\ \A p \in Owners \ {o} : spirits'[p] = spirits[p] /\ past'[p] = past[p]
  BY <1>1 DEF ProfileIndInv, PastInv
<1>4. /\ past'[o] \in Seq(ProfileRow) /\ Len(past'[o]) = Len(past[o]) + 1
      /\ past'[o][Len(past[o]) + 1] = r
      /\ \A v \in 1 .. Len(past[o]) : past'[o][v] = past[o][v]
      /\ DOMAIN past'[o] = 1 .. Len(past[o]) + 1
      /\ DOMAIN past[o] = 1 .. Len(past[o]) /\ Len(past[o]) \in Nat
  BY <1>2, <1>3
<1>5. r # NoSpirit
  BY ProfileConstants
<1>6. PastInv'
  <2>1. ASSUME NEW p \in Owners PROVE PastOK(p)'
    <3>1. CASE p = o
      <4>1. ASSUME NEW v \in DOMAIN past'[o] PROVE past'[o][v].version = v
        <5>1. CASE v \in 1 .. Len(past[o])
          BY <1>2, <1>4, <5>1
        <5>2. CASE v = Len(past[o]) + 1
          BY <1>2, <1>4, <5>2
        <5> QED
          BY <1>4, <5>1, <5>2
      <4> QED
        BY <1>1, <1>2, <1>3, <1>4, <3>1, <4>1 DEF PastOK
    <3>2. CASE p # o
      BY <1>3, <3>2 DEF ProfileIndInv, PastInv, PastOK
    <3> QED
      BY <3>1, <3>2
  <2>2. \A p \in Owners : spirits'[p].code = spirits[p].code /\ (Exists(p)' <=> Exists(p))
    BY <1>3, <1>5 DEF Exists
  <2> QED
    BY <1>3, <2>1, <2>2 DEF ProfileIndInv, PastInv
<1>7. KeysInv'
  BY <1>3, <1>5 DEF ProfileIndInv, KeysInv, Exists
<1>8. TryInv'
  <2>1. \A p \in Owners : spirits'[p].code = spirits[p].code /\ (Exists(p)' <=> Exists(p))
    BY <1>3, <1>5 DEF Exists
  <2>2. ASSUME NEW e \in Devices, creating[e] # NotCreating PROVE TryOK(OwnerOf[e], creating[e])'
    <3>1. TryOK(OwnerOf[e], creating[e]) /\ OwnerOf[e] \in Owners
      BY <2>2, ProfileConstants DEF ProfileIndInv, TryInv
    <3> QED
      BY <2>1, <3>1 DEF TryOK
  <2> QED
    BY <2>2 DEF ProfileIndInv, TryInv
<1>9. r \in Seen(o)'
  BY <1>4 DEF Seen
<1>10. \A p \in Owners : Seen(p) \subseteq Seen(p)'
  BY <1>3, <1>4 DEF Seen
<1> QED
  BY <1>6, <1>7, <1>8, <1>9, <1>10

LEMMA PatchedRow ==
    ASSUME NEW o \in Owners, spirits[o] \in ProfileRow, NEW k \in PatchIds, NEW fields
    PROVE  /\ Patched(o, k, fields) \in ProfileRow
           /\ Patched(o, k, fields).version = spirits[o].version + 1
           /\ Patched(o, k, fields).client = spirits[o].client
           /\ Patched(o, k, fields).code = spirits[o].code
<1> DEFINE r == spirits[o]
           n == IF "name" \in fields THEN k ELSE r.name
           p == IF "prefs" \in fields THEN k ELSE r.prefs
           q == [r EXCEPT !.name = n, !.prefs = p, !.version = r.version + 1]
<1>1. n \in CreateIds \cup PatchIds /\ p \in CreateIds \cup PatchIds
  BY DEF ProfileRow
<1>2. Patched(o, k, fields) = q
  BY DEF Patched
<1>3. r \in ProfileRow /\ r.version + 1 \in Nat \ {0}
  BY DEF ProfileRow
<1> HIDE DEF n, p, r
<1>4. q \in ProfileRow /\ q.version = r.version + 1 /\ q.client = r.client /\ q.code = r.code
  BY <1>1, <1>3 DEF ProfileRow
<1> QED
  BY <1>2, <1>4 DEF r

LEMMA PatchSpiritInv ==
    ASSUME ProfileIndInv, NEW d \in Devices, NEW k \in PatchIds, PatchSpirit(d, k)
    PROVE  ProfileIndInv'
<1> DEFINE o == OwnerOf[d]
<1>0. PICK fields \in SUBSET {"name", "prefs"} :
        \/ Write(o, Patched(o, k, fields)) /\ Merged(d, [of |-> 0, row |-> Patched(o, k, fields)])
        \/ Merged(d, [of |-> 0, row |-> spirits[o]]) /\ UNCHANGED <<spirits, past>>
  <2>1. {} \in SUBSET {"name", "prefs"}
    OBVIOUS
  <2> QED
    BY <2>1 DEF PatchSpirit, PatchAnswer
<1> DEFINE r == Patched(o, k, fields)
<1>1. /\ Exists(o) /\ UNCHANGED <<consents, createKeys, creating, reading>>
      /\ \/ Write(o, r) /\ Merged(d, [of |-> 0, row |-> r])
         \/ Merged(d, [of |-> 0, row |-> spirits[o]]) /\ UNCHANGED <<spirits, past>>
  BY <1>0 DEF PatchSpirit
<1>2. o \in Owners /\ spirits[o] \in ProfileRow /\ spirits[o] \in Seen(o)
  BY <1>1, SeenVersions, ProfileConstants DEF ProfileIndInv, Exists
<1>3. /\ r \in ProfileRow /\ r.version = spirits[o].version + 1
      /\ r.client = spirits[o].client /\ r.code = spirits[o].code
  BY <1>2, PatchedRow
<1> HIDE DEF r
<1>4. ASSUME NEW row \in ProfileRow, row \in Seen(o)', Merged(d, [of |-> 0, row |-> row]),
             \A p \in Owners : Seen(p) \subseteq Seen(p)'
      PROVE  ToldInv'
  <2> DEFINE answer == [of |-> 0, row |-> row]
  <2>1. /\ answer \in [of: CreateIds \cup {0}, row: ProfileRow \cup {NoSpirit}]
        /\ answer.of = 0 /\ answer.row = row
    OBVIOUS
  <2>2. told' = told \/ told' = [told EXCEPT ![d] = answer]
    BY <1>4 DEF Merged
  <2>3. answer.of \in CreateIds => answer.row.client = answer.of
    BY <2>1, ProfileConstants
  <2>4. answer.row \in Seen(OwnerOf[d])'
    BY <1>4
  <2> HIDE DEF answer
  <2> QED
    BY <1>1, <1>4, <2>1, <2>2, <2>3, <2>4, ToldStep
<1>5. CASE Write(o, r) /\ Merged(d, [of |-> 0, row |-> r])
  <2>1. /\ PastInv' /\ KeysInv' /\ TryInv' /\ r \in Seen(o)'
        /\ \A p \in Owners : Seen(p) \subseteq Seen(p)'
    BY <1>1, <1>2, <1>3, <1>5, WriteStep
  <2>2. ToldInv'
    BY <1>3, <1>4, <1>5, <2>1
  <2> QED
    BY <2>1, <2>2 DEF ProfileIndInv
<1>6. CASE Merged(d, [of |-> 0, row |-> spirits[o]]) /\ UNCHANGED <<spirits, past>>
  <2>1. PastInv' /\ KeysInv' /\ TryInv'
    BY <1>1, <1>6, SameRows, SameTries
  <2>2. \A p \in Owners : Seen(p)' = Seen(p)
    BY <1>6 DEF Seen
  <2>3. spirits[o] \in Seen(o)'
    BY <1>2, <2>2
  <2>4. ToldInv'
    BY <1>2, <1>4, <1>6, <2>2, <2>3
  <2> QED
    BY <2>1, <2>4 DEF ProfileIndInv
<1> QED
  BY <1>1, <1>5, <1>6

LEMMA ChangeFactsInv ==
    ASSUME ProfileIndInv, NEW o \in Owners, ChangeFacts(o) PROVE ProfileIndInv'
<1> DEFINE v == spirits[o].version + 1
           r == [spirits[o] EXCEPT !.version = v, !.facts = v]
<1>1. Exists(o) /\ UNCHANGED <<consents, createKeys, creating, reading, told>>
  BY DEF ChangeFacts
<1>2. spirits[o] \in ProfileRow
  BY <1>1, SeenVersions DEF ProfileIndInv, Exists
<1>3. Write(o, r)
  BY DEF ChangeFacts
<1>4. v = spirits[o].version + 1 /\ v \in Nat \ {0}
  BY <1>2 DEF ProfileRow
<1> HIDE DEF v
<1>5. r \in ProfileRow /\ r.version = v
      /\ r.client = spirits[o].client /\ r.code = spirits[o].code
  BY <1>2, <1>4 DEF ProfileRow
<1> HIDE DEF r
<1>6. /\ PastInv' /\ KeysInv' /\ TryInv' /\ \A p \in Owners : Seen(p) \subseteq Seen(p)'
  BY <1>1, <1>3, <1>4, <1>5, WriteStep
<1>7. \A d \in Devices : OwnerOf[d] \in Owners
  BY ProfileConstants
<1>8. ToldInv'
  BY <1>1, <1>6, <1>7 DEF ProfileIndInv, ToldInv
<1> QED
  BY <1>6, <1>8 DEF ProfileIndInv

LEMMA StartBootstrapInv ==
    ASSUME ProfileIndInv, NEW d \in Devices, StartBootstrap(d) PROVE ProfileIndInv'
<1> DEFINE o == OwnerOf[d]
           w == [phase |-> "read", row |-> spirits[o]]
<1>1. /\ reading' = [reading EXCEPT ![d] = w]
      /\ UNCHANGED <<spirits, consents, createKeys, creating, told, past>>
  BY DEF StartBootstrap
<1>2. o \in Owners
  BY ProfileConstants
<1>3. spirits[o] \in Seen(o) /\ Seen(o) \subseteq ProfileRow \cup {NoSpirit}
  BY <1>2, SeenVersions DEF ProfileIndInv
<1>4. /\ w \in [phase: {"idle", "read"}, row: ProfileRow \cup {NoSpirit}]
      /\ w.row = spirits[o]
  BY <1>3
<1> HIDE DEF w
<1>5. \A p \in Owners : Seen(p)' = Seen(p)
  BY <1>1 DEF Seen
<1>6. ASSUME NEW e \in Devices
      PROVE  /\ told'[e].row \in Seen(OwnerOf[e])' /\ reading'[e].row \in Seen(OwnerOf[e])'
             /\ told'[e].of \in CreateIds => told'[e].row.client = told'[e].of
  <2>1. /\ told'[e] = told[e] /\ OwnerOf[e] \in Owners
        /\ told[e].row \in Seen(OwnerOf[e]) /\ reading[e].row \in Seen(OwnerOf[e])
        /\ told[e].of \in CreateIds => told[e].row.client = told[e].of
    BY <1>1, ProfileConstants DEF ProfileIndInv, ToldInv
  <2>2. reading'[e] = IF e = d THEN w ELSE reading[e]
    BY <1>1 DEF ProfileIndInv, ToldInv
  <2> QED
    BY <1>3, <1>4, <1>5, <2>1, <2>2
<1>7. ToldInv'
  BY <1>1, <1>4, <1>6 DEF ProfileIndInv, ToldInv
<1> QED
  BY <1>1, <1>7, SameRows, SameTries DEF ProfileIndInv

\* A bootstrap is what its first statement saw.
LEMMA SnapshotRow ==
    ASSUME ProfileIndInv, NEW d \in Devices
    PROVE  Snapshot(d) = [of |-> 0, row |-> reading[d].row]
<1>1. reading[d].row \in ProfileRow \cup {NoSpirit}
  BY DEF ProfileIndInv, ToldInv
<1> DEFINE r == reading[d].row
<1>2. r \in ProfileRow => [r EXCEPT !.facts = r.facts] = r
  BY DEF ProfileRow
<1> QED
  BY <1>1, <1>2 DEF Snapshot, FactsSeen

LEMMA FinishBootstrapInv ==
    ASSUME ProfileIndInv, NEW d \in Devices, FinishBootstrap(d) PROVE ProfileIndInv'
<1> DEFINE answer == [of |-> 0, row |-> reading[d].row]
<1>1. /\ told' = told \/ told' = [told EXCEPT ![d] = answer]
      /\ reading' = [reading EXCEPT ![d] = NotReading]
      /\ UNCHANGED <<spirits, consents, createKeys, creating, past>>
  BY SnapshotRow DEF FinishBootstrap, Replaced
<1>2. /\ OwnerOf[d] \in Owners
      /\ reading[d].row \in ProfileRow \cup {NoSpirit} /\ reading[d].row \in Seen(OwnerOf[d])
  BY ProfileConstants DEF ProfileIndInv, ToldInv
<1>3. /\ answer \in [of: CreateIds \cup {0}, row: ProfileRow \cup {NoSpirit}]
      /\ answer.row = reading[d].row /\ answer.of \notin CreateIds
  BY <1>2, ProfileConstants
<1> HIDE DEF answer
<1>4. \A p \in Owners : Seen(p)' = Seen(p) /\ NoSpirit \in Seen(p)
  BY <1>1 DEF Seen
<1>5. /\ NotReading \in [phase: {"idle", "read"}, row: ProfileRow \cup {NoSpirit}]
      /\ NotReading.row = NoSpirit
  BY DEF NotReading
<1>6. ASSUME NEW e \in Devices
      PROVE  /\ told'[e].row \in Seen(OwnerOf[e])' /\ reading'[e].row \in Seen(OwnerOf[e])'
             /\ told'[e].of \in CreateIds => told'[e].row.client = told'[e].of
  <2>1. /\ OwnerOf[e] \in Owners
        /\ told[e].row \in Seen(OwnerOf[e]) /\ reading[e].row \in Seen(OwnerOf[e])
        /\ told[e].of \in CreateIds => told[e].row.client = told[e].of
    BY ProfileConstants DEF ProfileIndInv, ToldInv
  <2>2. /\ reading'[e] = IF e = d THEN NotReading ELSE reading[e]
        /\ told'[e] = told[e] \/ (e = d /\ told'[e] = answer)
    BY <1>1 DEF ProfileIndInv, ToldInv
  <2> QED
    BY <1>2, <1>3, <1>4, <1>5, <2>1, <2>2
<1>7. ToldInv'
  BY <1>1, <1>3, <1>5, <1>6 DEF ProfileIndInv, ToldInv
<1> QED
  BY <1>1, <1>7, SameRows, SameTries DEF ProfileIndInv

-----------------------------------------------------------------------------
(* Profile: every behaviour. *)

LEMMA ProfileNextInv ==
    ASSUME ProfileIndInv, [ProfileNext]_profileVars PROVE ProfileIndInv'
<1>1. CASE ProfileNext
  <2>1. UpToNew(CreateIds, NewCreateKey) \subseteq CreateIds
    BY DEF UpToNew
  <2>2. UpToNew(InviteCodes, NewCode) \subseteq InviteCodes
    BY DEF UpToNew
  <2>3. ASSUME NEW d \in Devices, NEW c \in UpToNew(CreateIds, NewCreateKey), StartCreate(d, c)
        PROVE  ProfileIndInv'
    BY <2>1, <2>3, StartCreateInv
  <2>4. ASSUME NEW d \in Devices, NEW code \in UpToNew(InviteCodes, NewCode), DrawCode(d, code)
        PROVE  ProfileIndInv'
    BY <2>2, <2>4, DrawCodeInv
  <2>5. UpToNew(PatchIds, NewPatchKey) \subseteq PatchIds
    BY DEF UpToNew
  <2> QED
    BY <1>1, <2>3, <2>4, <2>5, FinishCreateInv, LoseCreateInv, PatchSpiritInv, StartBootstrapInv,
       FinishBootstrapInv, ChangeFactsInv DEF ProfileNext
<1>2. CASE UNCHANGED profileVars
  <2>1. PastInv' /\ KeysInv' /\ TryInv'
    BY <1>2, SameRows, SameTries DEF profileVars
  <2>2. ToldInv'
    BY <1>2 DEF profileVars, ProfileIndInv, ToldInv, Seen
  <2> QED
    BY <2>1, <2>2 DEF ProfileIndInv
<1> QED
  BY <1>1, <1>2

LEMMA ProfileInitInv == ProfileInit => ProfileIndInv
<1> SUFFICES ASSUME ProfileInit PROVE ProfileIndInv
  OBVIOUS
<1>1. PastInv
  BY DEF ProfileInit, PastInv, PastOK, Exists
<1>2. ToldInv
  <2>1. NoSpirit \in [client: Nat, code: Nat, version: Nat, name: Nat, prefs: Nat, facts: Nat]
    BY DEF NoSpirit
  <2>2. /\ Untold \in [of: CreateIds \cup {0}, row: ProfileRow \cup {NoSpirit}]
        /\ Untold.of = 0 /\ Untold.row = NoSpirit
    BY DEF Untold
  <2>3. /\ NotReading \in [phase: {"idle", "read"}, row: ProfileRow \cup {NoSpirit}]
        /\ NotReading.row = NoSpirit
    BY DEF NotReading
  <2>4. \A o \in Owners : NoSpirit \in Seen(o)
    BY DEF Seen
  <2> QED
    BY <2>2, <2>3, <2>4, ProfileConstants DEF ProfileInit, ToldInv
<1>3. TryInv
  BY DEF ProfileInit, TryInv
<1>4. KeysInv
  BY ProfileConstants DEF ProfileInit, KeysInv, Exists
<1> QED
  BY <1>1, <1>2, <1>3, <1>4 DEF ProfileIndInv

LEMMA ProfileInvariance == ProfileSpec => []ProfileIndInv
  BY ProfileInitInv, ProfileNextInv, PTL DEF ProfileSpec

\* Whichever devices create, patch and read at a time (services/spirit.py,
\* services/settings.py, services/bootstrap.py), and whichever requests are lost: an
\* account has all of a spirit or nothing of it, from one client id and with a code of
\* its own, and what a device keeps is what the spirit was at one version.
THEOREM ProfileWhole == ProfileSpec => []ProfileInv
<1>1. ProfileIndInv => ProfileInv
  <2> SUFFICES ASSUME ProfileIndInv PROVE ProfileInv
    OBVIOUS
  <2>1. ASSUME NEW o \in Owners
        PROVE  /\ spirits[o].version \in 0 .. MaxProfile[o] /\ consents[o] \subseteq CreateIds
               /\ Len(past[o]) = spirits[o].version
    <3>1. consents[o] \subseteq CreateIds
      BY DEF ProfileIndInv, KeysInv
    <3>2. CASE spirits[o] = NoSpirit /\ past[o] = <<>>
      BY <3>1, <3>2, ProfileConstants
    <3>3. CASE /\ spirits[o] \in ProfileRow /\ spirits[o].version <= MaxProfile[o]
               /\ Len(past[o]) = spirits[o].version
      BY <3>1, <3>3, ProfileConstants DEF ProfileRow
    <3> QED
      BY <3>2, <3>3 DEF ProfileIndInv, PastInv, PastOK
  <2>2. \A d \in Devices : creating[d].attempts < MaxAllocate
    BY ProfileConstants DEF ProfileIndInv, TryInv, TryOK, NotCreating
  <2>3. CreatedWhole
    BY DEF CreatedWhole, ProfileIndInv, PastInv, ToldInv, KeysInv
  <2>4. SnapshotWhole
    BY DEF SnapshotWhole, ProfileIndInv, ToldInv, Seen
  <2> QED
    BY <2>1, <2>2, <2>3, <2>4 DEF ProfileInv, ProfileTypeOK
<1> QED
  BY <1>1, ProfileInvariance, PTL

\* A name or preferences are replaced by a device that keeps the very row that it
\* replaces: with expected_version in patch_spirit and bump_spirit
\* (services/settings.py) no device overwrites what it has not seen.
THEOREM UnseenIsKept == ProfileSpec => SeenIsPatched
<1> DEFINE Patches ==
               spirits' # spirits =>
                   \A o \in Owners :
                       /\ Exists(o)
                       /\ <<spirits'[o].name, spirits'[o].prefs>>
                              # <<spirits[o].name, spirits[o].prefs>>
                       => \E d \in Devices : OwnerOf[d] = o /\ told[d].row = spirits[o]
<1>1. ProfileIndInv /\ [ProfileNext]_profileVars => [Patches]_profileVars
  <2> SUFFICES ASSUME ProfileIndInv, ProfileNext, NEW o \in Owners, Exists(o),
                      \/ spirits'[o].name # spirits[o].name
                      \/ spirits'[o].prefs # spirits[o].prefs
               PROVE  \E d \in Devices : OwnerOf[d] = o /\ told[d].row = spirits[o]
    OBVIOUS
  <2>1. /\ DOMAIN spirits = Owners /\ PastOK(o)
    BY DEF ProfileIndInv, PastInv
  <2>2. ASSUME NEW d \in Devices, FinishCreate(d) PROVE spirits'[o] = spirits[o]
    <3>1. ~Exists(OwnerOf[d])
      BY <2>2, ProfileConstants DEF FinishCreate, ProfileIndInv, TryInv, TryOK, NotCreating
    <3> QED
      BY <2>1, <2>2, <3>1 DEF FinishCreate
  <2>3. ASSUME NEW p \in Owners, ChangeFacts(p)
        PROVE  spirits'[o].name = spirits[o].name /\ spirits'[o].prefs = spirits[o].prefs
    <3> DEFINE v == spirits[p].version + 1
    <3>1. spirits' = [spirits EXCEPT ![p] = [spirits[p] EXCEPT !.version = v, !.facts = v]]
      BY <2>3 DEF ChangeFacts, Write
    <3> HIDE DEF v
    <3>2. spirits[o] \in ProfileRow
      BY <2>1 DEF PastOK, Exists
    <3> QED
      BY <2>1, <3>1, <3>2 DEF ProfileRow
  <2>4. ASSUME NEW d \in Devices, NEW k \in PatchIds, PatchSpirit(d, k)
        PROVE  spirits'[o] = spirits[o] \/ (OwnerOf[d] = o /\ told[d].row = spirits[o])
    <3>1. CASE UNCHANGED spirits
      BY <3>1
    <3>2. CASE VersionExpected(OwnerOf[d], told[d].row.version) /\ OwnerOf[d] = o
      <4>1. told[d].row \in Seen(o) /\ told[d].row # NoSpirit
        BY <2>4, <3>2 DEF ProfileIndInv, ToldInv, PatchSpirit
      <4>2. told[d].row.version = spirits[o].version
        BY <3>2 DEF VersionExpected
      <4> QED
        BY <3>2, <4>1, <4>2, SeenVersions DEF ProfileIndInv
    <3>3. CASE OwnerOf[d] # o /\ \E row : Write(OwnerOf[d], row)
      BY <2>1, <3>3 DEF Write
    <3> QED
      BY <2>4, <3>1, <3>2, <3>3 DEF PatchSpirit
  <2>5. ASSUME NEW d \in Devices,
               \/ \E c \in UpToNew(CreateIds, NewCreateKey) : StartCreate(d, c)
               \/ \E code \in UpToNew(InviteCodes, NewCode) : DrawCode(d, code)
               \/ LoseCreate(d) \/ StartBootstrap(d) \/ FinishBootstrap(d)
        PROVE  UNCHANGED spirits
    BY <2>5 DEF StartCreate, DrawCode, LoseCreate, StartBootstrap, FinishBootstrap
  <2>6. UpToNew(PatchIds, NewPatchKey) \subseteq PatchIds
    BY DEF UpToNew
  <2> QED
    BY <2>2, <2>3, <2>4, <2>5, <2>6 DEF ProfileNext
<1> QED
  BY <1>1, ProfileInvariance, PTL DEF ProfileSpec, SeenIsPatched

-----------------------------------------------------------------------------
(* Notices: dates and quiet hours. *)

LEMMA NoticeConstants ==
    /\ NoticeDay \in Nat /\ NoticeDay > 0
    /\ \A z \in NoticeZones : z \in Nat
    /\ \A q \in QuietHours : /\ q.start \in Nat /\ q.end \in Nat
                             /\ q.start < NoticeDay /\ q.end < NoticeDay
    /\ DailyCap \in Nat /\ MaxHour \in Nat
<1>1. NoticeDay \in Nat /\ NoticeDay > 0 /\ DailyCap \in Nat /\ MaxHour \in Nat
  BY NoticesAssumption
<1>2. \A z \in NoticeZones : z \in Nat
  BY NoticesAssumption
<1>3. \A q \in QuietHours : q.start \in 0 .. NoticeDay - 1 /\ q.end \in 0 .. NoticeDay - 1
  BY NoticesAssumption
<1> QED
  BY <1>1, <1>2, <1>3

LEMMA LocalTimes ==
    ASSUME NEW t \in Int, NEW z \in Int
    PROVE  /\ LocalTime(t, z) \in Nat /\ LocalTime(t, z) < NoticeDay
           /\ NoticeDate(t, z) \in Int
           /\ t + z = NoticeDate(t, z) * NoticeDay + LocalTime(t, z)
  BY NoticeConstants DEF LocalTime, NoticeDate

\* The local time of an instant does not depend on the day.
LEMMA LocalTimeUnique ==
    ASSUME NEW t \in Int, NEW z \in Int, NEW q \in Int, NEW e \in Nat, e < NoticeDay,
           t + z = q * NoticeDay + e
    PROVE  LocalTime(t, z) = e
<1> DEFINE d == NoticeDate(t, z)
           l == LocalTime(t, z)
<1>1. /\ l \in Nat /\ l < NoticeDay /\ d \in Int /\ t + z = d * NoticeDay + l
  BY LocalTimes
<1>2. NoticeDay \in Nat
  BY NoticeConstants
<1> HIDE DEF d, l
<1>3. (d - q) * NoticeDay = e - l
  BY <1>1, <1>2
<1>4. d - q < 1
  BY <1>1, <1>2, <1>3
<1>5. d - q > -1
  BY <1>1, <1>2, <1>3
<1>6. d = q
  BY <1>1, <1>4, <1>5
<1>7. e = l
  BY <1>1, <1>2, <1>6
<1> QED
  BY <1>7 DEF l

\* The end of the quiet hours is not before the instant it is computed for, and is
\* not quiet.
LEMMA EndOfQuiet ==
    ASSUME NEW t \in Int, NEW z \in NoticeZones, NEW q \in QuietHours
    PROVE  /\ NextDndEnd(t, z, q) \in Int /\ NextDndEnd(t, z, q) >= t
           /\ ~InDnd(NextDndEnd(t, z, q), z, q)
<1> DEFINE e == q.end
           l == LocalTime(t, z)
           d == NoticeDate(t, z)
           n == NextDndEnd(t, z, q)
<1>1. /\ z \in Int /\ e \in Nat /\ e < NoticeDay /\ q.start \in Nat
      /\ NoticeDay \in Nat
  BY NoticeConstants
<1>2. l \in Nat /\ l < NoticeDay /\ d \in Int /\ t + z = d * NoticeDay + l
  BY <1>1, LocalTimes
<1>3. n = IF l >= e THEN t - l + e + NoticeDay ELSE t - l + e
  BY DEF NextDndEnd
<1> HIDE DEF e, l, d, n
<1>4. n \in Int /\ n >= t
  BY <1>1, <1>2, <1>3
<1>5. LocalTime(n, z) = e
  <2>1. CASE l >= e
    <3> DEFINE c == d + 1
    <3>1. n + z = c * NoticeDay + e /\ c \in Int
      BY <1>1, <1>2, <1>3, <2>1
    <3> HIDE DEF c
    <3> QED
      BY <1>1, <1>4, <3>1, LocalTimeUnique
  <2>2. CASE ~(l >= e)
    <3>1. n + z = d * NoticeDay + e /\ d \in Int
      BY <1>1, <1>2, <1>3, <2>2
    <3> QED
      BY <1>1, <1>4, <3>1, LocalTimeUnique
  <2> QED
    BY <2>1, <2>2
<1>6. ~InDnd(n, z, q)
  BY <1>1, <1>5 DEF InDnd, e
<1> QED
  BY <1>4, <1>6 DEF n

-----------------------------------------------------------------------------
(* Notices: the inductive invariant. *)

NoticeKey(n) == [type |-> n.type, of |-> n.of, day |-> n.day]

\* The keys that count on a day, and those of them that were planned in one zone.
KeysOn(S, day, z) == {NoticeKey(n) : n \in {m \in S : NoticeDate(m.at, z) = day}}

KeysOf(S, day, z) ==
    {NoticeKey(n) : n \in {m \in S : m.zone = z /\ NoticeDate(m.at, z) = day}}

Keys(S) == {NoticeKey(n) : n \in S}

\* What a pass has planned, but not written, has room on its day, since nobody else
\* writes.
PlanFits(p) ==
    p.at # NotSent =>
        /\ p.zone \in NoticeZones
        /\ p.at \in Int /\ p.at >= planner.now /\ ~InDnd(p.at, p.zone, p.quiet)
        /\ Cardinality(KeysOn(notices, NoticeDate(p.at, p.zone), p.zone)) < DailyCap

PassInv ==
    planner # NoPass =>
        /\ planner.now \in Nat
        /\ planner.plan # NoPlan => PlanFits(planner.plan)

RowsInv ==
    /\ IsFiniteSet(Keys(notices))
    /\ \A n \in notices : n.at \in Int /\ ~InDnd(n.at, n.zone, n.quiet)
    /\ \A z \in NoticeZones, day \in Int :
           Cardinality(KeysOf(notices, day, z)) <= DailyCap

NoticesIndInv ==
    /\ hour \in Nat /\ noteZone \in NoticeZones /\ quiet \in QuietHours
    /\ noticeJobs \in [NoticeJobs -> {"none", "pending", "claimed", "done"}]
    /\ PassInv /\ RowsInv

\* The keys of a day are some of those that there are.
LEMMA SomeKeys ==
    ASSUME NEW S, IsFiniteSet(Keys(S)), NEW day, NEW z
    PROVE  /\ IsFiniteSet(KeysOn(S, day, z)) /\ IsFiniteSet(KeysOf(S, day, z))
           /\ Cardinality(KeysOf(S, day, z)) <= Cardinality(KeysOn(S, day, z))
           /\ Cardinality(KeysOn(S, day, z)) \in Nat
<1>1. KeysOf(S, day, z) \subseteq KeysOn(S, day, z) /\ KeysOn(S, day, z) \subseteq Keys(S)
  BY DEF KeysOf, KeysOn, Keys
<1>2. IsFiniteSet(KeysOn(S, day, z))
  BY <1>1, FS_Subset
<1>3. /\ IsFiniteSet(KeysOf(S, day, z))
      /\ Cardinality(KeysOf(S, day, z)) <= Cardinality(KeysOn(S, day, z))
  BY <1>1, <1>2, FS_Subset
<1>4. Cardinality(KeysOn(S, day, z)) \in Nat
  BY <1>2, FS_CardinalityType
<1> QED
  BY <1>2, <1>3, <1>4

-----------------------------------------------------------------------------
(* Notices: the steps. *)

\* What a pass plans fits: the preferences and the counts are those of its own statements.
LEMMA PlannedFits ==
    ASSUME NoticesIndInv, planner # NoPass, NEW wanted \in BOOLEAN,
           NEW p, p = Planned(planner.job, planner.now, wanted)
    PROVE  PlanFits(p)
<1> DEFINE z == noteZone
           now == planner.now
           day == NoticeDate(now, z)
           end == NextDndEnd(now, z, quiet)
           later == NoticeDate(end, z)
<1>1. /\ z \in NoticeZones /\ now \in Int /\ now >= 0 /\ quiet \in QuietHours
      /\ DailyCap \in Nat /\ IsFiniteSet(Keys(notices))
  BY NoticeConstants DEF NoticesIndInv, PassInv, RowsInv
<1>2. ASSUME NEW d
      PROVE  UsedOn(d, z) = Cardinality(KeysOn(notices, d, z)) /\ UsedOn(d, z) \in Nat
  <2>1. UsedOn(d, z) = Cardinality(KeysOn(notices, d, z))
    BY DEF UsedOn, KeysOn, NoticeKey
  <2>2. Cardinality(KeysOn(notices, d, z)) \in Nat
    BY <1>1, SomeKeys
  <2> QED
    BY <2>1, <2>2
<1>3. end \in Int /\ end >= now /\ ~InDnd(end, z, quiet)
  BY <1>1, EndOfQuiet
<1>4. \/ p.at = NotSent
      \/ /\ p.zone = z /\ p.quiet = quiet /\ p.at = now
         /\ ~InDnd(now, z, quiet) /\ UsedOn(day, z) < DailyCap
      \/ p.zone = z /\ p.quiet = quiet /\ p.at = end /\ UsedOn(later, z) < DailyCap
  BY <1>1, <1>2 DEF Planned, NoPlan
<1> HIDE DEF z, now, day, end, later
<1>5. CASE /\ p.zone = z /\ p.quiet = quiet /\ p.at = now
           /\ ~InDnd(now, z, quiet) /\ UsedOn(day, z) < DailyCap
  BY <1>1, <1>2, <1>5 DEF PlanFits, day, now
<1>6. CASE p.zone = z /\ p.quiet = quiet /\ p.at = end /\ UsedOn(later, z) < DailyCap
  BY <1>1, <1>2, <1>3, <1>6 DEF PlanFits, later, now
<1> QED
  BY <1>1, <1>4, <1>5, <1>6 DEF PlanFits

\* The step leaves the rows and what a pass has planned alone.
LEMMA OtherNotices ==
    ASSUME NoticesIndInv, UNCHANGED notices,
           hour' \in Nat, noteZone' \in NoticeZones, quiet' \in QuietHours,
           noticeJobs' \in [NoticeJobs -> {"none", "pending", "claimed", "done"}],
           \/ planner' \in {planner, NoPass}
           \/ planner'.plan = NoPlan /\ planner'.now \in Nat
    PROVE  NoticesIndInv'
<1>1. RowsInv'
  BY DEF NoticesIndInv, RowsInv
<1>2. PassInv'
  BY DEF NoticesIndInv, PassInv, PlanFits
<1> QED
  BY <1>1, <1>2 DEF NoticesIndInv

LEMMA LookInv ==
    ASSUME NoticesIndInv, NEW wanted \in BOOLEAN, LookNotice(wanted)
    PROVE  NoticesIndInv'
<1> DEFINE p == Planned(planner.job, planner.now, wanted)
<1>1. /\ planner # NoPass /\ UNCHANGED <<hour, noteZone, quiet, noticeJobs, notices>>
      /\ planner' = [planner EXCEPT !.plan = p]
  BY DEF LookNotice
<1>2. PlanFits(p)
  BY <1>1, PlannedFits
<1> HIDE DEF p
<1>3. planner'.now = planner.now /\ (planner'.plan = p \/ planner'.plan = planner.plan)
  BY <1>1
<1> QED
  BY <1>1, <1>2, <1>3 DEF NoticesIndInv, PassInv, RowsInv, PlanFits

\* The rows that are written have one key and one time.
LEMMA NewRows ==
    ASSUME NEW devices, NEW new, new = {Delivery(d) : d \in devices}
    PROVE  \E k : \A m \in new : /\ NoticeKey(m) = k
                                /\ m.at = planner.plan.at /\ m.zone = planner.plan.zone
                                /\ m.quiet = planner.plan.quiet
<1> DEFINE k == [type |-> planner.job.type,
                 of |-> IF planner.job.type = "care" THEN 0 ELSE planner.job.of,
                 day |-> planner.plan.day]
<1>1. \A d : LET m == Delivery(d)
             IN /\ NoticeKey(m) = k /\ m.at = planner.plan.at
                /\ m.zone = planner.plan.zone /\ m.quiet = planner.plan.quiet
  BY DEF Delivery, NoticeKey
<1> HIDE DEF k
<1>2. \A m \in new : /\ NoticeKey(m) = k /\ m.at = planner.plan.at
                      /\ m.zone = planner.plan.zone /\ m.quiet = planner.plan.quiet
  BY <1>1
<1> QED
  BY <1>2

\* The rows of a plan: whatever they replace, they add one key, on a day with room.
LEMMA WrittenRows ==
    ASSUME NoticesIndInv, NEW p, p = planner.plan, PlanFits(p), p.at # NotSent,
           NEW new, NEW k,
           \A m \in new : /\ NoticeKey(m) = k /\ m.at = p.at
                          /\ m.zone = p.zone /\ m.quiet = p.quiet,
           NEW after, after \subseteq notices \cup new
    PROVE  /\ IsFiniteSet(Keys(after))
           /\ \A n \in after : n.at \in Int /\ ~InDnd(n.at, n.zone, n.quiet)
           /\ \A z \in NoticeZones, day \in Int :
                  Cardinality(KeysOf(after, day, z)) <= DailyCap
<1>1. IsFiniteSet(Keys(notices)) /\ DailyCap \in Nat
  BY NoticeConstants DEF NoticesIndInv, RowsInv
<1>2. IsFiniteSet(Keys(after))
  <2>1. Keys(after) \subseteq Keys(notices) \cup {k}
    BY DEF Keys
  <2>2. IsFiniteSet(Keys(notices) \cup {k})
    BY <1>1, FS_AddElement
  <2> QED
    BY <2>1, <2>2, FS_Subset
<1>3. \A n \in after : n.at \in Int /\ ~InDnd(n.at, n.zone, n.quiet)
  BY DEF PlanFits, NoticesIndInv, RowsInv
<1>4. ASSUME NEW z \in NoticeZones, NEW day \in Int
      PROVE  Cardinality(KeysOf(after, day, z)) <= DailyCap
  <2>1. IsFiniteSet(KeysOf(notices, day, z)) /\ IsFiniteSet(KeysOn(notices, day, z))
    BY <1>1, SomeKeys
  <2>2. CASE z = p.zone /\ day = NoticeDate(p.at, p.zone)
    <3>1. KeysOf(after, day, z) \subseteq KeysOn(notices, day, z) \cup {k}
      BY DEF KeysOf, KeysOn
    <3>2. /\ IsFiniteSet(KeysOn(notices, day, z) \cup {k})
          /\ Cardinality(KeysOn(notices, day, z) \cup {k})
                 <= Cardinality(KeysOn(notices, day, z)) + 1
      <4>1. /\ IsFiniteSet(KeysOn(notices, day, z) \cup {k})
            /\ \/ Cardinality(KeysOn(notices, day, z) \cup {k})
                      = Cardinality(KeysOn(notices, day, z))
               \/ Cardinality(KeysOn(notices, day, z) \cup {k})
                      = Cardinality(KeysOn(notices, day, z)) + 1
        BY <2>1, FS_AddElement
      <4>2. Cardinality(KeysOn(notices, day, z)) \in Nat
        BY <2>1, FS_CardinalityType
      <4> QED
        BY <4>1, <4>2
    <3>3. /\ Cardinality(KeysOf(after, day, z))
                <= Cardinality(KeysOn(notices, day, z) \cup {k})
          /\ IsFiniteSet(KeysOf(after, day, z))
      BY <3>1, <3>2, FS_Subset
    <3>4. /\ Cardinality(KeysOf(after, day, z)) \in Nat
          /\ Cardinality(KeysOn(notices, day, z) \cup {k}) \in Nat
          /\ Cardinality(KeysOn(notices, day, z)) \in Nat
      BY <2>1, <3>2, <3>3, FS_CardinalityType
    <3>5. Cardinality(KeysOn(notices, day, z)) < DailyCap
      BY <2>2 DEF PlanFits
    <3> QED
      BY <1>1, <3>2, <3>3, <3>4, <3>5
  <2>3. CASE ~(z = p.zone /\ day = NoticeDate(p.at, p.zone))
    <3>1. KeysOf(after, day, z) \subseteq KeysOf(notices, day, z)
      BY <2>3 DEF KeysOf
    <3>2. /\ Cardinality(KeysOf(after, day, z)) <= Cardinality(KeysOf(notices, day, z))
          /\ IsFiniteSet(KeysOf(after, day, z))
      BY <2>1, <3>1, FS_Subset
    <3>3. /\ Cardinality(KeysOf(after, day, z)) \in Nat
          /\ Cardinality(KeysOf(notices, day, z)) \in Nat
      BY <2>1, <3>2, FS_CardinalityType
    <3>4. Cardinality(KeysOf(notices, day, z)) <= DailyCap
      BY DEF NoticesIndInv, RowsInv
    <3> QED
      BY <1>1, <3>2, <3>3, <3>4
  <2> QED
    BY <2>2, <2>3
<1> QED
  BY <1>2, <1>3, <1>4

LEMMA PlanInv ==
    ASSUME NoticesIndInv, NEW devices \in SUBSET NoticeDevices, PlanNotice(devices)
    PROVE  NoticesIndInv'
<1> DEFINE new == {Delivery(d) : d \in devices}
<1>1. /\ planner.plan # NoPlan /\ planner' = NoPass
      /\ notices' = IF planner.plan.at = NotSent THEN notices ELSE Upserted(new)
      /\ noticeJobs' = [noticeJobs EXCEPT ![planner.job] = IF @ = "claimed" THEN "done" ELSE @]
      /\ UNCHANGED <<hour, noteZone, quiet>>
  BY DEF PlanNotice
<1>2. planner # NoPass
  BY <1>1 DEF NoPass
<1>3. PlanFits(planner.plan)
  BY <1>1, <1>2 DEF NoticesIndInv, PassInv
<1>4. Upserted(new) \subseteq notices \cup new
  BY DEF Upserted
<1>5. PICK k : \A m \in new : /\ NoticeKey(m) = k
                             /\ m.at = planner.plan.at /\ m.zone = planner.plan.zone
                             /\ m.quiet = planner.plan.quiet
  BY NewRows
<1> HIDE DEF new
<1>6. /\ IsFiniteSet(Keys(notices'))
      /\ \A n \in notices' : n.at \in Int /\ ~InDnd(n.at, n.zone, n.quiet)
      /\ \A z \in NoticeZones, day \in Int :
             Cardinality(KeysOf(notices', day, z)) <= DailyCap
  <2>1. CASE planner.plan.at = NotSent
    BY <1>1, <2>1 DEF NoticesIndInv, RowsInv
  <2>2. CASE planner.plan.at # NotSent
    <3>1. notices' \subseteq notices \cup new
      BY <1>1, <1>4, <2>2
    <3> QED
      BY <1>3, <1>5, <2>2, <3>1, WrittenRows
  <2> QED
    BY <2>1, <2>2
<1>7. RowsInv'
  BY <1>1, <1>6 DEF RowsInv
<1>8. noticeJobs' \in [NoticeJobs -> {"none", "pending", "claimed", "done"}]
  BY <1>1 DEF NoticesIndInv
<1> QED
  BY <1>1, <1>7, <1>8 DEF NoticesIndInv, PassInv

LEMMA NoticesNextInv ==
    ASSUME NoticesIndInv, [NoticesNext]_noticeVars PROVE NoticesIndInv'
<1> DEFINE Untouched ==
               /\ UNCHANGED notices /\ hour' \in Nat
               /\ noteZone' \in NoticeZones /\ quiet' \in QuietHours
               /\ noticeJobs' \in [NoticeJobs -> {"none", "pending", "claimed", "done"}]
               /\ \/ planner' \in {planner, NoPass}
                  \/ planner'.plan = NoPlan /\ planner'.now \in Nat
<1>1. /\ hour \in Nat /\ noteZone \in NoticeZones /\ quiet \in QuietHours
      /\ noticeJobs \in [NoticeJobs -> {"none", "pending", "claimed", "done"}]
  BY DEF NoticesIndInv
<1>2. ASSUME NEW now \in Nows, ScanNotices(now) PROVE Untouched
  BY <1>1, <1>2 DEF ScanNotices
<1>3. ASSUME NEW now \in Nows, NEW j \in NoticeJobs, ClaimNotice(j, now) PROVE Untouched
  <2>1. now \in Nat
    BY <1>1, NoticesAssumption DEF Nows
  <2>2. planner'.plan = NoPlan /\ planner'.now = now
    BY <1>3 DEF ClaimNotice
  <2> QED
    BY <1>1, <1>3, <2>1, <2>2 DEF ClaimNotice
<1>4. ASSUME NEW j \in NoticeJobs, ReclaimNotice(j) PROVE Untouched
  BY <1>1, <1>4 DEF ReclaimNotice
<1>5. ASSUME CrashNotices \/ PatchPreferences \/ NextHour PROVE Untouched
  BY <1>1, <1>5 DEF CrashNotices, PatchPreferences, NextHour
<1>6. ASSUME UNCHANGED noticeVars PROVE Untouched
  BY <1>1, <1>6 DEF noticeVars
<1>7. Untouched => NoticesIndInv'
  BY OtherNotices
<1> HIDE DEF Untouched
<1> QED
  BY <1>2, <1>3, <1>4, <1>5, <1>6, <1>7, LookInv, PlanInv DEF NoticesNext

LEMMA NoticesInitInv == NoticesInit => NoticesIndInv
<1> SUFFICES ASSUME NoticesInit PROVE NoticesIndInv
  OBVIOUS
<1>1. IsFiniteSet({}) /\ Cardinality({}) = 0
  BY FS_EmptySet
<1>2. Keys({}) = {} /\ \A day, z : KeysOf({}, day, z) = {}
  BY DEF Keys, KeysOf
<1>3. RowsInv
  BY <1>1, <1>2, NoticeConstants DEF RowsInv, NoticesInit
<1> QED
  BY <1>3 DEF NoticesIndInv, NoticesInit, PassInv

\* However often a job is planned again, and whatever the owner changes between two
\* statements of a plan (services/notification_planner.py): of the pushes that were
\* planned in one zone no more than the cap are for one of its days, and none is
\* scheduled in the quiet hours that its plan has read, or before it was planned.
THEOREM NoticesKept == NoticesSpec => []NoticesInv
<1>1. NoticesIndInv => NoticesInv
  <2> SUFFICES ASSUME NoticesIndInv PROVE NoticesInv
    OBVIOUS
  <2>1. DayCapped
    <3> SUFFICES ASSUME NEW z \in NoticeZones, NEW n \in notices
                 PROVE  Cardinality(KeysOf(notices, NoticeDate(n.at, z), z)) <= DailyCap
      BY DEF DayCapped, KeysOf, NoticeKey
    <3>1. n.at \in Int /\ z \in Int
      BY NoticeConstants DEF NoticesIndInv, RowsInv
    <3>2. NoticeDate(n.at, z) \in Int
      BY <3>1, LocalTimes
    <3> QED
      BY <3>2 DEF NoticesIndInv, RowsInv
  <2>2. QuietKept
    <3>1. NoPass.plan = NoPlan
      BY DEF NoPass
    <3> QED
      BY <3>1 DEF QuietKept, NoticesIndInv, PassInv, RowsInv, PlanFits
  <2> QED
    BY <2>1, <2>2 DEF NoticesInv, NoticesTypeOK, NoticesIndInv
<1> QED
  BY <1>1, NoticesInitInv, NoticesNextInv, PTL DEF NoticesSpec

-----------------------------------------------------------------------------
(* Report: the inductive invariant. *)

ReportRow == [status: {"none", "generating", "partial", "ready"},
              card: SUBSET CardMemories, line: BOOLEAN, attempts: Nat, version: Nat]

ReportJob == [status: {"none", "pending", "claimed", "done", "dead"},
              by: SUBSET Generators, attempts: Nat]

Asking == {Resting} \cup [phase: {"getting"}]
          \cup [phase: {"lining", "writing", "storing"}, cid: LineIds, version: Nat]

Passing == {Resting} \cup [phase: {"claimed", "looking", "looked", "assembling"}]
           \cup [phase: {"asking"}, card: SUBSET CardMemories, version: Nat]
           \cup [phase: {"saving"}, card: SUBSET CardMemories, text: BOOLEAN]

ReportTyped ==
    /\ remembered \subseteq CardMemories /\ shown.version \in Nat
    /\ report \in ReportRow /\ job \in ReportJob
    /\ lineKeys \in [LineIds -> {"none", "in_progress", "completed"}]
    /\ asked \in [ReportHandlers -> Asking]
    /\ generator \in [Generators -> Passing]

\* One of the handlers H or of the workers K has a row.
OneHolds(H, K) ==
    /\ \A h, k \in H : h = k
    /\ \A f, g \in K : f = g
    /\ H = {} \/ K = {}

ReportLocksInv ==
    OneHolds(SpiritHolders, SpiritKeepers) /\ OneHolds(ReportHolders, ReportKeepers)

\* A request whose attempt is not reserved has no record; who is about to store a
\* line has locked the report that it asked for.
AskedOK(a) ==
    /\ a.phase = "lining" => lineKeys[a.cid] = "none"
    /\ a.phase \in {"writing", "storing"} =>
          lineKeys[a.cid] # "none" /\ a.version <= MaxVersion
    /\ a.phase = "storing" => LineStorable(a.version)

\* A pass has the card of the version that is generating, or of one that is not any
\* more; who is about to store it has locked the report.
PassingOK(p) ==
    /\ p # Resting => job.status # "none"
    /\ p.phase = "asking" /\ report.status = "generating" => p.version = report.version
    /\ p.phase = "saving" => report.status = "generating"

LinesTried == {c \in LineIds : lineKeys[c] # "none"}

ReportOK ==
    /\ report.status = "none" => report = NoReport /\ job.status = "none"
    /\ report.status = "generating" => report.version = 1 /\ job.status \notin {"none", "done"}
    /\ report.version <= MaxVersion + 1
    /\ report.status = "ready" <=> report.line
    /\ IsFiniteSet(LinesTried) /\ report.attempts = Cardinality(LinesTried)
    /\ report.attempts <= LineMax
    /\ job.by # {} <=> job.status = "claimed"

ReportIndInv ==
    /\ ReportTyped /\ ReportLocksInv /\ ReportOK
    /\ \A h \in ReportHandlers : AskedOK(asked[h])
    /\ \A g \in Generators : PassingOK(generator[g])

LEMMA ReportConstants ==
    /\ LineMax \in Nat /\ LineMax > 0 /\ MaxVersion \in Nat /\ MaxVersion > 0
    /\ MaxReportAttempts \in Nat
    /\ NoReport \in ReportRow /\ NoReport.status = "none" /\ NoReport.version = 0
    /\ NoReport.attempts = 0 /\ NoReport.line = FALSE
    /\ Resting.phase = "idle" /\ Resting \in Asking /\ Resting \in Passing
<1>1. LineMax \in Nat /\ LineMax > 0 /\ MaxVersion \in Nat /\ MaxVersion > 0
      /\ MaxReportAttempts \in Nat
  BY ReportAssumption
<1> QED
  BY <1>1 DEF NoReport, ReportRow, Resting, Asking, Passing

\* What the phases say of the shape of a request and of a pass.
LEMMA Shapes ==
    /\ \A a \in Asking :
          /\ a = Resting <=> a.phase = "idle"
          /\ a.phase \in {"idle", "getting", "lining", "writing", "storing"}
          /\ a.phase \in {"lining", "writing", "storing"} =>
                a \in [phase: {"lining", "writing", "storing"}, cid: LineIds, version: Nat]
    /\ \A p \in Passing :
          /\ p = Resting <=> p.phase = "idle"
          /\ p.phase = "asking" =>
                p \in [phase: {"asking"}, card: SUBSET CardMemories, version: Nat]
          /\ p.phase = "saving" =>
                p \in [phase: {"saving"}, card: SUBSET CardMemories, text: BOOLEAN]
  BY DEF Asking, Passing, Resting

-----------------------------------------------------------------------------
(* Report: the locks. *)

\* A request that takes a lock finds the row free, and so keeps it to itself.
LEMMA AskedLocks ==
    ASSUME ReportIndInv, NEW h \in ReportHandlers, NEW a \in Asking,
           asked' = [asked EXCEPT ![h] = a], generator' = generator,
           a.phase \in {"getting", "lining"} =>
               SpiritRowFree \/ asked[h].phase \in {"getting", "lining"},
           a.phase = "storing" => ReportRowFree \/ asked[h].phase = "storing"
    PROVE  ReportLocksInv'
<1>1. asked'[h] = a /\ \A k \in ReportHandlers \ {h} : asked'[k] = asked[k]
  BY DEF ReportIndInv, ReportTyped
<1>2. SpiritHolders' \subseteq SpiritHolders \cup {h} /\ SpiritKeepers' = SpiritKeepers
  BY <1>1 DEF SpiritHolders, SpiritKeepers
<1>3. ReportHolders' \subseteq ReportHolders \cup {h} /\ ReportKeepers' = ReportKeepers
  BY <1>1 DEF ReportHolders, ReportKeepers
<1>4. h \in SpiritHolders' => SpiritRowFree \/ h \in SpiritHolders
  BY <1>1 DEF SpiritHolders
<1>5. h \in ReportHolders' => ReportRowFree \/ h \in ReportHolders
  BY <1>1 DEF ReportHolders
<1>6. OneHolds(SpiritHolders', SpiritKeepers')
  BY <1>2, <1>4 DEF ReportIndInv, ReportLocksInv, OneHolds, SpiritRowFree
<1>7. OneHolds(ReportHolders', ReportKeepers')
  BY <1>3, <1>5 DEF ReportIndInv, ReportLocksInv, OneHolds, ReportRowFree
<1> QED
  BY <1>6, <1>7 DEF ReportLocksInv, OneHolds

LEMMA PassingLocks ==
    ASSUME ReportIndInv, NEW g \in Generators, NEW p \in Passing,
           generator' = [generator EXCEPT ![g] = p], asked' = asked,
           p.phase = "assembling" => SpiritRowFree \/ generator[g].phase = "assembling",
           p.phase \in {"looking", "saving"} =>
               ReportRowFree \/ generator[g].phase \in {"looking", "saving"}
    PROVE  ReportLocksInv'
<1>1. generator'[g] = p /\ \A k \in Generators \ {g} : generator'[k] = generator[k]
  BY DEF ReportIndInv, ReportTyped
<1>2. SpiritKeepers' \subseteq SpiritKeepers \cup {g} /\ SpiritHolders' = SpiritHolders
  BY <1>1 DEF SpiritHolders, SpiritKeepers
<1>3. ReportKeepers' \subseteq ReportKeepers \cup {g} /\ ReportHolders' = ReportHolders
  BY <1>1 DEF ReportHolders, ReportKeepers
<1>4. g \in SpiritKeepers' => SpiritRowFree \/ g \in SpiritKeepers
  BY <1>1 DEF SpiritKeepers
<1>5. g \in ReportKeepers' => ReportRowFree \/ g \in ReportKeepers
  BY <1>1 DEF ReportKeepers
<1>6. OneHolds(SpiritHolders', SpiritKeepers')
  BY <1>2, <1>4 DEF ReportIndInv, ReportLocksInv, OneHolds, SpiritRowFree
<1>7. OneHolds(ReportHolders', ReportKeepers')
  BY <1>3, <1>5 DEF ReportIndInv, ReportLocksInv, OneHolds, ReportRowFree
<1> QED
  BY <1>6, <1>7 DEF ReportLocksInv, OneHolds

-----------------------------------------------------------------------------
(* Report: the steps that leave the report alone. *)

\* Only a request changes.
LEMMA AskedStep ==
    ASSUME ReportIndInv, NEW h \in ReportHandlers, NEW a \in Asking,
           asked' = [asked EXCEPT ![h] = a],
           UNCHANGED <<shown, remembered, report, job, lineKeys, generator>>,
           a.phase \in {"getting", "lining"} =>
               SpiritRowFree \/ asked[h].phase \in {"getting", "lining"},
           a.phase = "storing" => ReportRowFree \/ asked[h].phase = "storing",
           AskedOK(a)
    PROVE  ReportIndInv'
<1>1. ReportLocksInv'
  BY AskedLocks
<1>2. ReportTyped'
  BY DEF ReportIndInv, ReportTyped
<1>3. ReportOK'
  BY DEF ReportIndInv, ReportOK, LinesTried
<1>4. ASSUME NEW k \in ReportHandlers PROVE AskedOK(asked[k])'
  <2>1. asked'[k] = IF k = h THEN a ELSE asked[k]
    BY DEF ReportIndInv, ReportTyped
  <2>2. AskedOK(asked'[k])
    BY <2>1 DEF ReportIndInv
  <2> QED
    BY <2>2 DEF AskedOK, LineStorable
<1>5. \A g \in Generators : PassingOK(generator[g])'
  BY DEF ReportIndInv, PassingOK
<1> QED
  BY <1>1, <1>2, <1>3, <1>4, <1>5 DEF ReportIndInv

\* Only a pass and its job change.
LEMMA PassingStep ==
    ASSUME ReportIndInv, NEW g \in Generators, NEW p \in Passing, NEW j \in ReportJob,
           generator' = [generator EXCEPT ![g] = p], job' = j,
           UNCHANGED <<shown, remembered, report, lineKeys, asked>>,
           p.phase = "assembling" => SpiritRowFree \/ generator[g].phase = "assembling",
           p.phase \in {"looking", "saving"} =>
               ReportRowFree \/ generator[g].phase \in {"looking", "saving"},
           PassingOK(p), job.status # "none",
           j.status # "none", j.status = "done" => j = job \/ report.status # "generating",
           j.by # {} <=> j.status = "claimed"
    PROVE  ReportIndInv'
<1>1. ReportLocksInv'
  BY PassingLocks
<1>2. ReportTyped'
  BY DEF ReportIndInv, ReportTyped
<1>3. ReportOK'
  BY DEF ReportIndInv, ReportOK, LinesTried
<1>4. ASSUME NEW k \in Generators PROVE PassingOK(generator[k])'
  <2>1. generator'[k] = IF k = g THEN p ELSE generator[k]
    BY DEF ReportIndInv, ReportTyped
  <2>2. PassingOK(generator'[k])
    BY <2>1 DEF ReportIndInv
  <2> QED
    BY <2>2 DEF PassingOK
<1>5. \A h \in ReportHandlers : AskedOK(asked[h])'
  BY DEF ReportIndInv, AskedOK, LineStorable
<1> QED
  BY <1>1, <1>2, <1>3, <1>4, <1>5 DEF ReportIndInv

LEMMA RestInv ==
    ASSUME ReportIndInv, NEW h \in ReportHandlers,
           asked' = [asked EXCEPT ![h] = Resting],
           UNCHANGED <<shown, remembered, report, job, lineKeys, generator>>
    PROVE  ReportIndInv'
<1>1. AskedOK(Resting)
  BY ReportConstants DEF AskedOK
<1> QED
  BY <1>1, ReportConstants, AskedStep

LEMMA StartGetInv ==
    ASSUME ReportIndInv, NEW h \in ReportHandlers, StartGet(h) PROVE ReportIndInv'
<1> DEFINE a == [phase |-> "getting"]
<1>1. a \in Asking /\ a.phase = "getting"
  BY DEF Asking
<1>2. /\ asked' = [asked EXCEPT ![h] = a] /\ SpiritRowFree
      /\ UNCHANGED <<shown, remembered, report, job, lineKeys, generator>>
  BY DEF StartGet
<1> HIDE DEF a
<1>3. AskedOK(a)
  BY <1>1 DEF AskedOK
<1> QED
  BY <1>1, <1>2, <1>3, AskedStep

LEMMA StartLineInv ==
    ASSUME ReportIndInv, NEW h \in ReportHandlers, NEW c \in LineIds, StartLine(h, c)
    PROVE  ReportIndInv'
<1> DEFINE a == [phase |-> "lining", cid |-> c, version |-> shown.version]
<1>1. a \in Asking /\ a.phase = "lining" /\ a.cid = c
  BY DEF Asking, ReportIndInv, ReportTyped
<1>2. /\ asked' = [asked EXCEPT ![h] = a] /\ SpiritRowFree /\ lineKeys[c] = "none"
      /\ UNCHANGED <<shown, remembered, report, job, lineKeys, generator>>
  BY DEF StartLine, NewLineKey
<1> HIDE DEF a
<1>3. AskedOK(a)
  BY <1>1, <1>2 DEF AskedOK
<1> QED
  BY <1>1, <1>2, <1>3, AskedStep

LEMMA StoreLineInv ==
    ASSUME ReportIndInv, NEW h \in ReportHandlers, StoreLine(h) PROVE ReportIndInv'
<1> DEFINE w == asked[h]
           a == [w EXCEPT !.phase = "storing"]
<1>1. /\ w.phase = "writing" /\ ReportRowFree /\ LineStorable(w.version)
      /\ asked' = [asked EXCEPT ![h] = a]
      /\ UNCHANGED <<shown, remembered, report, job, lineKeys, generator>>
  BY DEF StoreLine
<1>2. w \in [phase: {"lining", "writing", "storing"}, cid: LineIds, version: Nat] /\ AskedOK(w)
  BY <1>1, Shapes DEF ReportIndInv, ReportTyped
<1>3. /\ a \in Asking /\ a.phase = "storing" /\ a.cid = w.cid /\ a.version = w.version
  BY <1>2 DEF Asking
<1> HIDE DEF a, w
<1>4. AskedOK(a)
  BY <1>1, <1>2, <1>3 DEF AskedOK
<1> QED
  BY <1>1, <1>3, <1>4, AskedStep

\* complete_outbox_job and fail_outbox_job of a job that there is.
LEMMA SettledJob ==
    ASSUME ReportIndInv, NEW g \in Generators, NEW status \in {"done", "pending", "dead"},
           job.status # "none"
    PROVE  LET j == Settled(g, status)
           IN /\ j \in ReportJob /\ j.status # "none"
              /\ j = job \/ j.status = status
              /\ j.by # {} <=> j.status = "claimed"
<1>1. job \in ReportJob /\ (job.by # {} <=> job.status = "claimed")
  BY DEF ReportIndInv, ReportTyped, ReportOK
<1> DEFINE j == [job EXCEPT !.status = status, !.by = {}]
<1>2. j \in ReportJob /\ j.status = status /\ j.by = {}
  BY <1>1 DEF ReportJob
<1>3. Settled(g, status) = j \/ Settled(g, status) = job
  BY DEF Settled
<1> HIDE DEF j
<1> QED
  BY <1>1, <1>2, <1>3

\* A pass ends: its job is settled, or left.
LEMMA EndPass ==
    ASSUME ReportIndInv, NEW g \in Generators, NEW status \in {"done", "pending", "dead"},
           generator[g] # Resting, generator' = [generator EXCEPT ![g] = Resting],
           job' = Settled(g, status) \/ job' = job,
           status = "done" => report.status # "generating",
           UNCHANGED <<shown, remembered, report, lineKeys, asked>>
    PROVE  ReportIndInv'
<1>1. job.status # "none"
  BY DEF ReportIndInv, PassingOK
<1>2. /\ job' \in ReportJob /\ job'.status # "none"
      /\ job' = job \/ job'.status = status
      /\ job'.by # {} <=> job'.status = "claimed"
  BY <1>1, SettledJob DEF ReportIndInv, ReportTyped, ReportOK
<1>3. PassingOK(Resting) /\ Resting \in Passing
  BY ReportConstants DEF PassingOK
<1>4. job'.status = "done" => job' = job \/ report.status # "generating"
  BY <1>2
<1>5. Resting.phase = "idle"
  BY ReportConstants
<1> QED
  BY <1>1, <1>2, <1>3, <1>4, <1>5, PassingStep

\* A pass goes on, and its job stays claimed or not.
LEMMA NextPass ==
    ASSUME ReportIndInv, NEW g \in Generators, NEW p \in Passing,
           generator[g] # Resting, generator' = [generator EXCEPT ![g] = p],
           UNCHANGED <<shown, remembered, report, job, lineKeys, asked>>,
           p.phase = "assembling" => SpiritRowFree,
           p.phase \in {"looking", "saving"} => ReportRowFree,
           p.phase = "asking" /\ report.status = "generating" => p.version = report.version,
           p.phase = "saving" => report.status = "generating"
    PROVE  ReportIndInv'
<1>1. job.status # "none"
  BY DEF ReportIndInv, PassingOK
<1>2. job \in ReportJob /\ (job.by # {} <=> job.status = "claimed")
  BY DEF ReportIndInv, ReportTyped, ReportOK
<1>3. PassingOK(p)
  BY <1>1 DEF PassingOK
<1> QED
  BY <1>1, <1>2, <1>3, PassingStep

LEMMA PhasesPassing ==
    \A phase \in {"claimed", "looking", "looked", "assembling"} :
        [phase |-> phase] \in Passing /\ [phase |-> phase].phase = phase
  BY DEF Passing

LEMMA ClaimReportInv ==
    ASSUME ReportIndInv, NEW g \in Generators, ClaimReport(g) PROVE ReportIndInv'
<1> DEFINE j == [status |-> "claimed", by |-> {g}, attempts |-> job.attempts + 1]
           p == [phase |-> "claimed"]
<1>1. /\ job.status = "pending" /\ job' = j /\ generator' = [generator EXCEPT ![g] = p]
      /\ UNCHANGED <<shown, remembered, report, lineKeys, asked>>
  BY DEF ClaimReport
<1>2. job.attempts \in Nat
  BY DEF ReportIndInv, ReportTyped, ReportJob
<1>3. j \in ReportJob /\ j.status = "claimed" /\ j.by # {}
  BY <1>2 DEF ReportJob
<1>4. p \in Passing /\ p.phase = "claimed"
  BY PhasesPassing
<1> HIDE DEF j, p
<1>5. PassingOK(p)
  BY <1>1, <1>4 DEF PassingOK
<1> QED
  BY <1>1, <1>3, <1>4, <1>5, PassingStep

LEMMA ReadingInv ==
    ASSUME ReportIndInv, NEW g \in Generators,
           LookReport(g) \/ LookedReport(g) \/ LockForCard(g)
    PROVE  ReportIndInv'
<1>1. generator[g] # Resting
  BY ReportConstants DEF LookReport, LookedReport, LockForCard
<1>2. CASE LookReport(g)
  <2> DEFINE p == [phase |-> "looking"]
  <2>1. p \in Passing /\ p.phase = "looking"
    BY PhasesPassing
  <2>2. /\ generator' = [generator EXCEPT ![g] = p] /\ ReportRowFree
        /\ UNCHANGED <<shown, remembered, report, job, lineKeys, asked>>
    BY <1>2 DEF LookReport
  <2> HIDE DEF p
  <2> QED
    BY <1>1, <2>1, <2>2, NextPass
<1>3. CASE LookedReport(g)
  <2> DEFINE p == [phase |-> "looked"]
  <2>1. p \in Passing /\ p.phase = "looked"
    BY PhasesPassing
  <2>2. UNCHANGED <<shown, remembered, report, lineKeys, asked>>
    BY <1>3 DEF LookedReport
  <2>3. CASE /\ report.status # "generating" /\ job' = Settled(g, "done")
             /\ generator' = [generator EXCEPT ![g] = Resting]
    BY <1>1, <2>2, <2>3, EndPass
  <2>4. CASE generator' = [generator EXCEPT ![g] = p] /\ UNCHANGED job
    <3> HIDE DEF p
    <3> QED
      BY <1>1, <2>1, <2>2, <2>4, NextPass
  <2> QED
    BY <1>3, <2>3, <2>4 DEF LookedReport
<1>4. CASE LockForCard(g)
  <2> DEFINE p == [phase |-> "assembling"]
  <2>1. p \in Passing /\ p.phase = "assembling"
    BY PhasesPassing
  <2>2. /\ generator' = [generator EXCEPT ![g] = p] /\ SpiritRowFree
        /\ UNCHANGED <<shown, remembered, report, job, lineKeys, asked>>
    BY <1>4 DEF LockForCard
  <2> HIDE DEF p
  <2> QED
    BY <1>1, <2>1, <2>2, NextPass
<1> QED
  BY <1>2, <1>3, <1>4

LEMMA AssembleCardInv ==
    ASSUME ReportIndInv, NEW g \in Generators, AssembleCard(g) PROVE ReportIndInv'
<1> DEFINE p == [phase |-> "asking", card |-> remembered, version |-> report.version]
<1>1. /\ generator[g] # Resting /\ generator' = [generator EXCEPT ![g] = p]
      /\ UNCHANGED <<shown, remembered, report, job, lineKeys, asked>>
  BY ReportConstants DEF AssembleCard
<1>2. remembered \in SUBSET CardMemories /\ report.version \in Nat
  BY DEF ReportIndInv, ReportTyped, ReportRow
<1>3. p \in Passing /\ p.phase = "asking" /\ p.version = report.version
  BY <1>2 DEF Passing
<1> HIDE DEF p
<1> QED
  BY <1>1, <1>3, NextPass

\* A pass that finds its card not storable completes a job that is not needed: the
\* report is not generating any more.
LEMMA StoreCardInv ==
    ASSUME ReportIndInv, NEW g \in Generators, NEW text \in BOOLEAN, StoreCard(g, text)
    PROVE  ReportIndInv'
<1> DEFINE w == generator[g]
           p == [phase |-> "saving", card |-> w.card, text |-> text]
<1>1. /\ w.phase = "asking" /\ ReportRowFree /\ w # Resting
      /\ UNCHANGED <<shown, remembered, report, lineKeys, asked>>
  BY ReportConstants DEF StoreCard
<1>2. /\ w \in [phase: {"asking"}, card: SUBSET CardMemories, version: Nat]
      /\ PassingOK(w)
  BY <1>1, Shapes DEF ReportIndInv, ReportTyped
<1>3. p \in Passing /\ p.phase = "saving"
  BY <1>2 DEF Passing
<1>4. CASE CardStorable(w.version) /\ generator' = [generator EXCEPT ![g] = p] /\ UNCHANGED job
  <2>1. report.status = "generating"
    BY <1>4 DEF CardStorable
  <2> HIDE DEF p
  <2> QED
    BY <1>1, <1>3, <1>4, <2>1, NextPass
<1>5. CASE /\ ~CardStorable(w.version) /\ job' = Settled(g, "done")
           /\ generator' = [generator EXCEPT ![g] = Resting]
  <2>1. report.status # "generating"
    BY <1>1, <1>2, <1>5 DEF CardStorable, PassingOK
  <2> QED
    BY <1>1, <1>5, <2>1, EndPass
<1> QED
  BY <1>4, <1>5 DEF StoreCard

LEMMA LosePassInv ==
    ASSUME ReportIndInv, NEW g \in Generators, FailReport(g) \/ CrashReport(g)
    PROVE  ReportIndInv'
<1>1. RetryOrDead \in {"pending", "dead"}
  BY DEF RetryOrDead
<1> DEFINE status == RetryOrDead
<1>2. /\ generator[g] # Resting /\ generator' = [generator EXCEPT ![g] = Resting]
      /\ job' = Settled(g, status) \/ job' = job
      /\ UNCHANGED <<shown, remembered, report, lineKeys, asked>>
  BY DEF FailReport, CrashReport
<1> HIDE DEF status
<1>3. status \in {"done", "pending", "dead"} /\ status # "done"
  BY <1>1 DEF status
<1> QED
  BY <1>2, <1>3, EndPass

LEMMA ReclaimReportInv ==
    ASSUME ReportIndInv, ReclaimReport PROVE ReportIndInv'
<1> DEFINE j == [job EXCEPT !.status = RetryOrDead, !.by = {}]
<1>1. /\ job.status = "claimed" /\ job' = j
      /\ UNCHANGED <<shown, remembered, report, lineKeys, asked, generator>>
  BY DEF ReclaimReport
<1>2. job \in ReportJob /\ RetryOrDead \in {"pending", "dead"}
  BY DEF ReportIndInv, ReportTyped, RetryOrDead
<1>3. j \in ReportJob /\ j.status \in {"pending", "dead"} /\ j.by = {}
  BY <1>2 DEF ReportJob
<1> HIDE DEF j
<1>4. ReportTyped' /\ ReportLocksInv'
  BY <1>1, <1>3 DEF ReportIndInv, ReportTyped, ReportLocksInv, OneHolds, SpiritHolders,
     SpiritKeepers, ReportHolders, ReportKeepers
<1>5. ReportOK'
  BY <1>1, <1>3 DEF ReportIndInv, ReportOK, LinesTried
<1>6. \A h \in ReportHandlers : AskedOK(asked[h])'
  BY <1>1 DEF ReportIndInv, AskedOK, LineStorable
<1>7. \A g \in Generators : PassingOK(generator[g])'
  BY <1>1, <1>3 DEF ReportIndInv, PassingOK
<1> QED
  BY <1>4, <1>5, <1>6, <1>7 DEF ReportIndInv

-----------------------------------------------------------------------------
(* Report: the steps that change it. *)

\* The snapshot that a route shows has the version of the report.
LEMMA ShownVersion ==
    ASSUME NEW row \in ReportRow PROVE Projected(row).version \in Nat
BY DEF Projected, Unseen, ReportRow

\* A request ends, and the rows that it locked are free.
LEMMA RestLocks ==
    ASSUME ReportIndInv, NEW h \in ReportHandlers,
           asked' = [asked EXCEPT ![h] = Resting], generator' = generator
    PROVE  ReportLocksInv'
BY ReportConstants, AskedLocks

\* A request that changed the report leaves every other as it was: who waits for
\* the row of the report has not locked it.
LEMMA OthersAsking ==
    ASSUME ReportIndInv, NEW h \in ReportHandlers, NEW a,
           asked' = [asked EXCEPT ![h] = a],
           ReportHolders \subseteq {h},
           NEW c \in LineIds, NEW status \in {"in_progress", "completed"},
           \/ lineKeys' = lineKeys
           \/ /\ lineKeys' = [lineKeys EXCEPT ![c] = status]
              /\ h \in SpiritHolders \/ lineKeys[c] # "none"
    PROVE  \A k \in ReportHandlers \ {h} : AskedOK(asked[k])'
<1>1. SUFFICES ASSUME NEW k \in ReportHandlers, k # h PROVE AskedOK(asked[k])'
  BY Zenon
<1>2. asked'[k] = asked[k] /\ AskedOK(asked[k]) /\ asked[k] \in Asking
  BY <1>1 DEF ReportIndInv, ReportTyped
<1>3. asked[k].phase # "storing"
  BY <1>1 DEF ReportHolders
<1>4. asked[k].phase = "lining" => lineKeys'[asked[k].cid] = "none"
  <2>1. CASE h \in SpiritHolders
    <3>1. asked[k].phase # "lining"
      BY <1>1, <2>1 DEF ReportIndInv, ReportLocksInv, OneHolds, SpiritHolders
    <3> QED
      BY <3>1
  <2>2. CASE lineKeys' = lineKeys
    BY <1>2, <2>2 DEF AskedOK
  <2>3. CASE lineKeys' = [lineKeys EXCEPT ![c] = status] /\ lineKeys[c] # "none"
    BY <1>2, <2>3, Shapes DEF AskedOK, ReportIndInv, ReportTyped
  <2> QED
    BY <2>1, <2>2, <2>3
<1>5. asked[k].phase = "writing" => lineKeys'[asked[k].cid] # "none"
  BY <1>2, Shapes DEF AskedOK, ReportIndInv, ReportTyped
<1> QED
  BY <1>2, <1>3, <1>4, <1>5 DEF AskedOK

\* The first that is eligible creates the report, and no pass is on its way yet.
LEMMA FinishGetInv ==
    ASSUME ReportIndInv, NEW h \in ReportHandlers, FinishGet(h) PROVE ReportIndInv'
<1>1. /\ asked' = [asked EXCEPT ![h] = Resting] /\ ReportRowFree
      /\ report' = (IF report.status = "none" /\ eligible THEN Generating ELSE report)
      /\ job' = (IF report'.status = "generating" THEN GenerateQueued ELSE job)
      /\ shown' = Projected(report')
      /\ UNCHANGED <<remembered, lineKeys, generator>>
  BY DEF FinishGet
<1>2. report \in ReportRow /\ job \in ReportJob
  BY DEF ReportIndInv, ReportTyped
<1>3. /\ Generating \in ReportRow /\ Generating.status = "generating" /\ Generating.version = 1
      /\ Generating.line = FALSE /\ Generating.attempts = 0
  BY DEF Generating, NoReport, ReportRow
<1> DEFINE queued == [status |-> "pending", by |-> {}, attempts |-> 0]
<1>4. queued \in ReportJob /\ queued.status = "pending" /\ queued.by = {}
  BY DEF ReportJob
<1>5. GenerateQueued = IF job.status = "none" THEN queued ELSE job
  BY DEF GenerateQueued
<1> HIDE DEF queued
<1>6. report' \in ReportRow /\ job' \in ReportJob
  BY <1>1, <1>2, <1>3, <1>4, <1>5
<1>7. ReportTyped'
  <2>1. asked' \in [ReportHandlers -> Asking]
    BY <1>1, ReportConstants DEF ReportIndInv, ReportTyped
  <2>2. shown'.version \in Nat
    BY <1>1, <1>6, ShownVersion
  <2> QED
    BY <1>1, <1>6, <2>1, <2>2 DEF ReportIndInv, ReportTyped
<1>8. ReportLocksInv'
  BY <1>1, RestLocks
<1>9. ReportOK'
  <2>1. /\ report.status = "none" => report = NoReport /\ job.status = "none"
        /\ report.status = "generating" =>
              report.version = 1 /\ job.status \notin {"none", "done"}
        /\ report.version <= MaxVersion + 1
        /\ report.status = "ready" <=> report.line
        /\ IsFiniteSet(LinesTried) /\ report.attempts = Cardinality(LinesTried)
        /\ report.attempts <= LineMax
        /\ job.by # {} <=> job.status = "claimed"
    BY DEF ReportIndInv, ReportOK
  <2>2. LinesTried' = LinesTried
    BY <1>1 DEF LinesTried
  <2>3. CASE report' = report
    <3>1. job' = job
      BY <1>1, <1>5, <2>1, <2>3
    <3> QED
      BY <2>1, <2>2, <2>3, <3>1 DEF ReportOK
  <2>4. CASE report.status = "none" /\ report' = Generating
    <3>1. job' = queued /\ report.attempts = 0
      BY <1>1, <1>3, <1>5, <2>1, <2>4, ReportConstants
    <3> QED
      BY <1>3, <1>4, <2>1, <2>2, <2>4, <3>1, ReportConstants DEF ReportOK
  <2> QED
    BY <1>1, <2>3, <2>4
<1>10. \A k \in ReportHandlers : AskedOK(asked[k])'
  <2>1. asked'[h] = Resting /\ AskedOK(asked[h])'
    BY <1>1, ReportConstants DEF ReportIndInv, ReportTyped, AskedOK
  <2>2. ReportHolders = {}
    BY <1>1 DEF ReportRowFree
  <2>3. ASSUME NEW k \in ReportHandlers, k # h PROVE AskedOK(asked[k])'
    <3>1. asked'[k] = asked[k] /\ AskedOK(asked[k])
      BY <1>1, <2>3 DEF ReportIndInv, ReportTyped
    <3>2. asked[k].phase # "storing"
      BY <2>2 DEF ReportHolders
    <3> QED
      BY <1>1, <3>1, <3>2 DEF AskedOK
  <2> QED
    BY <2>1, <2>3
<1>11. ASSUME NEW g \in Generators PROVE PassingOK(generator[g])'
  <2>1. PassingOK(generator[g])
    BY DEF ReportIndInv
  <2>2. CASE report' = report
    <3>1. job'.status # "none" \/ job'.status = job.status
      BY <1>1, <1>4, <1>5
    <3> QED
      BY <1>1, <2>1, <2>2, <3>1 DEF PassingOK
  <2>3. CASE report.status = "none"
    <3>1. job.status = "none"
      BY <2>3 DEF ReportIndInv, ReportOK
    <3>2. generator[g] = Resting
      BY <2>1, <3>1 DEF PassingOK
    <3> QED
      BY <1>1, <3>2, ReportConstants DEF PassingOK
  <2> QED
    BY <1>1, <2>2, <2>3
<1> QED
  BY <1>7, <1>8, <1>9, <1>10, <1>11 DEF ReportIndInv

\* A reserved attempt is that of one more client id: nobody else is about to
\* reserve one, since the spirit is locked.
LEMMA ReserveLineInv ==
    ASSUME ReportIndInv, NEW h \in ReportHandlers, ReserveLine(h) PROVE ReportIndInv'
<1> DEFINE line == asked[h]
           a == [line EXCEPT !.phase = "writing", !.version = ReservedAttempt.version]
<1>1. /\ line.phase = "lining" /\ ReportRowFree
      /\ UNCHANGED <<remembered, job, generator, shown>>
  BY DEF ReserveLine
<1>2. /\ line \in [phase: {"lining", "writing", "storing"}, cid: LineIds, version: Nat]
      /\ AskedOK(line)
  BY <1>1, Shapes DEF ReportIndInv, ReportTyped
<1>3. CASE asked' = [asked EXCEPT ![h] = Resting] /\ UNCHANGED <<report, lineKeys>>
  BY <1>1, <1>3, RestInv
<1>4. CASE /\ LineAvailable(line.version) /\ report.version < MaxVersion
           /\ report' = ReservedAttempt
           /\ lineKeys' = [lineKeys EXCEPT ![line.cid] = "in_progress"]
           /\ asked' = [asked EXCEPT ![h] = a]
  <2>1. report \in ReportRow /\ lineKeys \in [LineIds -> {"none", "in_progress", "completed"}]
    BY DEF ReportIndInv, ReportTyped
  <2>2. /\ ReservedAttempt \in ReportRow
        /\ ReservedAttempt.attempts = report.attempts + 1
        /\ ReservedAttempt.version = report.version + 1
        /\ ReservedAttempt.status = report.status /\ ReservedAttempt.line = report.line
    <3> DEFINE attempts == report.attempts + 1
               version == report.version + 1
    <3>1. attempts \in Nat /\ version \in Nat
      BY <2>1 DEF ReportRow
    <3>2. ReservedAttempt = [report EXCEPT !.attempts = attempts, !.version = version]
      BY DEF ReservedAttempt
    <3>3. ReservedAttempt \in ReportRow
      <4> HIDE DEF attempts, version
      <4> QED
        BY <2>1, <3>1, <3>2 DEF ReportRow
    <3>4. /\ ReservedAttempt.attempts = report.attempts + 1
          /\ ReservedAttempt.version = report.version + 1
          /\ ReservedAttempt.status = report.status /\ ReservedAttempt.line = report.line
      BY <2>1 DEF ReservedAttempt, ReportRow
    <3> QED
      BY <3>3, <3>4
  <2>3. a.phase = "writing" /\ a.cid = line.cid /\ a.version = report.version + 1 /\ a \in Asking
    BY <1>2, <2>1, <2>2 DEF Asking, ReportRow
  <2>4. report.status = "partial" /\ ~report.line /\ report.attempts < LineMax
    BY <1>4 DEF LineAvailable
  <2> HIDE DEF a, line
  <2>5. lineKeys[line.cid] = "none" /\ line.cid \in LineIds
    BY <1>1, <1>2 DEF AskedOK
  <2>6. LinesTried' = LinesTried \cup {line.cid} /\ line.cid \notin LinesTried
    BY <1>4, <2>1, <2>5 DEF LinesTried
  <2>7. IsFiniteSet(LinesTried) /\ report.attempts = Cardinality(LinesTried)
    BY DEF ReportIndInv, ReportOK
  <2>8. /\ IsFiniteSet(LinesTried \cup {line.cid})
        /\ Cardinality(LinesTried \cup {line.cid}) = Cardinality(LinesTried) + 1
    BY <2>6, <2>7, FS_AddElement
  <2>9. ReportOK'
    <3>1. report'.version <= MaxVersion + 1 /\ report'.attempts <= LineMax
      BY <1>4, <2>1, <2>2, <2>4, ReportConstants DEF ReportRow
    <3>2. IsFiniteSet(LinesTried') /\ report'.attempts = Cardinality(LinesTried')
      BY <1>4, <2>2, <2>6, <2>7, <2>8
    <3>3. report'.status = "partial" /\ ~report'.line
      BY <1>4, <2>2, <2>4
    <3>4. job' = job /\ (job.by # {} <=> job.status = "claimed")
      BY <1>1 DEF ReportIndInv, ReportOK
    <3> QED
      BY <3>1, <3>2, <3>3, <3>4 DEF ReportOK
  <2>10. ReportTyped'
    <3>1. asked' \in [ReportHandlers -> Asking]
      BY <1>4, <2>3 DEF ReportIndInv, ReportTyped
    <3>2. lineKeys' \in [LineIds -> {"none", "in_progress", "completed"}]
      BY <1>4, <2>1
    <3> QED
      BY <1>1, <1>4, <2>2, <3>1, <3>2 DEF ReportIndInv, ReportTyped
  <2>11. ReportLocksInv'
    BY <1>1, <1>4, <2>3, AskedLocks
  <2>12. \A k \in ReportHandlers : AskedOK(asked[k])'
    <3>1. asked'[h] = a
      BY <1>4 DEF ReportIndInv, ReportTyped
    <3>2. AskedOK(asked[h])'
      BY <1>4, <2>1, <2>3, <2>5, <3>1, ReportConstants DEF AskedOK, ReportRow
    <3>3. ReportHolders \subseteq {h}
      BY <1>1 DEF ReportRowFree
    <3>4. h \in SpiritHolders
      BY <1>1 DEF SpiritHolders, line
    <3>5. \A k \in ReportHandlers \ {h} : AskedOK(asked[k])'
      BY <1>4, <2>5, <3>3, <3>4, OthersAsking
    <3> QED
      BY <3>2, <3>5
  <2>13. \A g \in Generators : PassingOK(generator[g])'
    BY <1>1, <1>4, <2>2, <2>4 DEF ReportIndInv, PassingOK
  <2> QED
    BY <2>9, <2>10, <2>11, <2>12, <2>13 DEF ReportIndInv
<1> QED
  BY <1>3, <1>4 DEF ReserveLine

\* A request that has its attempt completes it, with a line or without.
LEMMA CompleteLine ==
    ASSUME ReportIndInv, NEW h \in ReportHandlers, NEW c \in LineIds, lineKeys[c] # "none",
           asked' = [asked EXCEPT ![h] = Resting],
           lineKeys' = [lineKeys EXCEPT ![c] = "completed"],
           shown'.version \in Nat, UNCHANGED <<remembered, generator>>
    PROVE  /\ report' \in ReportRow /\ job' \in ReportJob => ReportTyped'
           /\ ReportLocksInv'
           /\ LinesTried' = LinesTried
           /\ ReportHolders \subseteq {h} => \A k \in ReportHandlers : AskedOK(asked[k])'
<1>1. lineKeys \in [LineIds -> {"none", "in_progress", "completed"}]
  BY DEF ReportIndInv, ReportTyped
<1>2. asked' \in [ReportHandlers -> Asking] /\ asked'[h] = Resting
  BY ReportConstants DEF ReportIndInv, ReportTyped
<1>3. lineKeys' \in [LineIds -> {"none", "in_progress", "completed"}]
  BY <1>1
<1>4. report' \in ReportRow /\ job' \in ReportJob => ReportTyped'
  BY <1>2, <1>3 DEF ReportIndInv, ReportTyped
<1>5. LinesTried' = LinesTried
  BY <1>1 DEF LinesTried
<1>6. ASSUME ReportHolders \subseteq {h} PROVE \A k \in ReportHandlers : AskedOK(asked[k])'
  <2>1. \A k \in ReportHandlers \ {h} : AskedOK(asked[k])'
    BY <1>6, OthersAsking
  <2>2. AskedOK(asked[h])'
    BY <1>2, ReportConstants DEF AskedOK
  <2> QED
    BY <2>1, <2>2
<1> QED
  BY <1>4, <1>5, <1>6, RestLocks

LEMMA CommitLineInv ==
    ASSUME ReportIndInv, NEW h \in ReportHandlers, CommitLine(h) PROVE ReportIndInv'
<1> DEFINE line == asked[h]
           row == [report EXCEPT !.line = TRUE, !.status = "ready", !.version = @ + 1]
<1>1. /\ line.phase = "storing" /\ report' = row
      /\ lineKeys' = [lineKeys EXCEPT ![line.cid] = "completed"]
      /\ shown' = Projected(report') /\ asked' = [asked EXCEPT ![h] = Resting]
      /\ UNCHANGED <<remembered, job, generator>>
  BY DEF CommitLine
<1>2. /\ line \in [phase: {"lining", "writing", "storing"}, cid: LineIds, version: Nat]
      /\ AskedOK(line)
  BY <1>1, Shapes DEF ReportIndInv, ReportTyped
<1>3. report \in ReportRow /\ job \in ReportJob
  BY DEF ReportIndInv, ReportTyped
<1>4. /\ row \in ReportRow /\ row.status = "ready" /\ row.line /\ row.version = report.version + 1
      /\ row.attempts = report.attempts
  <2> DEFINE version == report.version + 1
             updated == [report EXCEPT !.line = TRUE, !.status = "ready", !.version = version]
  <2>1. version \in Nat
    BY <1>3 DEF ReportRow
  <2>2. row = updated
    OBVIOUS
  <2>3. row \in ReportRow
    <3>1. updated \in ReportRow
      <4> HIDE DEF version
      <4> QED
        BY <1>3, <2>1 DEF ReportRow
    <3> QED
      BY <2>2, <3>1
  <2>4. /\ row.status = "ready" /\ row.line /\ row.version = report.version + 1
        /\ row.attempts = report.attempts
    BY <1>3 DEF ReportRow
  <2> QED
    BY <2>3, <2>4
<1>5. h \in ReportHolders
  BY <1>1 DEF ReportHolders
<1>6. ReportHolders \subseteq {h} /\ ReportKeepers = {}
  BY <1>5 DEF ReportIndInv, ReportLocksInv, OneHolds
<1> HIDE DEF row, line
<1>7. line.cid \in LineIds /\ lineKeys[line.cid] # "none" /\ report.version <= MaxVersion
  BY <1>1, <1>2 DEF AskedOK, LineStorable
<1>8. shown'.version \in Nat
  BY <1>1, <1>4, ShownVersion
<1>9. /\ ReportTyped' /\ ReportLocksInv' /\ LinesTried' = LinesTried
      /\ \A k \in ReportHandlers : AskedOK(asked[k])'
  <2>1. report' \in ReportRow /\ job' \in ReportJob
    BY <1>1, <1>3, <1>4
  <2> QED
    BY <1>1, <1>6, <1>7, <1>8, <2>1, CompleteLine
<1>10. ReportOK'
  <2>1. /\ IsFiniteSet(LinesTried) /\ report.attempts = Cardinality(LinesTried)
        /\ report.attempts <= LineMax /\ (job.by # {} <=> job.status = "claimed")
    BY DEF ReportIndInv, ReportOK
  <2>2. report'.version <= MaxVersion + 1
    BY <1>1, <1>3, <1>4, <1>7, ReportConstants DEF ReportRow
  <2> QED
    BY <1>1, <1>4, <1>9, <2>1, <2>2 DEF ReportOK
<1>11. ASSUME NEW g \in Generators PROVE PassingOK(generator[g])'
  <2>1. PassingOK(generator[g]) /\ generator[g].phase # "saving"
    BY <1>6 DEF ReportIndInv, ReportKeepers
  <2> QED
    BY <1>1, <1>4, <2>1 DEF PassingOK
<1> QED
  BY <1>9, <1>10, <1>11 DEF ReportIndInv

\* Who completes a request without a line does not know whether somebody else has
\* locked the report, and does not change it.
LEMMA CommitNoLineInv ==
    ASSUME ReportIndInv, NEW h \in ReportHandlers, CommitNoLine(h) PROVE ReportIndInv'
<1> DEFINE line == asked[h]
<1>1. /\ line.phase = "writing"
      /\ lineKeys' = [lineKeys EXCEPT ![line.cid] = "completed"]
      /\ shown' = Projected(report) /\ asked' = [asked EXCEPT ![h] = Resting]
      /\ UNCHANGED <<remembered, report, job, generator>>
  BY DEF CommitNoLine
<1>2. /\ line \in [phase: {"lining", "writing", "storing"}, cid: LineIds, version: Nat]
      /\ AskedOK(line)
  BY <1>1, Shapes DEF ReportIndInv, ReportTyped
<1>3. report \in ReportRow /\ job \in ReportJob
  BY DEF ReportIndInv, ReportTyped
<1> HIDE DEF line
<1>4. line.cid \in LineIds /\ lineKeys[line.cid] # "none"
  BY <1>1, <1>2 DEF AskedOK
<1>5. shown'.version \in Nat
  BY <1>1, <1>3, ShownVersion
<1>6. ReportTyped' /\ ReportLocksInv' /\ LinesTried' = LinesTried
  BY <1>1, <1>3, <1>4, <1>5, CompleteLine
<1>7. ReportOK'
  BY <1>1, <1>6 DEF ReportIndInv, ReportOK
<1>8. ASSUME NEW k \in ReportHandlers PROVE AskedOK(asked[k])'
  <2>1. asked'[k] = IF k = h THEN Resting ELSE asked[k]
    BY <1>1 DEF ReportIndInv, ReportTyped
  <2>2. CASE k = h
    BY <2>1, <2>2, ReportConstants DEF AskedOK
  <2>3. CASE k # h
    <3>1. AskedOK(asked[k]) /\ asked[k] \in Asking /\ asked'[k] = asked[k]
      BY <2>1, <2>3 DEF ReportIndInv, ReportTyped
    <3>2. /\ asked[k].phase = "lining" => lineKeys'[asked[k].cid] = "none"
          /\ asked[k].phase \in {"writing", "storing"} => lineKeys'[asked[k].cid] # "none"
      BY <1>1, <1>4, <3>1, Shapes DEF AskedOK, ReportIndInv, ReportTyped
    <3> QED
      BY <1>1, <3>1, <3>2 DEF AskedOK, LineStorable
  <2> QED
    BY <2>2, <2>3
<1>9. \A g \in Generators : PassingOK(generator[g])'
  BY <1>1 DEF ReportIndInv, PassingOK
<1> QED
  BY <1>6, <1>7, <1>8, <1>9 DEF ReportIndInv

\* The card is stored by who has locked the report, which is generating.
LEMMA CommitCardInv ==
    ASSUME ReportIndInv, NEW g \in Generators, CommitCard(g) PROVE ReportIndInv'
<1> DEFINE p == generator[g]
           row == SavedCard(p.card, p.text)
<1>1. /\ p.phase = "saving" /\ report' = row /\ job' = Settled(g, "done")
      /\ generator' = [generator EXCEPT ![g] = Resting]
      /\ UNCHANGED <<remembered, lineKeys, asked, shown>>
  BY DEF CommitCard
<1>2. p \in [phase: {"saving"}, card: SUBSET CardMemories, text: BOOLEAN] /\ PassingOK(p)
  BY <1>1, Shapes DEF ReportIndInv, ReportTyped
<1>3. report \in ReportRow
  BY DEF ReportIndInv, ReportTyped
<1>4. /\ row \in ReportRow /\ row.status \in {"partial", "ready"}
      /\ row.status = "ready" <=> row.line
      /\ row.version = report.version + 1 /\ row.attempts = report.attempts
  <2> DEFINE version == report.version + 1
  <2>1. version \in Nat /\ p.card \in SUBSET CardMemories /\ p.text \in BOOLEAN
    BY <1>2, <1>3 DEF ReportRow
  <2> DEFINE status == IF p.text THEN "ready" ELSE "partial"
             text == p.text
             card == p.card
  <2>2. row = [report EXCEPT !.status = status, !.card = card, !.line = text, !.version = version]
    BY DEF SavedCard
  <2>3. status \in {"partial", "ready"} /\ (status = "ready" <=> p.text)
    OBVIOUS
  <2>4. row \in ReportRow
    <3>1. card \in SUBSET CardMemories /\ text \in BOOLEAN
      BY <2>1
    <3> HIDE DEF status, text, card, version, row
    <3> QED
      BY <1>3, <2>1, <2>2, <2>3, <3>1 DEF ReportRow
  <2> HIDE DEF status
  <2>5. /\ row.status = status /\ row.line = p.text /\ row.version = report.version + 1
        /\ row.attempts = report.attempts
    BY <1>3, <2>2 DEF ReportRow
  <2> QED
    BY <2>3, <2>4, <2>5
<1>5. g \in ReportKeepers
  BY <1>1 DEF ReportKeepers
<1>6. ReportHolders = {} /\ ReportKeepers \subseteq {g}
  BY <1>5 DEF ReportIndInv, ReportLocksInv, OneHolds
<1>7. report.status = "generating" /\ job.status # "none" /\ report.version = 1
  BY <1>1, <1>2, ReportConstants DEF PassingOK, ReportIndInv, ReportOK
<1>8. /\ job' \in ReportJob /\ job'.status # "none" /\ (job'.by # {} <=> job'.status = "claimed")
  BY <1>1, <1>7, SettledJob
<1> HIDE DEF row
<1>9. ReportTyped'
  <2>1. generator' \in [Generators -> Passing]
    BY <1>1, ReportConstants DEF ReportIndInv, ReportTyped
  <2> QED
    BY <1>1, <1>4, <1>8, <2>1 DEF ReportIndInv, ReportTyped
<1>10. ReportLocksInv'
  BY <1>1, ReportConstants, PassingLocks
<1>11. ReportOK'
  <2>1. /\ IsFiniteSet(LinesTried) /\ report.attempts = Cardinality(LinesTried)
        /\ report.attempts <= LineMax
    BY DEF ReportIndInv, ReportOK
  <2>2. report'.version <= MaxVersion + 1
    BY <1>1, <1>4, <1>7, ReportConstants
  <2>3. LinesTried' = LinesTried
    BY <1>1 DEF LinesTried
  <2> QED
    BY <1>1, <1>4, <1>8, <2>1, <2>2, <2>3 DEF ReportOK
<1>12. ASSUME NEW h \in ReportHandlers PROVE AskedOK(asked[h])'
  <2>1. AskedOK(asked[h]) /\ asked[h].phase # "storing"
    BY <1>6 DEF ReportIndInv, ReportHolders
  <2> QED
    BY <1>1, <2>1 DEF AskedOK
<1>13. ASSUME NEW k \in Generators PROVE PassingOK(generator[k])'
  <2>1. generator'[k] = IF k = g THEN Resting ELSE generator[k]
    BY <1>1 DEF ReportIndInv, ReportTyped
  <2>2. CASE k = g
    BY <1>8, <2>1, <2>2, ReportConstants DEF PassingOK
  <2>3. CASE k # g
    <3>1. generator[k].phase # "saving"
      BY <1>6, <2>3 DEF ReportKeepers
    <3> QED
      BY <1>1, <1>4, <1>8, <2>1, <2>3, <3>1 DEF PassingOK
  <2> QED
    BY <2>2, <2>3
<1> QED
  BY <1>9, <1>10, <1>11, <1>12, <1>13 DEF ReportIndInv

-----------------------------------------------------------------------------
(* Report: the theorems. *)

LEMMA ReportNextInv ==
    ASSUME ReportIndInv, [ReportNext]_reportVars PROVE ReportIndInv'
<1>1. CASE UNCHANGED reportVars
  <2>1. UNCHANGED <<shown, remembered, report, job, lineKeys, asked, generator>>
    BY <1>1 DEF reportVars
  <2>2. ReportTyped' /\ ReportLocksInv' /\ ReportOK'
    BY <2>1 DEF ReportIndInv, ReportTyped, ReportLocksInv, OneHolds, SpiritHolders,
       SpiritKeepers, ReportHolders, ReportKeepers, ReportOK, LinesTried
  <2>3. \A h \in ReportHandlers : AskedOK(asked[h])'
    BY <2>1 DEF ReportIndInv, AskedOK, LineStorable
  <2>4. \A g \in Generators : PassingOK(generator[g])'
    BY <2>1 DEF ReportIndInv, PassingOK
  <2> QED
    BY <2>2, <2>3, <2>4 DEF ReportIndInv
<1>2. CASE BecomeEligible \/ \E m \in CardMemories : Forget(m)
  <2>1. UNCHANGED <<shown, report, job, lineKeys, asked, generator>>
    BY <1>2 DEF BecomeEligible, Forget
  <2>2. remembered' \subseteq remembered
    BY <1>2 DEF BecomeEligible, Forget
  <2>3. ReportTyped' /\ ReportLocksInv' /\ ReportOK'
    BY <2>1, <2>2 DEF ReportIndInv, ReportTyped, ReportLocksInv, OneHolds, SpiritHolders,
       SpiritKeepers, ReportHolders, ReportKeepers, ReportOK, LinesTried
  <2>4. \A h \in ReportHandlers : AskedOK(asked[h])'
    BY <2>1 DEF ReportIndInv, AskedOK, LineStorable
  <2>5. \A g \in Generators : PassingOK(generator[g])'
    BY <2>1 DEF ReportIndInv, PassingOK
  <2> QED
    BY <2>3, <2>4, <2>5 DEF ReportIndInv
<1>3. CASE ReportRoutes
  <2>1. PICK h \in ReportHandlers :
           \/ StartGet(h) \/ FinishGet(h)
           \/ \E c \in FirstNew(LineIds, NewLineKey) : StartLine(h, c)
           \/ ReserveLine(h) \/ StoreLine(h) \/ CommitLine(h) \/ CommitNoLine(h)
           \/ LoseRequest(h)
    BY <1>3 DEF ReportRoutes
  <2>2. CASE \E c \in FirstNew(LineIds, NewLineKey) : StartLine(h, c)
    <3>1. PICK c \in LineIds : StartLine(h, c)
      BY <2>2 DEF FirstNew
    <3> QED
      BY <3>1, StartLineInv
  <2>3. CASE LoseRequest(h)
    <3>1. /\ asked' = [asked EXCEPT ![h] = Resting]
          /\ UNCHANGED <<shown, remembered, report, job, lineKeys, generator>>
      BY <2>3 DEF LoseRequest
    <3> QED
      BY <3>1, RestInv
  <2> QED
    BY <2>1, <2>2, <2>3, StartGetInv, FinishGetInv, ReserveLineInv, StoreLineInv,
       CommitLineInv, CommitNoLineInv
<1>4. CASE ReportWorker
  BY <1>4, ClaimReportInv, ReadingInv, AssembleCardInv, CommitCardInv, LosePassInv,
     StoreCardInv, ReclaimReportInv DEF ReportWorker
<1> QED
  BY <1>1, <1>2, <1>3, <1>4 DEF ReportNext

LEMMA ReportInitInv == ReportInit => ReportIndInv
<1> SUFFICES ASSUME ReportInit PROVE ReportIndInv
  OBVIOUS
<1>1. /\ remembered = CardMemories /\ report = NoReport /\ job = NoJob /\ shown = Unseen
      /\ lineKeys = [c \in LineIds |-> "none"]
      /\ asked = [h \in ReportHandlers |-> Resting]
      /\ generator = [g \in Generators |-> Resting]
  BY DEF ReportInit
<1>2. NoJob \in ReportJob /\ NoJob.status = "none" /\ NoJob.by = {}
  BY DEF NoJob, ReportJob
<1>3. ReportTyped
  BY <1>1, <1>2, ReportConstants DEF ReportTyped, Unseen
<1>4. /\ SpiritHolders = {} /\ SpiritKeepers = {} /\ ReportHolders = {} /\ ReportKeepers = {}
  BY <1>1, ReportConstants DEF SpiritHolders, SpiritKeepers, ReportHolders, ReportKeepers
<1>5. ReportLocksInv
  BY <1>4 DEF ReportLocksInv, OneHolds
<1>6. LinesTried = {}
  BY <1>1 DEF LinesTried
<1>7. IsFiniteSet(LinesTried) /\ Cardinality(LinesTried) = 0
  BY <1>6, FS_EmptySet
<1>8. ReportOK
  BY <1>1, <1>2, <1>7, ReportConstants DEF ReportOK
<1>9. \A h \in ReportHandlers : AskedOK(asked[h])
  BY <1>1, ReportConstants DEF AskedOK
<1>10. \A g \in Generators : PassingOK(generator[g])
  BY <1>1, ReportConstants DEF PassingOK
<1> QED
  BY <1>3, <1>5, <1>8, <1>9, <1>10 DEF ReportIndInv

\* Who has a row is one.
LEMMA OneHolder ==
    ASSUME NEW H, NEW K, OneHolds(H, K) PROVE Cardinality(H \cup K) <= 1
<1>1. \A x, y \in H \cup K : x = y
  BY DEF OneHolds
<1>2. CASE H \cup K = {}
  BY <1>2, FS_EmptySet
<1>3. CASE H \cup K # {}
  <2>1. PICK x : x \in H \cup K
    BY <1>3
  <2>2. H \cup K = {x}
    BY <1>1, <2>1
  <2>3. Cardinality({x}) = 1
    BY FS_Singleton
  <2> QED
    BY <2>2, <2>3
<1> QED
  BY <1>2, <1>3

LEMMA ReportIndImpliesInv == ReportIndInv => ReportInv
<1> SUFFICES ASSUME ReportIndInv PROVE ReportInv
  OBVIOUS
<1>1. report \in ReportRow /\ job \in ReportJob
      /\ lineKeys \in [LineIds -> {"none", "in_progress", "completed"}]
  BY DEF ReportIndInv, ReportTyped
<1>2. report.attempts \in 0 .. LineMax /\ report.version \in 0 .. MaxVersion + 1
  BY <1>1, ReportConstants DEF ReportIndInv, ReportOK, ReportRow
<1>3. /\ Cardinality(SpiritHolders \cup SpiritKeepers) <= 1
      /\ Cardinality(ReportHolders \cup ReportKeepers) <= 1
  BY OneHolder DEF ReportIndInv, ReportLocksInv
<1>4. ReportTypeOK
  BY <1>1, <1>2, <1>3 DEF ReportTypeOK, ReportIndInv, ReportOK, ReportRow, ReportJob
<1>5. LineAddsUp
  BY DEF LineAddsUp, ReportIndInv, ReportOK, LinesTried
<1>6. GeneratingHasJob
  BY DEF GeneratingHasJob, ReportIndInv, ReportOK
<1> QED
  BY <1>4, <1>5, <1>6 DEF ReportInv

\* The report, its job and the client ids of its lines agree, however many requests,
\* workers and lost processes there are.
THEOREM ReportAgrees == ReportSpec => []ReportInv
<1>1. ReportIndInv /\ [ReportNext]_reportVars => ReportIndInv'
  BY ReportNextInv
<1> QED
  BY <1>1, ReportInitInv, ReportIndImpliesInv, PTL DEF ReportSpec

LEMMA ReportUnchanged ==
    ASSUME report' = report, shown' = shown PROVE CardStays /\ ShownIsActive
BY DEF CardStays, ShownIsActive

\* What is shown is what is remembered when it is shown.
LEMMA ShownNow ==
    ASSUME NEW row, row = report', shown' = Projected(row), remembered' = remembered
    PROVE  ShownIsActive
BY DEF ShownIsActive, Projected, Unseen, LiveMemories

LEMMA ReportStep ==
    ASSUME ReportIndInv, [ReportNext]_reportVars PROVE CardStays /\ ShownIsActive
<1>1. report \in ReportRow /\ report.status \in {"none", "generating", "partial", "ready"}
      /\ (report.status = "ready" <=> report.line)
      /\ (report.status = "none" => report = NoReport)
  BY DEF ReportIndInv, ReportTyped, ReportOK, ReportRow
<1>2. ASSUME NEW h \in ReportHandlers, FinishGet(h) PROVE CardStays /\ ShownIsActive
  <2>1. shown' = Projected(report') /\ remembered' = remembered
    BY <1>2 DEF FinishGet
  <2>2. ShownIsActive
    BY <2>1, ShownNow
  <2>3. CASE report' = report
    BY <2>2, <2>3 DEF CardStays
  <2>4. CASE report.status = "none" /\ report' = Generating
    <3>1. ~report.line /\ report.version = 0 /\ Generating.version = 1
      BY <1>1, <2>4, ReportConstants DEF Generating, NoReport
    <3> QED
      BY <2>2, <2>4, <3>1 DEF CardStays
  <2> QED
    BY <1>2, <2>3, <2>4 DEF FinishGet
<1>3. ASSUME NEW h \in ReportHandlers, ReserveLine(h) PROVE CardStays /\ ShownIsActive
  <2>1. shown' = shown
    BY <1>3 DEF ReserveLine
  <2>2. CASE report' = report
    BY <2>1, <2>2, ReportUnchanged
  <2>3. CASE LineAvailable(asked[h].version) /\ report' = ReservedAttempt
    <3>1. ~report.line
      BY <2>3 DEF LineAvailable
    <3>2. ReservedAttempt.card = report.card /\ ReservedAttempt.version = report.version + 1
      BY <1>1 DEF ReservedAttempt, ReportRow
    <3> QED
      BY <2>1, <2>3, <3>1, <3>2 DEF CardStays, ShownIsActive
  <2> QED
    BY <1>3, <2>2, <2>3 DEF ReserveLine
<1>4. ASSUME NEW h \in ReportHandlers, CommitLine(h) PROVE CardStays /\ ShownIsActive
  <2>1. /\ shown' = Projected(report') /\ remembered' = remembered
        /\ asked[h].phase = "storing"
        /\ report' = [report EXCEPT !.line = TRUE, !.status = "ready", !.version = @ + 1]
    BY <1>4 DEF CommitLine
  <2>2. ~report.line
    BY <2>1 DEF ReportIndInv, AskedOK, LineStorable
  <2>3. report'.card = report.card /\ report'.version = report.version + 1
    BY <1>1, <2>1 DEF ReportRow
  <2>4. ShownIsActive
    BY <2>1, ShownNow
  <2> QED
    BY <2>2, <2>3, <2>4 DEF CardStays
<1>5. ASSUME NEW h \in ReportHandlers, CommitNoLine(h) PROVE CardStays /\ ShownIsActive
  <2>1. shown' = Projected(report) /\ remembered' = remembered /\ report' = report
    BY <1>5 DEF CommitNoLine
  <2>2. ShownIsActive
    BY <2>1, ShownNow
  <2> QED
    BY <2>1, <2>2 DEF CardStays
<1>6. ASSUME NEW g \in Generators, CommitCard(g) PROVE CardStays /\ ShownIsActive
  <2>1. /\ generator[g].phase = "saving" /\ shown' = shown
        /\ report' = SavedCard(generator[g].card, generator[g].text)
    BY <1>6 DEF CommitCard
  <2>2. report.status = "generating"
    BY <2>1 DEF ReportIndInv, PassingOK
  <2>3. report'.version = report.version + 1
    BY <1>1, <2>1 DEF SavedCard, ReportRow
  <2> QED
    BY <1>1, <2>1, <2>2, <2>3 DEF CardStays, ShownIsActive
<1>7. ASSUME report' = report, shown' = shown PROVE CardStays /\ ShownIsActive
  BY <1>7, ReportUnchanged
<1>8. CASE UNCHANGED reportVars
  BY <1>7, <1>8 DEF reportVars
<1>9. CASE BecomeEligible \/ \E m \in CardMemories : Forget(m)
  BY <1>7, <1>9 DEF BecomeEligible, Forget
<1>10. CASE ReportRoutes
  BY <1>2, <1>3, <1>4, <1>5, <1>7, <1>10
     DEF ReportRoutes, StartGet, StartLine, StoreLine, LoseRequest
<1>11. CASE ReportWorker
  BY <1>6, <1>7, <1>11
     DEF ReportWorker, ClaimReport, LookReport, LookedReport, LockForCard, AssembleCard,
         StoreCard, FailReport, CrashReport, ReclaimReport
<1> QED
  BY <1>8, <1>9, <1>10, <1>11 DEF ReportNext

\* The card is written once and a line is never taken back; what a route shows is
\* remembered when it shows it.
THEOREM ReportStays == ReportSpec => ReportSteps
<1>1. ReportIndInv /\ [ReportNext]_reportVars => ReportIndInv'
  BY ReportNextInv
<1>2. ReportIndInv /\ [ReportNext]_reportVars => [CardStays /\ ShownIsActive]_reportVars
  BY ReportStep
<1> QED
  BY <1>1, <1>2, ReportInitInv, PTL DEF ReportSpec, ReportSteps
=============================================================================
