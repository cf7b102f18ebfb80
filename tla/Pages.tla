-------------------------------- MODULE Pages --------------------------------
(***************************************************************************)
(* The lists of the app, a page at a time: GET /messages, /memories,        *)
(* /friends and /postcards, and PATCH /postcards/{id}/read.                 *)
(*                                                                         *)
(* A list is sorted by created_at and id, the newest first.  The first page *)
(* fixes snapshot_at, the next ones go on below the last row of the page    *)
(* before, which the signed cursor names with the filter it is for.         *)
(*                                                                         *)
(* created_at is the time at which a transaction, or a tick of the worker,  *)
(* begins: rows are committed later, in any order, and several have the     *)
(* same time.  Ids are random.  The MAC of a cursor is not modelled: a      *)
(* device has the cursors it was given.  Tombstones are left out.           *)
(***************************************************************************)
EXTENDS Ids, FiniteSets, Sequences

CONSTANTS
    Ids,          \* ids of rows, in the order of uuid
    ReadIds,      \* client ids of PATCH /postcards/{id}/read
    PageLimit,    \* rows of a page, at most 50
    MaxTime       \* bound: the clock

ASSUME PagesAssumption ==
    /\ Ids \cup ReadIds \subseteq Nat \ {0} /\ IsFiniteSet(Ids)
    /\ {PageLimit, MaxTime} \subseteq Nat \ {0}

VARIABLES
    rows,    \* rows[r]: a message, memory, friend or postcard of the spirit
    now,     \* now() of the database
    pager,   \* the list that the device turns over
    readKeys,\* idempotency_records of postcard.read: the postcard they read
    bumps    \* spirits.version, as far as postcards.read bumps it

pageVars == <<rows, now, pager, readKeys, bumps>>

RowKinds == {"message", "memory", "friend", "postcard"}

Filters == {"messages", "memories", "friends", "postcards", "unread"}

NoListed == [kind |-> "none", at |-> 0, status |-> "none", to |-> 0, readAt |-> 0]

NoPage == [filter |-> "none", snapshot |-> 0, cursor |-> <<>>, got |-> <<>>, due |-> {}]

PagesInit ==
    /\ rows = [r \in Ids |-> NoListed]
    /\ now = 1
    /\ pager = NoPage
    /\ readKeys = [c \in ReadIds |-> 0]
    /\ bumps = 0

-----------------------------------------------------------------------------
(* Who writes the lists. *)

Unused == {r \in Ids : rows[r] = NoListed}

Begun(kind, to) == [NoListed EXCEPT !.kind = kind, !.at = now, !.status = "open", !.to = to]

\* insert_user_message and insert_spirit_message: both get the now() of the
\* transaction, and a uuid4.
InsertTurn(user, reply) ==
    /\ {user, reply} \subseteq Unused /\ user # reply
    /\ rows' = [rows EXCEPT ![user] = Begun("message", 0),
                            ![reply] = Begun("message", user)]
    /\ UNCHANGED <<now, pager, readKeys, bumps>>

\* insert_memory, add_friend_by_code, settle_visit.
InsertRow(kind, r) ==
    /\ kind # "message"
    /\ r \in Unused
    /\ rows' = [rows EXCEPT ![r] = Begun(kind, 0)]
    /\ UNCHANGED <<now, pager, readKeys, bumps>>

\* Rows of one transaction: the two of a turn, the memories of an extract.
Together(r) ==
    {s \in Ids : \/ s = r \/ rows[s].to = r \/ rows[r].to = s
                 \/ rows[s].kind = "memory" /\ rows[s].status = "open" /\ rows[s] = rows[r]}

Commit(r) ==
    /\ rows[r].status = "open"
    /\ rows' = [s \in Ids |->
                  IF s \in Together(r) THEN [rows[s] EXCEPT !.status = "live"] ELSE rows[s]]
    /\ UNCHANGED <<now, pager, readKeys, bumps>>

\* delete_current_memory or seal_active_memory, remove_friend_edge.
Leave(r) ==
    /\ rows[r].status = "live" /\ rows[r].kind \in {"memory", "friend"}
    /\ rows' = [rows EXCEPT ![r].status = "gone"]
    /\ UNCHANGED <<now, pager, readKeys, bumps>>

Tick ==
    /\ now < MaxTime
    /\ now' = now + 1
    /\ UNCHANGED <<rows, pager, readKeys, bumps>>

-----------------------------------------------------------------------------
(* The keyset. *)

\* _ORDER_LIMIT: created_at DESC, id DESC.
Above(r, s) == rows[r].at > rows[s].at \/ (rows[r].at = rows[s].at /\ r > s)

\* Mutation of Below: the id does not count.
BelowTime(r, cursor) == cursor = <<>> \/ rows[r].at < cursor[1]

\* Mutation of Below: the row of the cursor is listed again.
BelowOrAt(r, cursor) ==
    cursor = <<>> \/ rows[r].at < cursor[1] \/ (rows[r].at = cursor[1] /\ r <= cursor[2])

\* _KEYSET.
Below(r, cursor) ==
    cursor = <<>> \/ rows[r].at < cursor[1] \/ (rows[r].at = cursor[1] /\ r < cursor[2])

\* created_at <= snapshot_at.
InSnapshot(r, snapshot) == rows[r].at <= snapshot

Live(kind) == {r \in Ids : rows[r].kind = kind /\ rows[r].status = "live"}

\* _PAGE_SELECT of repositories/messages.
ListedMessages == Live("message")

\* _ITEM_SELECT of repositories/memory: of one filter.
ListedMemories == Live("memory")

\* private.list_friends_page.
ListedFriends == Live("friend")

\* private.list_postcards_page.
ListedPostcards(unreadOnly) ==
    {r \in Live("postcard") : unreadOnly => rows[r].readAt = 0}

Listed(filter) ==
    CASE filter = "messages"  -> ListedMessages
      [] filter = "memories"  -> ListedMemories
      [] filter = "friends"   -> ListedFriends
      [] filter = "postcards" -> ListedPostcards(FALSE)
      [] filter = "unread"    -> ListedPostcards(TRUE)

\* LIMIT limit + 1.
Fetched(filter, snapshot, cursor) ==
    {r \in Listed(filter) : InSnapshot(r, snapshot) /\ Below(r, cursor)}

\* rows[:limit], in their order.
PageRows(found) ==
    CHOOSE page \in UNION {[1 .. n -> found] : n \in 0 .. PageLimit} :
        /\ Len(page) = IF Cardinality(found) > PageLimit THEN PageLimit ELSE Cardinality(found)
        /\ \A i, j \in 1 .. Len(page) : i < j => Above(page[i], page[j])
        /\ \A r \in found : (\E i \in 1 .. Len(page) : page[i] = r)
                            \/ \A i \in 1 .. Len(page) : Above(page[i], r)

\* next_cursor: of the last row, if there is more.
PageCursor(found, page) ==
    IF Cardinality(found) > PageLimit
    THEN <<rows[page[Len(page)]].at, page[Len(page)]>>
    ELSE <<>>

Turned(filter, snapshot, cursor, got, due) ==
    LET found == Fetched(filter, snapshot, cursor)
        page  == PageRows(found)
    IN  [filter |-> filter, snapshot |-> snapshot, cursor |-> PageCursor(found, page),
         got |-> got \o page, due |-> due]

\* fetch_transaction_now: the first page of a filter.
FirstPage(filter) ==
    /\ pager' = Turned(filter, now, <<>>, <<>>, Listed(filter))
    /\ UNCHANGED <<rows, now, readKeys, bumps>>

\* Mutation of CursorFits: unread_only is not in the hash.
CursorFitsList(filter) ==
    filter = pager.filter \/ {filter, pager.filter} \subseteq {"postcards", "unread"}

\* _decode_keyset: the filter_hash, sort_time <= snapshot_at.
CursorFits(filter) == filter = pager.filter /\ pager.cursor[1] <= pager.snapshot

\* The next page of what may have been another filter: INVALID_CURSOR, or more rows.
NextPage(filter) ==
    /\ pager.cursor # <<>>
    /\ CursorFits(filter)
    /\ pager' = Turned(filter, pager.snapshot, pager.cursor, pager.got,
                       IF filter = pager.filter THEN pager.due
                                                ELSE pager.due \cup Listed(filter))
    /\ UNCHANGED <<rows, now, readKeys, bumps>>

MessagePage == FirstPage("messages") \/ NextPage("messages")
MemoryPage == FirstPage("memories") \/ NextPage("memories")
FriendPage == FirstPage("friends") \/ NextPage("friends")
PostcardPage ==
    \E filter \in {"postcards", "unread"} : FirstPage(filter) \/ NextPage(filter)

-----------------------------------------------------------------------------
(* PATCH /postcards/{id}/read. *)

\* Mutation of Unread: every new request reads it again.
UnreadAny(r) == rows[r].kind = "postcard"

\* The WHERE of mark_postcard_read.
Unread(r) == rows[r].kind = "postcard" /\ rows[r].readAt = 0

\* claim_postcard_idempotency.
NewReadKey(c) == readKeys[c] = 0

\* A postcard that a list has shown is read, under the lock of the spirit: the
\* version is bumped if it is the first time, and again is answered alike.
ReadPostcard(c, r) ==
    /\ r \in Live("postcard")
    /\ \E i \in 1 .. Len(pager.got) : pager.got[i] = r
    /\ NewReadKey(c)
    /\ readKeys' = [readKeys EXCEPT ![c] = r]
    /\ IF Unread(r)
       THEN rows' = [rows EXCEPT ![r].readAt = now] /\ bumps' = bumps + 1
       ELSE UNCHANGED <<rows, bumps>>
    /\ UNCHANGED <<now, pager>>

PagesNext ==
    \/ \E user, reply \in Ids : InsertTurn(user, reply)
    \/ \E kind \in RowKinds, r \in Ids : InsertRow(kind, r)
    \/ \E r \in Ids : Commit(r) \/ Leave(r)
    \/ Tick
    \/ MessagePage \/ MemoryPage \/ FriendPage \/ PostcardPage
    \/ \E c \in FirstNew(ReadIds, NewReadKey), r \in Ids : ReadPostcard(c, r)

PagesSpec == PagesInit /\ [][PagesNext]_pageVars
-----------------------------------------------------------------------------
(* Properties. *)

PagesTypeOK ==
    /\ \A r \in Ids :
          /\ rows[r].kind \in RowKinds \cup {"none"}
          /\ rows[r].status \in {"none", "open", "live", "gone"}
          /\ rows[r].at \in 0 .. MaxTime /\ rows[r].readAt \in 0 .. MaxTime
    /\ pager.filter \in Filters \cup {"none"}
    /\ \A i \in 1 .. Len(pager.got) : pager.got[i] \in Ids
    /\ readKeys \in [ReadIds -> Ids \cup {0}]

\* What the pages of one session show stays sorted, so that no row comes twice,
\* whatever is committed or read between two pages; and when they are at an end,
\* nothing is left out that was there at the first page and is there still
\* (docs/p08-p10-integration.md:178).
PagesAddUp ==
    /\ \A i, j \in 1 .. Len(pager.got) : i < j => Above(pager.got[i], pager.got[j])
    /\ pager.cursor = <<>> =>
          \A r \in pager.due \cap (IF pager.filter = "none" THEN {} ELSE Listed(pager.filter)) :
              \E i \in 1 .. Len(pager.got) : pager.got[i] = r

\* A postcard is read once: the version counts the postcards that are read, and a
\* second request, with another client id, leaves read_at (docs/p16-integration.md:87).
ReadOnce ==
    /\ bumps = Cardinality({r \in Ids : rows[r].readAt > 0})
    /\ \A c \in ReadIds : readKeys[c] # 0 => rows[readKeys[c]].readAt > 0

\* Pages and reads agree with the rows they are of.
PagesInv == PagesTypeOK /\ PagesAddUp /\ ReadOnce
=============================================================================
