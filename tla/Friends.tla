------------------------------- MODULE Friends -------------------------------
(***************************************************************************)
(* Friendships: POST /friends adds the spirit of an invite code             *)
(* (services/friends, private.add_friend_by_code), DELETE /friends/{id}     *)
(* removes an edge.  An edge is undirected: one row, the smaller spirit     *)
(* first.                                                                   *)
(*                                                                         *)
(* A transaction waits for locks, one after the other, so that its          *)
(* statements are steps: the row of the caller's spirit FOR UPDATE, the     *)
(* advisory lock of the pair, and, when the edge is inserted, FOR KEY SHARE  *)
(* on the rows of both spirits, which the foreign keys check and which       *)
(* FOR UPDATE excludes.  Every statement sees what is committed before it.  *)
(***************************************************************************)
EXTENDS Ids, FiniteSets

CONSTANTS
    Spirits,       \* spirits with an invite code, in the order of uuid
    FriendIds,     \* client ids of adds and removes
    EdgeIds,       \* ids of rows of friends
    FriendHandlers \* requests that are served at a time

\* 0 stands for NULL.
ASSUME FriendsAssumption == Spirits \cup FriendIds \cup EdgeIds \subseteq Nat \ {0}

VARIABLES
    edges,      \* friends: the committed rows
    friendKeys, \* idempotency_records of friend.add and friend.remove
    friendTx,   \* friendTx[h]: the transaction of handler h
    friendBumps \* spirits.version, as far as services/friends bumps it

friendVars == <<edges, friendKeys, friendTx, friendBumps>>

NoFriendKey == [op |-> "none", by |-> 0, peer |-> 0, edge |-> 0]

NoTx == [phase |-> "idle", by |-> 0, peer |-> 0, cid |-> 0, edge |-> 0]

FriendsInit ==
    /\ edges = {}
    /\ friendKeys = [c \in FriendIds |-> NoFriendKey]
    /\ friendTx = [h \in FriendHandlers |-> NoTx]
    /\ friendBumps = [s \in Spirits |-> 0]

-----------------------------------------------------------------------------
(* Locks. *)

Busy == {h \in FriendHandlers : friendTx[h] # NoTx}

Pair(h) == {friendTx[h].by, friendTx[h].peer}

\* pg_advisory_xact_lock, until the end of the transaction.
PairKeepers(pair) ==
    {h \in Busy : friendTx[h].phase \in {"paired", "conflicted", "found", "checking", "inserted"}
                  /\ Pair(h) = pair}

\* A row of friends that is inserted or deleted, and not committed.
Unsettled(pair) ==
    {h \in Busy : friendTx[h].phase \in {"checking", "inserted", "removed"} /\ Pair(h) = pair}

\* lock_owned_spirit: FOR UPDATE waits for FOR UPDATE and for FOR KEY SHARE.
SpiritTakers(s) ==
    {h \in Busy : \/ friendTx[h].by = s
                  \/ friendTx[h].phase = "inserted" /\ friendTx[h].peer = s}

\* The foreign keys: FOR KEY SHARE waits for FOR UPDATE.
SpiritLockers(s) == {h \in Busy : friendTx[h].by = s}

\* k has what h waits for.
WaitsFor(h, k) ==
    /\ h # k
    /\ \/ friendTx[h].phase = "locked" /\ k \in PairKeepers(Pair(h))
       \/ friendTx[h].phase = "paired" /\ k \in Unsettled(Pair(h))
       \/ friendTx[h].phase = "removing" /\ friendTx[k].phase = "removed" /\ Pair(h) = Pair(k)
       \/ friendTx[h].phase = "checking" /\ k \in SpiritLockers(friendTx[h].peer)

Waits(h) == \E k \in FriendHandlers : WaitsFor(h, k)

\* deadlock_timeout: the database aborts one of those that wait for each other.
DeadlockedAdd(h) ==
    \E S \in SUBSET FriendHandlers : h \in S /\ \A k \in S : \E l \in S : WaitsFor(k, l)

-----------------------------------------------------------------------------
(* services/friends. *)

\* Mutation of OrderedPair: the caller first.
CallerFirst(caller, peer) == [low |-> caller, high |-> peer]

\* IF caller < peer.
OrderedPair(caller, peer) ==
    IF caller < peer THEN [low |-> caller, high |-> peer] ELSE [low |-> peer, high |-> caller]

\* uq_friends_spirit_low_id_spirit_high_id.
EdgesOf(caller, peer) ==
    {e \in edges : [low |-> e.low, high |-> e.high] = OrderedPair(caller, peer)}

NewEdge(e) ==
    /\ \A c \in FriendIds : friendKeys[c].edge # e
    /\ \A h \in Busy : friendTx[h].edge # e

\* claim_friend_idempotency, under the lock of the spirit.
NewFriendKey(c) == friendKeys[c] = NoFriendKey /\ \A h \in Busy : friendTx[h].cid # c

\* add_owned_friend.  A replay answers the edge of its record, or NOT_FOUND.
StartAdd(h, s, p, c) ==
    /\ friendTx[h] = NoTx
    /\ s # p
    /\ SpiritTakers(s) = {}
    /\ NewFriendKey(c)
    /\ friendTx' = [friendTx EXCEPT ![h] = [phase |-> "locked", by |-> s, peer |-> p,
                                            cid |-> c, edge |-> 0]]
    /\ UNCHANGED <<edges, friendKeys, friendBumps>>

Move(h, phase) == friendTx' = [friendTx EXCEPT ![h].phase = phase]

LockPair(h) ==
    /\ friendTx[h].phase = "locked"
    /\ ~Waits(h)
    /\ Move(h, "paired")
    /\ UNCHANGED <<edges, friendKeys, friendBumps>>

\* INSERT, ON CONFLICT DO NOTHING.
InsertEdge(h) ==
    LET tx == friendTx[h] IN
    /\ tx.phase = "paired"
    /\ ~Waits(h)
    /\ \/ /\ EdgesOf(tx.by, tx.peer) # {}
          /\ Move(h, "conflicted")
       \/ /\ EdgesOf(tx.by, tx.peer) = {}
          /\ \E e \in FirstNew(EdgeIds, NewEdge) :
                friendTx' = [friendTx EXCEPT ![h] = [tx EXCEPT !.phase = "checking", !.edge = e]]
    /\ UNCHANGED <<edges, friendKeys, friendBumps>>

CheckEdge(h) ==
    /\ friendTx[h].phase = "checking"
    /\ ~Waits(h)
    /\ Move(h, "inserted")
    /\ UNCHANGED <<edges, friendKeys, friendBumps>>

\* SELECT of the edge that is there; removed since, the add fails.
FindEdge(h) ==
    LET tx == friendTx[h] IN
    /\ tx.phase = "conflicted"
    /\ \/ \E e \in EdgesOf(tx.by, tx.peer) :
             friendTx' = [friendTx EXCEPT ![h] = [tx EXCEPT !.phase = "found", !.edge = e.id]]
       \/ EdgesOf(tx.by, tx.peer) = {} /\ friendTx' = [friendTx EXCEPT ![h] = NoTx]
    /\ UNCHANGED <<edges, friendKeys, friendBumps>>

\* Mutation of Bump: the version of the friend, too.
BumpBoth(h) ==
    [s \in Spirits |-> IF s \in Pair(h) THEN friendBumps[s] + 1 ELSE friendBumps[s]]

\* bump_spirit_version: the caller's.
Bump(h) == [friendBumps EXCEPT ![friendTx[h].by] = @ + 1]

Answered(h, op) ==
    [friendKeys EXCEPT ![friendTx[h].cid] =
        [op |-> op, by |-> friendTx[h].by, peer |-> friendTx[h].peer, edge |-> friendTx[h].edge]]

\* fetch_friend_public, bump, complete and commit.  An edge that was found may be
\* removed by now: NOT_FOUND.
FinishAdd(h) ==
    LET tx == friendTx[h]
        new == [id |-> tx.edge, low |-> OrderedPair(tx.by, tx.peer).low,
                high |-> OrderedPair(tx.by, tx.peer).high]
    IN
    /\ \/ /\ tx.phase = "inserted"
          /\ edges' = edges \cup {new}
       \/ /\ tx.phase = "found" /\ new \in edges
          /\ UNCHANGED edges
    /\ friendKeys' = Answered(h, "add")
    /\ friendBumps' = Bump(h)
    /\ friendTx' = [friendTx EXCEPT ![h] = NoTx]

\* remove_owned_friend: an edge that an add has answered to one of its two.
StartRemove(h, s, c, d) ==
    LET added == friendKeys[d] IN
    /\ friendTx[h] = NoTx
    /\ added.op = "add" /\ s \in {added.by, added.peer}
    /\ SpiritTakers(s) = {}
    /\ NewFriendKey(c)
    /\ friendTx' = [friendTx EXCEPT ![h] =
                      [phase |-> "removing", by |-> s, cid |-> c, edge |-> added.edge,
                       peer |-> IF s = added.by THEN added.peer ELSE added.by]]
    /\ UNCHANGED <<edges, friendKeys, friendBumps>>

\* Mutation of Removed: DELETE that finds no row is an answer.
RemovedAny(h) == TRUE

\* private.remove_friend_edge: DELETE RETURNING.
Removed(h) == \E e \in edges : e.id = friendTx[h].edge /\ friendTx[h].by \in {e.low, e.high}

DeleteEdge(h) ==
    /\ friendTx[h].phase = "removing"
    /\ ~Waits(h)
    /\ \/ Removed(h) /\ Move(h, "removed")
       \/ ~Removed(h) /\ friendTx' = [friendTx EXCEPT ![h] = NoTx]
    /\ UNCHANGED <<edges, friendKeys, friendBumps>>

FinishRemove(h) ==
    /\ friendTx[h].phase = "removed"
    /\ edges' = {e \in edges : e.id # friendTx[h].edge}
    /\ friendKeys' = Answered(h, "remove")
    /\ friendBumps' = Bump(h)
    /\ friendTx' = [friendTx EXCEPT ![h] = NoTx]

\* 503: the database aborts the transaction of a deadlock, the connection or the
\* process is lost before the commit, or an edge that was found is removed.
LoseFriend(h) ==
    /\ friendTx[h] # NoTx
    /\ friendTx' = [friendTx EXCEPT ![h] = NoTx]
    /\ UNCHANGED <<edges, friendKeys, friendBumps>>

FriendRoutes ==
    \E h \in FriendHandlers :
        \/ \E s, p \in Spirits, c \in FirstNew(FriendIds, NewFriendKey) : StartAdd(h, s, p, c)
        \/ \E s \in Spirits, c \in FirstNew(FriendIds, NewFriendKey), d \in FriendIds :
              StartRemove(h, s, c, d)
        \/ LockPair(h) \/ InsertEdge(h) \/ CheckEdge(h) \/ FindEdge(h) \/ FinishAdd(h)
        \/ DeleteEdge(h) \/ FinishRemove(h) \/ LoseFriend(h)

FriendsSpec == FriendsInit /\ [][FriendRoutes]_friendVars
-----------------------------------------------------------------------------
(* Properties. *)

FriendsTypeOK ==
    /\ edges \subseteq [id : EdgeIds, low : Spirits, high : Spirits]
    /\ \A c \in FriendIds : friendKeys[c].op \in {"none", "add", "remove"}
    /\ \A s \in Spirits : Cardinality(SpiritLockers(s)) <= 1

KeyEdges(op) == {friendKeys[c].edge : c \in {d \in FriendIds : friendKeys[d].op = op}}

\* Two spirits have one edge, whoever added it and however often
\* (docs/p16-integration.md:76); an edge is there exactly if an add has answered it
\* and no remove, and only one of two removes is answered; and a spirit's version
\* counts its own answers, not those of its friends.
FriendsAddUp ==
    /\ \A e, f \in edges : {e.low, e.high} = {f.low, f.high} => e = f
    /\ {e.id : e \in edges} = KeyEdges("add") \ KeyEdges("remove")
    /\ \A c, d \in FriendIds :
          friendKeys[c].op = "remove" /\ friendKeys[d].op = "remove" =>
              (friendKeys[c].edge = friendKeys[d].edge => c = d)
    /\ \A s \in Spirits :
          friendBumps[s] = Cardinality({c \in FriendIds : friendKeys[c].by = s})

\* Two who add each other at the same time both get the edge
\* (tests/db/test_friends.py:278): no add is aborted for a deadlock.  Violated: one
\* has the pair and waits for the row of its friend, who waits for the pair.
MutualAddsAnswered == \A h \in FriendHandlers : ~DeadlockedAdd(h)

\* Edges, answers and versions agree.
FriendsInv == FriendsTypeOK /\ FriendsAddUp
=============================================================================
