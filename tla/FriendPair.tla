------------------------------ MODULE FriendPair ------------------------------
(***************************************************************************)
(* What two players are to each other: their friend requests, their        *)
(* friendship, their blocks, and the entry of each player's social graph   *)
(* that Redis holds.                                                       *)
(*                                                                         *)
(* A handler reads outside its transaction and writes in it.  A write is   *)
(* one step, taken where the transaction commits: what PostgreSQL makes a  *)
(* second writer of the row wait for has then happened before or after it. *)
(* Only a block also reads inside, so it takes two.                        *)
(***************************************************************************)
EXTENDS Integers

CONSTANTS Players, Requests, Handlers, NoPlayer, NoRequest

\* The two sides of one pair; rows of different pairs do not meet.
ASSUME PairAssumption == \E p \in Players, q \in Players : p # q /\ Players = {p, q}
ASSUME NullAssumption == NoPlayer \notin Players /\ NoRequest \notin Requests

VARIABLES
  request,     \* request[r]: its status, who sent it, its version
  friendship,  \* friendship[r]: the row whose source_request_id is r
  blocks,      \* who has blocked the other
  cache,       \* cache[p]: the entry FRIENDS of p's social graph
  handler,     \* handler[h]: where a handler is, and what it read before
  crossed,     \* history: a write passed a block that its check did not see
  stale        \* history: entries that nothing but their TTL will correct

pairVars == <<request, friendship, blocks, cache, handler, crossed, stale>>
rows == <<request, friendship, blocks, crossed>>

Other(p) == CHOOSE q \in Players : q # p

Answers == {"accepted", "declined", "cancelled"}
Statuses == Answers \cup {"unsent", "pending", "voided"}
Views == {"friend", "stranger"}
Places == {"idle", "sending", "blocking", "removing", "invalidating"} \cup Answers

Holds(place, p, id, version) == [at |-> place, by |-> p, id |-> id, version |-> version]
Idle == Holds("idle", NoPlayer, NoRequest, 0)

Row == [status : Statuses, from : Players \cup {NoPlayer}, version : 0..1]
Handling == [at : Places, by : Players \cup {NoPlayer}, id : Requests \cup {NoRequest},
             version : 0..1]

TypeOK ==
  /\ request \in [Requests -> Row]
  /\ friendship \in [Requests -> {"none", "live", "ended"}]
  /\ blocks \in SUBSET Players
  /\ cache \in [Players -> Views \cup {"absent"}]
  /\ handler \in [Handlers -> Handling]
  /\ crossed \in BOOLEAN
  /\ stale \in SUBSET Players

PairInit ==
  /\ request = [r \in Requests |-> [status |-> "unsent", from |-> NoPlayer, version |-> 0]]
  /\ friendship = [r \in Requests |-> "none"]
  /\ blocks = {}
  /\ cache = [p \in Players |-> "absent"]
  /\ handler = [h \in Handlers |-> Idle]
  /\ crossed = FALSE
  /\ stale = {}

At(h, place) == handler[h].at = place
Goes(h, step) == handler' = [handler EXCEPT ![h] = step]
Begins(h, place, p) == At(h, "idle") /\ Goes(h, Holds(place, p, NoRequest, 0))

\* The transaction rolled back, the request was refused, or it is over.
Ends(h) == Goes(h, Idle)

\* The friendship or a block changed: the caches of both are next.
Commits(h) == Goes(h, Holds("invalidating", handler[h].by, NoRequest, 0))

Pending(r) == request[r].status = "pending"
PendingFrom(p) == \E r \in Requests : Pending(r) /\ request[r].from = p
Live == {r \in Requests : friendship[r] = "live"}
Friends == Live # {}
View == IF Friends THEN "friend" ELSE "stranger"

-----------------------------------------------------------------------------

\* FriendRequestService.send: the validator reads, then one insert that
\* uq_friend_request__one_pending_per_pair may refuse.
Send(h, p) ==
  /\ Begins(h, "sending", p)
  /\ blocks = {}
  /\ ~PendingFrom(p) /\ ~PendingFrom(Other(p))
  /\ UNCHANGED <<rows, cache, stale>>

Insert(h, r) ==
  /\ At(h, "sending") /\ Ends(h)
  /\ ~PendingFrom(handler[h].by)
  /\ request[r].status = "unsent"
  /\ request' = [request EXCEPT ![r] =
                   [status |-> "pending", from |-> handler[h].by, version |-> 0]]
  /\ crossed' = (crossed \/ blocks # {})
  /\ UNCHANGED <<friendship, blocks, cache, stale>>

Duplicate(h) ==
  /\ At(h, "sending") /\ Ends(h)
  /\ PendingFrom(handler[h].by)
  /\ UNCHANGED <<rows, cache, stale>>

\* Only the addressee accepts or declines; only the requester cancels.
MayAnswer(p, r, answer) ==
  p = IF answer = "cancelled" THEN request[r].from ELSE Other(request[r].from)

Answer(h, p, r, answer) ==
  /\ At(h, "idle")
  /\ Pending(r)
  /\ MayAnswer(p, r, answer)
  /\ Goes(h, Holds(answer, p, r, request[r].version))
  /\ UNCHANGED <<rows, cache, stale>>

Moved(r, status) ==
  [status |-> status, from |-> request[r].from, version |-> request[r].version + 1]

\* Mutant of Unresolved: the update names the row by its id alone.
UnresolvedById(h) == TRUE

\* The update of a resolution is guarded by the version that was read.
Unresolved(h) == request[handler[h].id].version = handler[h].version

Resolution(h) ==
  [request EXCEPT ![handler[h].id] = Moved(handler[h].id, handler[h].at)]

\* Decline and cancel move no row but the request's.
Resolve(h) ==
  /\ handler[h].at \in Answers \ {"accepted"} /\ Ends(h)
  /\ Unresolved(h)
  /\ request' = Resolution(h)
  /\ UNCHANGED <<friendship, blocks, crossed, cache, stale>>

\* FR-4: the request and the friendship it becomes commit together.
Accept(h) ==
  /\ At(h, "accepted")
  /\ Unresolved(h)
  /\ ~Friends
  /\ request' = Resolution(h)
  /\ friendship' = [friendship EXCEPT ![handler[h].id] = "live"]
  /\ Commits(h)
  /\ UNCHANGED <<blocks, crossed, cache, stale>>

\* FriendRequestAlreadyResolved, or uq_friendship__pair: FriendshipAlreadyExists.
AnswerRefused(h) ==
  /\ handler[h].at \in Answers /\ Ends(h)
  /\ ~Unresolved(h) \/ (At(h, "accepted") /\ Friends)
  /\ UNCHANGED <<rows, cache, stale>>

\* FriendshipService.remove_friend: read, then end the row that was read.
Remove(h, p) ==
  /\ At(h, "idle")
  /\ \E r \in Live : Goes(h, Holds("removing", p, r, 0))
  /\ UNCHANGED <<rows, cache, stale>>

End(h) ==
  /\ At(h, "removing")
  /\ handler[h].id \in Live
  /\ friendship' = [friendship EXCEPT ![handler[h].id] = "ended"]
  /\ Commits(h)
  /\ UNCHANGED <<request, blocks, crossed, cache, stale>>

\* FriendshipAlreadyEnded, for a removal and for a block, which it undoes.
AlreadyEnded(h) ==
  /\ handler[h].at \in {"removing", "blocking"} /\ Ends(h)
  /\ handler[h].id \in Requests \ Live
  /\ UNCHANGED <<rows, cache, stale>>

\* BlockingService.block: the block is inserted, not yet visible to anybody,
\* and the friendship read; a second block by the same player waits for it.
Block(h, p) ==
  /\ At(h, "idle")
  /\ p \notin blocks
  /\ \A g \in Handlers : ~(At(g, "blocking") /\ handler[g].by = p)
  /\ \E r \in IF Friends THEN Live ELSE {NoRequest} :
       Goes(h, Holds("blocking", p, r, 0))
  /\ UNCHANGED <<rows, cache, stale>>

\* Mutant of Voided: only what the blocker had received is voided.
VoidedOneWay(p) == {r \in Requests : Pending(r) /\ request[r].from = Other(p)}

\* void_pending_between: both directions.
Voided(p) == {r \in Requests : Pending(r) /\ request[r].from \in {p, Other(p)}}

\* The rest of the transaction: end what was read, void what is pending.
Cascade(h) ==
  LET p == handler[h].by
      seen == handler[h].id
  IN  /\ At(h, "blocking")
      /\ seen \in Live \cup {NoRequest}
      /\ blocks' = blocks \cup {p}
      /\ friendship' = [r \in Requests |-> IF r = seen THEN "ended" ELSE friendship[r]]
      /\ request' = [r \in Requests |->
           IF r \in Voided(p) THEN Moved(r, "voided")
           ELSE request[r]]
      /\ crossed' = (crossed \/ (seen = NoRequest /\ Friends))
      /\ Commits(h)
      /\ UNCHANGED <<cache, stale>>

Unblock(h, p) ==
  /\ Begins(h, "invalidating", p)
  /\ p \in blocks
  /\ blocks' = blocks \ {p}
  /\ UNCHANGED <<request, friendship, crossed, cache, stale>>

-----------------------------------------------------------------------------

\* Mutant of Cleared: only the player who acted is forgotten.
ClearedOwn(h) == [cache EXCEPT ![handler[h].by] = "absent"]

\* Both parties' entries go, after the commit.
Cleared(h) == [p \in Players |-> "absent"]

Invalidate(h) ==
  /\ At(h, "invalidating") /\ Ends(h)
  /\ cache' = Cleared(h)
  /\ stale' = {}
  /\ UNCHANGED rows

Wrong == {p \in Players : cache[p] \notin {"absent", View}}

\* Redis does not answer, or the process dies: the change has committed.
InvalidationLost(h) ==
  /\ At(h, "invalidating") /\ Ends(h)
  /\ stale' = stale \cup Wrong
  /\ UNCHANGED <<rows, cache>>

\* A process dies, or its transaction fails, before the commit.
Fails(h) ==
  /\ handler[h].at \notin {"idle", "invalidating"} /\ Ends(h)
  /\ UNCHANGED <<rows, cache, stale>>

\* put_ids: what a reader found before is cached now, whatever changed meanwhile.
Put(p, view) ==
  /\ cache' = [cache EXCEPT ![p] = view]
  /\ stale' = IF view = View THEN stale \ {p} ELSE stale \cup {p}

Expire(p) ==
  /\ cache[p] # "absent"
  /\ cache' = [cache EXCEPT ![p] = "absent"]
  /\ stale' = stale \ {p}
  /\ UNCHANGED <<rows, handler>>

PairStep(h) ==
  \/ \E p \in Players : Send(h, p) \/ Remove(h, p) \/ Block(h, p) \/ Unblock(h, p)
  \/ \E r \in Requests : Insert(h, r)
  \/ \E p \in Players, r \in Requests, answer \in Answers : Answer(h, p, r, answer)
  \/ Duplicate(h) \/ Resolve(h) \/ Accept(h) \/ AnswerRefused(h)
  \/ End(h) \/ AlreadyEnded(h) \/ Cascade(h)
  \/ Invalidate(h) \/ InvalidationLost(h) \/ Fails(h)

-----------------------------------------------------------------------------

\* FR-4: there is, or was, a friendship exactly for each accepted request.
AcceptedTogether ==
  \A r \in Requests : friendship[r] # "none" <=> request[r].status = "accepted"

\* "The failure a split would permit": a block that leaves the friendship live,
\* or a request to answer (blocking_service.py).  While one of the two blocks the
\* other, neither is left.  Two windows are open, and no third one: a request
\* validated before the block and inserted after it, and an acceptance that
\* commits between the block's read of the friendship and its own commit.
BlockKeepsApart ==
  crossed \/ blocks = {} \/ (~Friends /\ \A r \in Requests : ~Pending(r))

\* What Redis says of a player's friends is so, unless a change is about to be
\* invalidated, or an entry was put by a reader that read before the change or
\* survived an invalidation that was lost: that one stays until its TTL.
CacheIsTrue ==
  \A p \in Wrong : p \in stale \/ \E h \in Handlers : At(h, "invalidating")
=============================================================================
