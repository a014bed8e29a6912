------------------------- MODULE FriendChallenge_proofs -------------------------
(***************************************************************************)
(* That FriendChallenge keeps its invariants, for any pair, any number of  *)
(* requests, challenges and handlers.                                      *)
(*                                                                         *)
(* What a handler remembers is old, so the argument is about versions: a   *)
(* request that is answered or voided has a version no reader of a pending *)
(* row holds (Resolved, Remembers).  With at most one live friendship      *)
(* (OneLive) a block that ends the one it read ends them all.              *)
(***************************************************************************)
EXTENDS FriendChallenge, SequenceTheorems, TLAPS

\* The version counts resolutions: it is 0 exactly until the first.
Resolved ==
  \A r \in Requests :
    /\ request[r].version = 0 <=> request[r].status \in {"unsent", "pending"}
    /\ request[r].status # "unsent" => request[r].from \in Players

OneLive == \A q, r \in Live : q = r

\* What a handler holds was so when it read it.
Remembers ==
  \A h \in Handlers :
    /\ handler[h].at \in Answers =>
         /\ handler[h].id \in Requests
         /\ handler[h].version = 0
         /\ request[handler[h].id].status # "unsent"
    /\ handler[h].at \in {"sending", "blocking"} => handler[h].by \in Players
    /\ handler[h].at = "removing" => handler[h].id \in Requests

PairInv == Resolved /\ OneLive /\ Remembers /\ AcceptedTogether /\ BlockKeepsApart

Issued == \A c \in Challenges : challenge[c].status # "unissued" => challenge[c].from \in Players

Sits ==
  \A h \in Handlers :
    /\ session[h].at \in {"putting", "viewed", "permitted"} => session[h].by \in Players
    /\ session[h].at \in {"declined", "cancelled"} => session[h].id \in Challenges

Inv ==
  /\ ChallengeTypeOK
  /\ PairInv
  /\ Issued
  /\ Sits
  /\ CacheIsTrue
  /\ AnswersAreWhole

pairRows == <<request, friendship, blocks, crossed, handler>>

-----------------------------------------------------------------------------

LEMMA OtherIsOther == \A p \in Players : Other(p) \in Players /\ Other(p) # p
  BY PairAssumption DEF Other

LEMMA TwoPlayers == \A p, q \in Players : q = p \/ q = Other(p)
<1> SUFFICES ASSUME NEW p \in Players, NEW q \in Players, q # p PROVE q = Other(p)
  OBVIOUS
<1>1. PICK a \in Players, b \in Players : a # b /\ Players = {a, b}
  BY PairAssumption
<1> QED BY <1>1, OtherIsOther

\* Two sequences that are one element and another, however they were built.
LEMMA AppendToOne ==
  ASSUME NEW S, NEW a \in S, NEW b \in S
  PROVE  Append(<<a>>, b) = <<a, b>>
<1>1. <<a>> \in Seq(S) /\ <<a, b>> \in Seq(S)
  OBVIOUS
<1>2. ASSUME NEW s \in Seq(S), NEW t \in Seq(S), Len(s) = 1, s[1] = a,
             Len(t) = 2, t[1] = a, t[2] = b
      PROVE  Append(s, b) = t
  <2>1. Append(s, b) \in Seq(S) /\ Len(Append(s, b)) = Len(s) + 1
    OBVIOUS
  <2>2. \A i \in 1..Len(s) : Append(s, b)[i] = s[i]
    OBVIOUS
  <2>3. Append(s, b)[Len(s) + 1] = b
    OBVIOUS
  <2>4. \A i \in 1..Len(Append(s, b)) : Append(s, b)[i] = t[i]
    BY <1>2, <2>1, <2>2, <2>3
  <2> QED BY <1>2, <2>1, <2>4, SeqEqual
<1> QED BY <1>1, <1>2

LEMMA IdleTyped == Idle \in Handling /\ NoSession \in Sitting
  BY DEF Idle, Holds, Serves, Handling, Places, NoSession, Sitting, Stages, Views

LEMMA Initially == Init => Inv
<1> SUFFICES ASSUME Init PROVE Inv
  OBVIOUS
<1>1. TypeOK
  <2>1. request \in [Requests -> Row]
    BY DEF Init, PairInit, Row, Statuses
  <2>2. handler \in [Handlers -> Handling]
    BY IdleTyped DEF Init, PairInit
  <2> QED BY <2>1, <2>2 DEF Init, PairInit, TypeOK, Views
<1>2. ChallengeTypeOK
  <2>1. challenge \in [Challenges -> Invitation]
    BY DEF Init, Invitation
  <2>2. told \in [Challenges -> Seq(Settled \cup {"pending"})]
    <3>1. <<>> \in Seq(Settled \cup {"pending"})
      OBVIOUS
    <3> QED BY <3>1 DEF Init
  <2>3. session \in [Handlers -> Sitting] /\ made \in SUBSET Challenges
    BY IdleTyped DEF Init
  <2> QED BY <1>1, <2>1, <2>2, <2>3 DEF ChallengeTypeOK
<1>3. PairInv
  BY DEF Init, PairInit, Idle, Holds, PairInv, Resolved, OneLive, Live, Remembers, Answers,
         AcceptedTogether, BlockKeepsApart
<1>4. Issued /\ Sits
  BY DEF Init, NoSession, Serves, Issued, Sits
<1>5. CacheIsTrue
  BY DEF Init, PairInit, CacheIsTrue, Wrong
<1>6. AnswersAreWhole
  BY <1>3 DEF Init, AnswersAreWhole, PairInv, Story
<1> QED BY <1>2, <1>3, <1>4, <1>5, <1>6 DEF Inv

-----------------------------------------------------------------------------

\* What a handler can be set to has its type.
LEMMA HoldsTyped ==
  \A place \in Places, p \in Players \cup {NoPlayer}, id \in Requests \cup {NoRequest},
     version \in 0..1 : Holds(place, p, id, version) \in Handling
  BY DEF Holds, Handling

LEMMA GoesTyped ==
  ASSUME TypeOK, NEW h \in Handlers, NEW step \in Handling, Goes(h, step)
  PROVE  handler' \in [Handlers -> Handling]
  BY DEF TypeOK, Goes

LEMMA EndsTyped ==
  ASSUME TypeOK, NEW h \in Handlers, Ends(h) \/ Commits(h)
  PROVE  handler' \in [Handlers -> Handling]
<1>1. Holds("invalidating", handler[h].by, NoRequest, 0) \in Handling
  <2>1. handler[h].by \in Players \cup {NoPlayer}
    BY DEF TypeOK, Handling
  <2>2. "invalidating" \in Places /\ NoRequest \in Requests \cup {NoRequest} /\ 0 \in 0..1
    BY DEF Places
  <2> QED BY <2>1, <2>2, HoldsTyped
<1> QED BY <1>1, GoesTyped, IdleTyped DEF Ends, Commits

LEMMA PairTyped ==
  ASSUME Inv, NEW h \in Handlers, PairStep(h)
  PROVE  TypeOK'
<1>t. TypeOK /\ Resolved /\ Remembers
  BY DEF Inv, ChallengeTypeOK, PairInv
<1>p. "sending" \in Places /\ "removing" \in Places /\ "blocking" \in Places /\ Answers \subseteq Places
      /\ "invalidating" \in Places
  BY DEF Places
<1>1. ASSUME NEW p \in Players, Send(h, p) PROVE TypeOK'
  BY <1>t, <1>p, <1>1, HoldsTyped, GoesTyped DEF Send, rows, Begins, TypeOK
<1>2. ASSUME NEW p \in Players, Remove(h, p) PROVE TypeOK'
  BY <1>t, <1>p, <1>2, HoldsTyped, GoesTyped DEF Remove, Live, rows, TypeOK
<1>3. ASSUME NEW p \in Players, Block(h, p) PROVE TypeOK'
  BY <1>t, <1>p, <1>3, HoldsTyped, GoesTyped DEF Block, Live, rows, TypeOK
<1>4. ASSUME NEW p \in Players, Unblock(h, p) PROVE TypeOK'
  BY <1>t, <1>p, <1>4, HoldsTyped, GoesTyped DEF Unblock, Begins, TypeOK
<1>5. ASSUME NEW r \in Requests, Insert(h, r) PROVE TypeOK'
  <2>1. [status |-> "pending", from |-> handler[h].by, version |-> 0] \in Row
    BY <1>t DEF TypeOK, Handling, Row, Statuses
  <2>2. request' \in [Requests -> Row]
    BY <1>t, <1>5, <2>1 DEF Insert, TypeOK
  <2> QED BY <1>t, <1>5, <2>2, EndsTyped DEF Insert, TypeOK
<1>6. ASSUME NEW p \in Players, NEW r \in Requests, NEW answer \in Answers, Answer(h, p, r, answer)
      PROVE TypeOK'
  <2>1. request[r].version \in 0..1
    BY <1>t DEF TypeOK, Row
  <2> QED BY <1>t, <1>p, <1>6, <2>1, HoldsTyped, GoesTyped DEF Answer, rows, TypeOK
<1>7. CASE Duplicate(h)
  BY <1>t, <1>7, EndsTyped DEF Duplicate, rows, TypeOK
<1>m. ASSUME NEW r \in Requests, NEW status \in Answers \cup {"voided"}, request[r].version = 0
      PROVE  Moved(r, status) \in Row
  BY <1>t, <1>m DEF Moved, Row, Statuses, TypeOK
<1>r. ASSUME handler[h].at \in Answers, Unresolved(h)
      PROVE  Resolution(h) \in [Requests -> Row]
  <2>1. handler[h].id \in Requests /\ request[handler[h].id].version = 0
    BY <1>t, <1>r DEF Unresolved, Remembers
  <2>2. Moved(handler[h].id, handler[h].at) \in Row
    BY <1>r, <1>m, <2>1
  <2> QED BY <1>t, <2>1, <2>2 DEF Resolution, TypeOK
<1>8. CASE Resolve(h)
  BY <1>t, <1>8, <1>r, EndsTyped DEF Resolve, TypeOK
<1>9. CASE Accept(h)
  <2>1. "accepted" \in Answers
    BY DEF Answers
  <2> QED BY <1>t, <1>9, <1>r, <2>1, EndsTyped DEF Accept, At, TypeOK
<1>10. CASE AnswerRefused(h)
  BY <1>t, <1>10, EndsTyped DEF AnswerRefused, rows, TypeOK
<1>11. CASE End(h)
  BY <1>t, <1>11, EndsTyped DEF End, Live, TypeOK
<1>12. CASE AlreadyEnded(h)
  BY <1>t, <1>12, EndsTyped DEF AlreadyEnded, rows, TypeOK
<1>13. CASE Cascade(h)
  <2>1. \A r \in Voided(handler[h].by) : r \in Requests /\ request[r].version = 0
    BY <1>t DEF Voided, Pending, Resolved
  <2>2. request' \in [Requests -> Row]
    BY <1>t, <1>13, <1>m, <2>1 DEF Cascade, TypeOK
  <2>3. friendship' \in [Requests -> {"none", "live", "ended"}]
    BY <1>t, <1>13 DEF Cascade, TypeOK
  <2>4. blocks' \in SUBSET Players /\ crossed' \in BOOLEAN
    BY <1>t, <1>13 DEF Cascade, Remembers, TypeOK, At
  <2> QED BY <1>t, <1>13, <2>2, <2>3, <2>4, EndsTyped DEF Cascade, TypeOK
<1>14. CASE Invalidate(h)
  BY <1>t, <1>14, EndsTyped DEF Invalidate, Cleared, rows, TypeOK
<1>15. CASE InvalidationLost(h)
  BY <1>t, <1>15, EndsTyped DEF InvalidationLost, Wrong, rows, TypeOK
<1>16. CASE Fails(h)
  BY <1>t, <1>16, EndsTyped DEF Fails, rows, TypeOK
<1> QED BY <1>1, <1>2, <1>3, <1>4, <1>5, <1>6, <1>7, <1>8, <1>9, <1>10, <1>11, <1>12, <1>13,
           <1>14, <1>15, <1>16 DEF PairStep

-----------------------------------------------------------------------------

\* What a handler newly remembers must be so; what the others remember stays so,
\* for a request that was sent is never unsent.
LEMMA RemembersKept ==
  ASSUME TypeOK, Remembers, NEW h \in Handlers, NEW step \in Handling, Goes(h, step),
         \A r \in Requests : request[r].status # "unsent" => request'[r].status # "unsent",
         step.at \in Answers =>
           step.id \in Requests /\ step.version = 0 /\ request'[step.id].status # "unsent",
         step.at \in {"sending", "blocking"} => step.by \in Players,
         step.at = "removing" => step.id \in Requests
  PROVE  Remembers'
  BY DEF Remembers, Goes, TypeOK

\* Who is done, or is left with the caches, remembers nothing.
LEMMA EndsForgets ==
  ASSUME TypeOK, Remembers, NEW h \in Handlers, Ends(h) \/ Commits(h),
         \A r \in Requests : request[r].status # "unsent" => request'[r].status # "unsent"
  PROVE  Remembers'
<1>1. PICK step \in Handling : Goes(h, step) /\ step.at \in {"idle", "invalidating"}
  <2>1. handler[h].by \in Players \cup {NoPlayer}
    BY DEF TypeOK, Handling
  <2>2. Holds("invalidating", handler[h].by, NoRequest, 0) \in Handling
    BY <2>1, HoldsTyped DEF Places
  <2> QED BY <2>2, IdleTyped DEF Ends, Commits, Idle, Holds
<1> QED BY <1>1, RemembersKept DEF Answers

\* A step that writes no row leaves the invariant's other parts alone.
LEMMA RowsKept ==
  ASSUME PairInv, UNCHANGED rows
  PROVE  /\ Resolved' /\ OneLive' /\ AcceptedTogether' /\ BlockKeepsApart'
         /\ \A r \in Requests : request[r].status # "unsent" => request'[r].status # "unsent"
  BY DEF rows, PairInv, Resolved, OneLive, Live, AcceptedTogether, BlockKeepsApart, Friends, Pending

\* A request that a handler read as pending and finds at the version it read is
\* still pending, so no friendship has come of it yet.
LEMMA StillPending ==
  ASSUME TypeOK, PairInv, NEW h \in Handlers, handler[h].at \in Answers, Unresolved(h)
  PROVE  /\ handler[h].id \in Requests
         /\ Pending(handler[h].id)
         /\ request[handler[h].id].version = 0
         /\ request[handler[h].id].from \in Players
         /\ friendship[handler[h].id] = "none"
<1>1. /\ handler[h].id \in Requests
      /\ request[handler[h].id].version = 0
      /\ request[handler[h].id].status # "unsent"
  BY DEF PairInv, Remembers, Unresolved
<1> QED BY <1>1 DEF PairInv, Resolved, AcceptedTogether, Pending

\* The resolution of a pending request resolves it, and no other.
LEMMA ResolutionResolves ==
  ASSUME TypeOK, PairInv, NEW h \in Handlers, handler[h].at \in Answers, Unresolved(h),
         request' = Resolution(h)
  PROVE  /\ Resolved'
         /\ \A r \in Requests : request[r].status # "unsent" => request'[r].status # "unsent"
         /\ \A r \in Requests : request'[r].status = IF r = handler[h].id THEN handler[h].at
                                                    ELSE request[r].status
  BY StillPending DEF TypeOK, PairInv, Resolved, Resolution, Moved, Answers

LEMMA InsertKeeps ==
  ASSUME TypeOK, PairInv, NEW h \in Handlers, NEW r \in Requests, Insert(h, r)
  PROVE  PairInv'
<1>1. request' = [request EXCEPT ![r] =
                   [status |-> "pending", from |-> handler[h].by, version |-> 0]]
  BY DEF Insert
<1>2. handler[h].by \in Players
  BY DEF Insert, At, PairInv, Remembers
<1>3. Resolved'
  BY <1>1, <1>2 DEF TypeOK, PairInv, Resolved
<1>4. Remembers'
  BY <1>1, EndsForgets DEF Insert, PairInv, TypeOK
<1>5. OneLive' /\ AcceptedTogether'
  BY <1>1 DEF Insert, PairInv, OneLive, Live, AcceptedTogether, TypeOK
<1>6. BlockKeepsApart'
  BY <1>1 DEF Insert, PairInv, BlockKeepsApart, Pending, Friends, Live, TypeOK
<1> QED BY <1>3, <1>4, <1>5, <1>6 DEF PairInv

LEMMA ResolveKeeps ==
  ASSUME TypeOK, PairInv, NEW h \in Handlers, Resolve(h)
  PROVE  PairInv'
<1>1. /\ handler[h].at \in Answers \ {"accepted"} /\ Unresolved(h) /\ Ends(h)
      /\ request' = Resolution(h)
      /\ UNCHANGED <<friendship, blocks, crossed>>
  BY DEF Resolve
<1>2. Resolved' /\ Remembers'
  BY <1>1, ResolutionResolves, EndsForgets DEF PairInv
<1>3. AcceptedTogether' /\ OneLive'
  BY <1>1, StillPending, ResolutionResolves DEF PairInv, AcceptedTogether, OneLive, Live
<1>4. BlockKeepsApart'
  BY <1>1, ResolutionResolves DEF PairInv, BlockKeepsApart, Friends, Live, Pending, Answers
<1> QED BY <1>2, <1>3, <1>4 DEF PairInv

\* An acceptance finds the request pending, so either nobody blocks or a write
\* has crossed a block already; and it finds no other friendship.
LEMMA AcceptKeeps ==
  ASSUME TypeOK, PairInv, NEW h \in Handlers, Accept(h)
  PROVE  PairInv'
<1>1. /\ handler[h].at = "accepted" /\ handler[h].at \in Answers
      /\ Unresolved(h) /\ ~Friends /\ Commits(h)
      /\ request' = Resolution(h)
      /\ friendship' = [friendship EXCEPT ![handler[h].id] = "live"]
      /\ UNCHANGED <<blocks, crossed>>
  BY DEF Accept, At, Answers
<1>2. Resolved' /\ Remembers'
  BY <1>1, ResolutionResolves, EndsForgets DEF PairInv
<1>3. AcceptedTogether'
  BY <1>1, StillPending, ResolutionResolves DEF TypeOK, PairInv, AcceptedTogether
<1>4. OneLive'
  BY <1>1 DEF TypeOK, OneLive, Friends, Live
<1>5. BlockKeepsApart'
  BY <1>1, StillPending DEF PairInv, BlockKeepsApart
<1> QED BY <1>2, <1>3, <1>4, <1>5 DEF PairInv

LEMMA EndKeeps ==
  ASSUME TypeOK, PairInv, NEW h \in Handlers, End(h)
  PROVE  PairInv'
<1>1. Resolved' /\ Remembers'
  BY EndsForgets DEF End, PairInv, Resolved
<1>2. AcceptedTogether' /\ OneLive'
  BY DEF End, TypeOK, PairInv, AcceptedTogether, OneLive, Live
<1>3. BlockKeepsApart'
  BY DEF End, TypeOK, PairInv, BlockKeepsApart, Friends, Live, Pending
<1> QED BY <1>1, <1>2, <1>3 DEF PairInv

LEMMA UnblockKeeps ==
  ASSUME TypeOK, PairInv, NEW h \in Handlers, NEW p \in Players, Unblock(h, p)
  PROVE  PairInv'
<1>1. Goes(h, Holds("invalidating", p, NoRequest, 0))
  BY DEF Unblock, Begins
<1>2. Holds("invalidating", p, NoRequest, 0) \in Handling
  BY HoldsTyped DEF Places
<1>3. Remembers'
  BY <1>1, <1>2, RemembersKept DEF Unblock, PairInv, Holds, Answers
<1>4. Resolved' /\ OneLive' /\ AcceptedTogether' /\ BlockKeepsApart'
  BY DEF Unblock, PairInv, Resolved, OneLive, Live, AcceptedTogether, BlockKeepsApart,
         Friends, Pending
<1> QED BY <1>3, <1>4 DEF PairInv

\* A block that read the friendship ends the only one there is; one that read
\* none and finds one at its commit has been crossed; and whatever is pending was
\* sent by one of the two.
LEMMA CascadeKeeps ==
  ASSUME TypeOK, PairInv, NEW h \in Handlers, Cascade(h)
  PROVE  PairInv'
<1> DEFINE p == handler[h].by
           seen == handler[h].id
<1>1. /\ handler[h].at = "blocking" /\ p \in Players
      /\ seen \in Live \cup {NoRequest}
      /\ friendship' = [r \in Requests |-> IF r = seen THEN "ended" ELSE friendship[r]]
      /\ request' = [r \in Requests |->
           IF r \in Voided(p) THEN Moved(r, "voided") ELSE request[r]]
      /\ crossed' = (crossed \/ (seen = NoRequest /\ Friends))
      /\ Commits(h)
  BY DEF Cascade, At, PairInv, Remembers
<1>2. \A r \in Requests : r \in Voided(p) <=> Pending(r)
  BY <1>1, TwoPlayers DEF Voided, Pending, PairInv, Resolved
<1>3. Resolved' /\ \A r \in Requests : request[r].status # "unsent" => request'[r].status # "unsent"
  BY <1>1, <1>2 DEF TypeOK, PairInv, Resolved, Moved, Pending
<1>4. Remembers'
  BY <1>1, <1>3, EndsForgets DEF PairInv
<1>5. OneLive'
  BY <1>1 DEF PairInv, OneLive, Live
<1>6. AcceptedTogether'
  <2>1. \A r \in Requests : request'[r].status = "accepted" <=> request[r].status = "accepted"
    BY <1>1, <1>2 DEF Moved, Pending
  <2>2. \A r \in Requests : friendship'[r] # "none" <=> friendship[r] # "none"
    BY <1>1, NullAssumption DEF Live
  <2> QED BY <2>1, <2>2 DEF PairInv, AcceptedTogether
<1>7. BlockKeepsApart'
  <2>1. \A r \in Requests : ~Pending(r)'
    BY <1>1, <1>2 DEF Pending, Moved
  <2>2. ~crossed' => ~Friends'
    <3> SUFFICES ASSUME ~crossed', Friends' PROVE FALSE
      OBVIOUS
    <3>1. PICK r \in Requests : friendship'[r] = "live"
      BY DEF Friends, Live
    <3>2. r # seen /\ r \in Live
      BY <1>1, <3>1 DEF Live
    <3>3. seen \in Live
      BY <1>1, <3>2 DEF Friends
    <3> QED BY <3>2, <3>3 DEF PairInv, OneLive
  <2> QED BY <2>1, <2>2 DEF BlockKeepsApart
<1> QED BY <1>3, <1>4, <1>5, <1>6, <1>7 DEF PairInv

LEMMA PairStepKeeps ==
  ASSUME TypeOK, PairInv, NEW h \in Handlers, PairStep(h)
  PROVE  PairInv'
<1>k. UNCHANGED rows /\ Remembers' => PairInv'
  BY RowsKept DEF PairInv
<1>u. UNCHANGED rows =>
        \A r \in Requests : request[r].status # "unsent" => request'[r].status # "unsent"
  BY RowsKept
<1>1. ASSUME NEW p \in Players, Send(h, p) PROVE PairInv'
  <2>1. Holds("sending", p, NoRequest, 0) \in Handling
    BY HoldsTyped DEF Places
  <2> QED BY <1>1, <1>k, <1>u, <2>1, RemembersKept DEF Send, Begins, PairInv, Holds, Answers
<1>2. ASSUME NEW p \in Players, Remove(h, p) PROVE PairInv'
  <2>1. PICK r \in Requests : Goes(h, Holds("removing", p, r, 0))
    BY <1>2 DEF Remove, Live
  <2>2. Holds("removing", p, r, 0) \in Handling
    BY HoldsTyped DEF Places
  <2> QED BY <1>2, <1>k, <1>u, <2>1, <2>2, RemembersKept DEF Remove, PairInv, Holds, Answers
<1>3. ASSUME NEW p \in Players, Block(h, p) PROVE PairInv'
  <2>1. PICK r \in Requests \cup {NoRequest} : Goes(h, Holds("blocking", p, r, 0))
    BY <1>3 DEF Block, Live
  <2>2. Holds("blocking", p, r, 0) \in Handling
    BY HoldsTyped DEF Places
  <2> QED BY <1>3, <1>k, <1>u, <2>1, <2>2, RemembersKept DEF Block, PairInv, Holds, Answers
<1>4. ASSUME NEW p \in Players, NEW r \in Requests, NEW answer \in Answers, Answer(h, p, r, answer)
      PROVE  PairInv'
  <2>1. request[r].status = "pending" /\ request[r].version = 0 /\ UNCHANGED rows
    BY <1>4 DEF Answer, Pending, PairInv, Resolved
  <2>2. Goes(h, Holds(answer, p, r, 0))
    BY <1>4, <2>1 DEF Answer
  <2>3. Holds(answer, p, r, 0) \in Handling
    <3>1. answer \in Places
      BY DEF Places
    <3> QED BY <3>1, HoldsTyped
  <2>4. request'[r].status # "unsent"
    BY <2>1 DEF rows
  <2> QED BY <1>k, <1>u, <2>1, <2>2, <2>3, <2>4, RemembersKept DEF PairInv, Holds, Answers
<1>5. ASSUME Ends(h), UNCHANGED rows PROVE PairInv'
  BY <1>5, <1>k, <1>u, EndsForgets DEF PairInv
<1>6. CASE Duplicate(h) \/ AnswerRefused(h) \/ AlreadyEnded(h) \/ Invalidate(h)
           \/ InvalidationLost(h) \/ Fails(h)
  BY <1>5, <1>6 DEF Duplicate, AnswerRefused, AlreadyEnded, Invalidate, InvalidationLost, Fails,
                    rows
<1> QED BY <1>1, <1>2, <1>3, <1>4, <1>6, InsertKeeps, ResolveKeeps, AcceptKeeps, EndKeeps,
           UnblockKeeps, CascadeKeeps DEF PairStep

-----------------------------------------------------------------------------

\* A step of the pair changes the friendship only together with its own move to
\* the invalidation; it changes the cache only by invalidating.
LEMMA ChangesInvalidate ==
  ASSUME NEW h \in Handlers, PairStep(h)
  PROVE  \/ UNCHANGED <<friendship, cache, stale>> /\ ~At(h, "invalidating")
         \/ Commits(h) /\ UNCHANGED <<cache, stale>>
         \/ Goes(h, Holds("invalidating", handler'[h].by, NoRequest, 0)) /\ UNCHANGED <<cache, stale>>
         \/ UNCHANGED friendship /\ cache' = Cleared(h)
         \/ UNCHANGED <<friendship, cache>> /\ stale' = stale \cup Wrong
  BY DEF PairStep, Send, Insert, Duplicate, Answer, Resolve, Accept, AnswerRefused, Remove, End,
         AlreadyEnded, Block, Cascade, Unblock, Invalidate, InvalidationLost, Fails, Begins, At,
         rows, Answers, Goes, Holds

LEMMA CacheKept ==
  ASSUME TypeOK, CacheIsTrue, NEW h \in Handlers, PairStep(h)
  PROVE  CacheIsTrue'
<1>g. \E step : Goes(h, step)
  BY DEF PairStep, Send, Insert, Duplicate, Answer, Resolve, Accept, AnswerRefused, Remove, End,
         AlreadyEnded, Block, Cascade, Unblock, Invalidate, InvalidationLost, Fails, Begins, Ends,
         Commits
<1>1. CASE UNCHANGED <<friendship, cache, stale>> /\ ~At(h, "invalidating")
  <2>1. Wrong' = Wrong
    BY <1>1 DEF Wrong, View, Friends, Live
  <2>2. \A g \in Handlers : At(g, "invalidating") => At(g, "invalidating")'
    BY <1>1, <1>g DEF At, Goes, TypeOK
  <2> QED BY <1>1, <2>1, <2>2 DEF CacheIsTrue
<1>2. ASSUME handler'[h].at = "invalidating" PROVE CacheIsTrue'
  BY <1>2 DEF CacheIsTrue, At
<1>3. CASE Commits(h) \/ Goes(h, Holds("invalidating", handler'[h].by, NoRequest, 0))
  BY <1>2, <1>3 DEF Commits, Goes, Holds, TypeOK
<1>4. CASE cache' = Cleared(h)
  BY <1>4 DEF CacheIsTrue, Wrong, Cleared
<1>5. CASE UNCHANGED <<friendship, cache>> /\ stale' = stale \cup Wrong
  BY <1>5 DEF CacheIsTrue, Wrong, View, Friends, Live
<1> QED BY <1>1, <1>3, <1>4, <1>5, ChangesInvalidate

\* A reader's put leaves the entry right, or records that it is not.
LEMMA PutKept ==
  ASSUME TypeOK, CacheIsTrue, NEW p \in Players, NEW view \in Views, Put(p, view),
         UNCHANGED <<rows, handler>>
  PROVE  CacheIsTrue'
<1>1. View' = View
  BY DEF rows, View, Friends, Live
<1>2. \A q \in Wrong' : q # p => q \in Wrong
  BY <1>1 DEF Put, Wrong, TypeOK
<1>3. view = View => p \notin Wrong'
  BY <1>1 DEF Put, Wrong, TypeOK
<1>4. \A q \in stale : q # p => q \in stale'
  BY DEF Put
<1>5. view # View => p \in stale'
  BY DEF Put
<1> QED BY <1>2, <1>3, <1>4, <1>5 DEF CacheIsTrue, At

LEMMA ExpireKept ==
  ASSUME TypeOK, CacheIsTrue, NEW p \in Players, Expire(p)
  PROVE  CacheIsTrue' /\ TypeOK'
<1>1. View' = View
  BY DEF Expire, rows, View, Friends, Live
<1>2. Wrong' = Wrong \ {p}
  BY <1>1 DEF Expire, Wrong, TypeOK
<1>3. CacheIsTrue'
  BY <1>2 DEF Expire, CacheIsTrue, At
<1>4. TypeOK'
  BY DEF Expire, rows, TypeOK
<1> QED BY <1>3, <1>4

-----------------------------------------------------------------------------

\* The part of the invariant that is about challenges and their matches.
ChallengeTyped ==
  /\ challenge \in [Challenges -> Invitation]
  /\ made \in SUBSET Challenges
  /\ told \in [Challenges -> Seq(Settled \cup {"pending"})]
  /\ session \in [Handlers -> Sitting]

Whole ==
  \A c \in Challenges :
    /\ c \in made <=> challenge[c].status = "accepted"
    /\ told[c] = Story(challenge[c].status)

Told == ChallengeTyped /\ Issued /\ Sits /\ Whole

LEMMA InvParts ==
  Inv <=> TypeOK /\ PairInv /\ CacheIsTrue /\ Told
  BY DEF Inv, ChallengeTypeOK, ChallengeTyped, PairInv, Told, AnswersAreWhole, Whole

LEMMA InvPartsNext ==
  Inv' <=> TypeOK' /\ PairInv' /\ CacheIsTrue' /\ Told'
  BY DEF Inv, ChallengeTypeOK, ChallengeTyped, PairInv, Told, AnswersAreWhole, Whole

LEMMA ServesTyped ==
  \A stage \in Stages, p \in Players \cup {NoPlayer}, c \in Challenges \cup {NoChallenge},
     view \in Views : Serves(stage, p, c, view) \in Sitting
  BY DEF Serves, Sitting

\* A session moves on, and no challenge does.
LEMMA MovesKeeps ==
  ASSUME Told, NEW h \in Handlers, NEW step \in Sitting, Moves(h, step),
         step.at \in {"putting", "viewed", "permitted"} => step.by \in Players,
         step.at \in {"declined", "cancelled"} => step.id \in Challenges,
         UNCHANGED <<challenge, made, told>>
  PROVE  Told'
<1>1. ChallengeTyped' /\ Issued' /\ Whole'
  BY DEF Told, ChallengeTyped, Issued, Whole, Moves
<1>2. Sits'
  BY DEF Told, Sits, Moves, ChallengeTyped
<1> QED BY <1>1, <1>2 DEF Told

LEMMA LeavesKeeps ==
  ASSUME Told, NEW h \in Handlers, Leaves(h)
  PROVE  session' \in [Handlers -> Sitting] /\ Sits'
<1>1. NoSession \in Sitting /\ NoSession.at = "idle"
  BY IdleTyped DEF NoSession, Serves
<1>2. session' \in [Handlers -> Sitting]
  BY <1>1 DEF Told, ChallengeTyped, Leaves, Moves
<1> QED BY <1>1, <1>2 DEF Told, Sits, Leaves, Moves, ChallengeTyped

\* An answer to challenges that are all open is told once, after the offer.
LEMMA WriteKeeps ==
  ASSUME Told, NEW settles \in SUBSET Challenges, NEW status \in Settled,
         \A c \in settles : Open(c),
         Write(settles, status),
         made' = made \cup (IF status = "accepted" THEN settles ELSE {})
  PROVE  /\ challenge' \in [Challenges -> Invitation] /\ made' \in SUBSET Challenges
         /\ told' \in [Challenges -> Seq(Settled \cup {"pending"})]
         /\ Issued' /\ Whole'
<1>1. challenge' = [c \in Challenges |->
        IF c \in settles THEN [status |-> status, from |-> challenge[c].from, overdue |-> FALSE]
        ELSE challenge[c]]
  BY DEF Write
<1>2. told' = [c \in Challenges |-> IF c \in settles THEN Append(told[c], status) ELSE told[c]]
  BY DEF Write
<1>3. \A c \in settles : [status |-> status, from |-> challenge[c].from, overdue |-> FALSE] \in Invitation
  BY DEF Told, ChallengeTyped, Invitation
<1>4. challenge' \in [Challenges -> Invitation]
  BY <1>1, <1>3 DEF Told, ChallengeTyped
<1>5. \A c \in settles : told[c] = <<"pending">> /\ Append(told[c], status) = <<"pending", status>>
  <2>1. \A c \in settles : told[c] = <<"pending">>
    BY DEF Told, Whole, Open, Story
  <2>2. Append(<<"pending">>, status) = <<"pending", status>>
    <3>1. "pending" \in Settled \cup {"pending"} /\ status \in Settled \cup {"pending"}
      OBVIOUS
    <3> QED BY <3>1, AppendToOne
  <2> QED BY <2>1, <2>2
<1>6. \A c \in settles : <<"pending", status>> \in Seq(Settled \cup {"pending"})
  OBVIOUS
<1>7. told' \in [Challenges -> Seq(Settled \cup {"pending"})]
  BY <1>2, <1>5, <1>6 DEF Told, ChallengeTyped
<1>8. Issued'
  BY <1>1 DEF Told, Issued, Open
<1>9. ASSUME NEW c \in Challenges
      PROVE  /\ (c \in made <=> challenge[c].status = "accepted")'
             /\ (told[c] = Story(challenge[c].status))'
  <2>1. CASE c \in settles
    <3>1. challenge'[c].status = status /\ told'[c] = <<"pending", status>>
      BY <1>1, <1>2, <1>5, <2>1
    <3>2. Story(status) = <<"pending", status>>
      BY DEF Story, Settled
    <3>3. c \notin made
      BY <2>1 DEF Told, Whole, Open
    <3> QED BY <2>1, <3>1, <3>2, <3>3 DEF Story
  <2>2. CASE c \notin settles
    <3>1. challenge'[c] = challenge[c] /\ told'[c] = told[c]
      BY <1>1, <1>2, <2>2
    <3> QED BY <2>2, <3>1 DEF Told, Whole, Story
  <2> QED BY <2>1, <2>2
<1>10. Whole'
  BY <1>9 DEF Whole
<1> QED BY <1>4, <1>7, <1>8, <1>10 DEF Told, ChallengeTyped

LEMMA CreateKeeps ==
  ASSUME Told, NEW h \in Handlers, NEW c \in Challenges, Create(h, c)
  PROVE  Told'
<1>1. challenge' = [challenge EXCEPT ![c] =
                     [status |-> "pending", from |-> session[h].by, overdue |-> FALSE]]
  BY DEF Create
<1>2. told' = [told EXCEPT ![c] = Append(told[c], "pending")] /\ made' = made
  BY DEF Create
<1>3. session[h].by \in Players /\ challenge[c].status = "unissued"
  BY DEF Create, In, Told, Sits
<1>4. [status |-> "pending", from |-> session[h].by, overdue |-> FALSE] \in Invitation
  BY <1>3 DEF Invitation
<1>5. told[c] = <<>> /\ c \notin made
  BY <1>3 DEF Told, Whole, Story
<1>6. Append(told[c], "pending") = <<"pending">> /\ <<"pending">> \in Seq(Settled \cup {"pending"})
  BY <1>5
<1>7. ChallengeTyped'
  BY <1>1, <1>2, <1>4, <1>6, LeavesKeeps DEF Create, Told, ChallengeTyped
<1>8. Issued'
  BY <1>1, <1>3 DEF Told, ChallengeTyped, Issued
<1>9. Whole'
  <2> SUFFICES ASSUME NEW d \in Challenges
               PROVE  /\ (d \in made <=> challenge[d].status = "accepted")'
                      /\ (told[d] = Story(challenge[d].status))'
    BY DEF Whole
  <2>1. CASE d = c
    <3>1. challenge'[d].status = "pending" /\ told'[d] = <<"pending">>
      BY <1>1, <1>2, <1>6, <2>1 DEF Told, ChallengeTyped
    <3> QED BY <1>2, <1>5, <2>1, <3>1 DEF Story
  <2>2. CASE d # c
    <3>1. challenge'[d] = challenge[d] /\ told'[d] = told[d]
      BY <1>1, <1>2, <2>2 DEF Told, ChallengeTyped
    <3> QED BY <1>2, <3>1 DEF Told, Whole, Story
  <2> QED BY <2>1, <2>2
<1> QED BY <1>7, <1>8, <1>9, LeavesKeeps DEF Create, Told

LEMMA SettleKeeps ==
  ASSUME Told, NEW h \in Handlers, Join(h) \/ Settle(h)
  PROVE  Told'
<1>1. CASE Join(h)
  <2>1. session[h].id \in Challenges
    BY <1>1 DEF Join, Told, ChallengeTyped, Sitting
  <2>2. /\ \A c \in {session[h].id} : Open(c)
        /\ Write({session[h].id}, "accepted") /\ Leaves(h)
        /\ made' = made \cup (IF "accepted" = "accepted" THEN {session[h].id} ELSE {})
    BY <1>1 DEF Join, StillOpen
  <2>3. "accepted" \in Settled /\ {session[h].id} \in SUBSET Challenges
    BY <2>1 DEF Settled
  <2>4. Issued' /\ Whole' /\ challenge' \in [Challenges -> Invitation]
        /\ made' \in SUBSET Challenges /\ told' \in [Challenges -> Seq(Settled \cup {"pending"})]
    BY <2>2, <2>3, WriteKeeps
  <2> QED BY <2>2, <2>4, LeavesKeeps DEF Told, ChallengeTyped
<1>2. CASE Settle(h)
  <2>1. session[h].id \in Challenges
    BY <1>2 DEF Settle, Told, Sits
  <2>2. session[h].at \in Settled /\ session[h].at # "accepted"
    BY <1>2 DEF Settle, Settled
  <2>3. /\ \A c \in {session[h].id} : Open(c)
        /\ Write({session[h].id}, session[h].at) /\ Leaves(h)
        /\ made' = made \cup (IF session[h].at = "accepted" THEN {session[h].id} ELSE {})
    BY <1>2, <2>2 DEF Settle, StillOpen
  <2>4. {session[h].id} \in SUBSET Challenges
    BY <2>1
  <2>5. Issued' /\ Whole' /\ challenge' \in [Challenges -> Invitation]
        /\ made' \in SUBSET Challenges /\ told' \in [Challenges -> Seq(Settled \cup {"pending"})]
    BY <2>2, <2>3, <2>4, WriteKeeps
  <2> QED BY <2>3, <2>5, LeavesKeeps DEF Told, ChallengeTyped
<1> QED BY <1>1, <1>2

LEMMA SweepKeeps ==
  ASSUME Told, NEW batch \in SUBSET Challenges, Sweep(batch)
  PROVE  Told'
<1>1. /\ \A c \in batch : Open(c)
      /\ Write(batch, "expired")
      /\ made' = made \cup (IF "expired" = "accepted" THEN batch ELSE {})
      /\ session' = session
  BY DEF Sweep
<1>2. "expired" \in Settled
  BY DEF Settled
<1>3. Sits'
  BY <1>1 DEF Told, Sits
<1> QED BY <1>1, <1>2, <1>3, WriteKeeps DEF Told, ChallengeTyped

LEMMA LapseKeeps ==
  ASSUME Told, NEW c \in Challenges, Lapse(c)
  PROVE  Told'
<1>1. \A d \in Challenges : /\ challenge'[d].status = challenge[d].status
                           /\ challenge'[d].from = challenge[d].from
  BY DEF Lapse, Told, ChallengeTyped, Invitation
<1>2. challenge' \in [Challenges -> Invitation]
  BY DEF Lapse, Told, ChallengeTyped, Invitation
<1>3. Issued' /\ Whole' /\ Sits'
  BY <1>1 DEF Lapse, Told, Issued, Whole, Story, Sits
<1> QED BY <1>2, <1>3 DEF Lapse, Told, ChallengeTyped

LEMMA AskKeeps ==
  ASSUME TypeOK, Told, NEW h \in Handlers, Ask(h)
  PROVE  Told' /\ UNCHANGED pairVars
<1>1. \A p \in Players, c \in Challenges \cup {NoChallenge} : Hit(h, p, c) \/ Miss(h, p, c) =>
        \E step \in Sitting : /\ Moves(h, step)
                              /\ step.at \in {"putting", "viewed"} /\ step.by = p
  <2> SUFFICES ASSUME NEW p \in Players, NEW c \in Challenges \cup {NoChallenge},
                      Hit(h, p, c) \/ Miss(h, p, c)
               PROVE  \E step \in Sitting : /\ Moves(h, step)
                                            /\ step.at \in {"putting", "viewed"} /\ step.by = p
    OBVIOUS
  <2>1. View \in Views /\ "stranger" \in Views /\ "viewed" \in Stages /\ "putting" \in Stages
    BY DEF View, Views, Stages
  <2>2. /\ Serves("viewed", p, c, "stranger") \in Sitting
        /\ Serves("putting", p, c, View) \in Sitting
    BY <2>1, ServesTyped
  <2> QED BY <2>2 DEF Hit, Miss, Serves
<1>2. \A c \in Challenges : Answerable(c) => challenge[c].from \in Players
  BY DEF Answerable, Open, Told, Issued
<1>3. PICK step \in Sitting : /\ Moves(h, step)
                             /\ step.at \in {"putting", "viewed"} /\ step.by \in Players
  BY <1>1, <1>2 DEF Ask
<1> QED BY <1>3, MovesKeeps DEF Ask

\* The steps of a session that write no challenge.
LEMMA SessionKeeps ==
  ASSUME Told, NEW h \in Handlers,
         \/ PutGraph(h) \/ Permit(h) \/ GivesUp(h)
         \/ \E c \in Challenges, status \in {"declined", "cancelled"} : AskToSettle(h, c, status)
  PROVE  Told'
<1>n. NoSession \in Sitting /\ NoSession.at = "idle"
  BY IdleTyped DEF NoSession, Serves
<1>1. Leaves(h) /\ UNCHANGED <<challenge, made, told>> => Told'
  BY <1>n, MovesKeeps DEF Leaves
<1>2. ASSUME NEW stage \in {"viewed", "permitted"}, Enters(h, stage), session[h].by \in Players,
             UNCHANGED <<challenge, made, told>>
      PROVE  Told'
  <2>1. session[h].id \in Challenges \cup {NoChallenge}
    BY DEF Told, ChallengeTyped, Sitting
  <2>2. Serves(stage, session[h].by, session[h].id, "stranger") \in Sitting
    BY <1>2, <2>1, ServesTyped DEF Stages, Views
  <2> QED BY <1>2, <2>2, MovesKeeps DEF Enters, Serves
<1>3. CASE PutGraph(h)
  BY <1>1, <1>2, <1>3 DEF PutGraph, In, Told, Sits
<1>4. CASE Permit(h)
  BY <1>2, <1>4 DEF Permit, In, Told, Sits
<1>5. CASE GivesUp(h)
  BY <1>1, <1>5 DEF GivesUp
<1>6. ASSUME NEW c \in Challenges, NEW status \in {"declined", "cancelled"}, AskToSettle(h, c, status)
      PROVE  Told'
  <2>1. Serves(status, NoPlayer, c, "stranger") \in Sitting
    BY ServesTyped DEF Stages, Views
  <2> QED BY <1>6, <2>1, MovesKeeps DEF AskToSettle, Serves
<1> QED BY <1>3, <1>4, <1>5, <1>6

-----------------------------------------------------------------------------

\* A step of the challenges leaves the pair alone, but for what a reader caches.
LEMMA SessionStepKeeps ==
  ASSUME Inv, NEW h \in Handlers, SessionStep(h)
  PROVE  Inv'
<1>t. TypeOK /\ PairInv /\ CacheIsTrue /\ Told
  BY InvParts
<1>u. UNCHANGED pairVars => TypeOK' /\ PairInv' /\ CacheIsTrue'
  <2> SUFFICES ASSUME UNCHANGED pairVars PROVE TypeOK' /\ PairInv' /\ CacheIsTrue'
    OBVIOUS
  <2>1. TypeOK'
    BY <1>t DEF pairVars, TypeOK
  <2>2. Remembers'
    BY <1>t DEF pairVars, PairInv, Remembers
  <2>3. CacheIsTrue'
    BY <1>t DEF pairVars, CacheIsTrue, Wrong, View, Friends, Live, At
  <2> QED BY <1>t, <2>1, <2>2, <2>3, RowsKept DEF pairVars, rows, PairInv
<1>1. CASE ~PutGraph(h)
  <2>1. Told' /\ UNCHANGED pairVars
    BY <1>t, <1>1, AskKeeps, CreateKeeps, SettleKeeps, SessionKeeps
       DEF SessionStep, Permit, GivesUp, Join, Settle, Create, AskToSettle
  <2> QED BY <1>u, <2>1, InvPartsNext
<1>2. CASE PutGraph(h)
  <2>1. Told'
    BY <1>t, <1>2, SessionKeeps
  <2>2. UNCHANGED <<rows, handler>>
    BY <1>2 DEF PutGraph
  <2>3. session[h].by \in Players /\ session[h].view \in Views
    BY <1>t, <1>2 DEF PutGraph, In, Told, Sits, ChallengeTyped, Sitting
  <2>4. PairInv'
    <3>1. Remembers'
      BY <1>t, <2>2 DEF rows, PairInv, Remembers
    <3> QED BY <1>t, <2>2, <3>1, RowsKept DEF PairInv
  <2>5. CASE UNCHANGED <<cache, stale>>
    BY <1>u, <2>1, <2>2, <2>5, InvPartsNext DEF rows, pairVars
  <2>6. CASE Put(session[h].by, session[h].view)
    <3>1. CacheIsTrue'
      BY <1>t, <2>2, <2>3, <2>6, PutKept
    <3>2. TypeOK'
      BY <1>t, <2>2, <2>3, <2>6 DEF Put, rows, TypeOK
    <3> QED BY <2>1, <2>4, <3>1, <3>2, InvPartsNext
  <2> QED BY <1>2, <2>5, <2>6 DEF PutGraph
<1> QED BY <1>1, <1>2

LEMMA InvKept == Inv /\ [Next]_vars => Inv'
<1> SUFFICES ASSUME Inv, [Next]_vars PROVE Inv'
  OBVIOUS
<1>t. TypeOK /\ PairInv /\ CacheIsTrue /\ Told
  BY InvParts
<1>c. UNCHANGED challengeVars => Told'
  BY <1>t DEF challengeVars, Told, ChallengeTyped, Issued, Sits, Whole, Story
<1>1. ASSUME NEW h \in Handlers, PairStep(h), UNCHANGED challengeVars PROVE Inv'
  BY <1>t, <1>c, <1>1, PairTyped, PairStepKeeps, CacheKept, InvPartsNext
<1>2. ASSUME NEW h \in Handlers, SessionStep(h) PROVE Inv'
  BY <1>2, SessionStepKeeps
<1>p. UNCHANGED <<rows, handler>> => PairInv'
  <2> SUFFICES ASSUME UNCHANGED <<rows, handler>> PROVE PairInv'
    OBVIOUS
  <2>1. Remembers'
    BY <1>t DEF rows, PairInv, Remembers
  <2> QED BY <1>t, <2>1, RowsKept DEF PairInv
<1>3. ASSUME NEW p \in Players, Expire(p), UNCHANGED challengeVars PROVE Inv'
  BY <1>t, <1>c, <1>3, <1>p, ExpireKept, InvPartsNext DEF Expire
<1>u. UNCHANGED pairVars /\ Told' => Inv'
  <2> SUFFICES ASSUME UNCHANGED pairVars, Told' PROVE Inv'
    OBVIOUS
  <2>1. TypeOK' /\ CacheIsTrue'
    BY <1>t DEF pairVars, TypeOK, CacheIsTrue, Wrong, View, Friends, Live, At
  <2> QED BY <1>p, <2>1, InvPartsNext DEF pairVars, rows
<1>4. ASSUME NEW c \in Challenges, Lapse(c) PROVE Inv'
  BY <1>t, <1>u, <1>4, LapseKeeps DEF Lapse
<1>5. ASSUME NEW batch \in SUBSET Challenges, Sweep(batch) PROVE Inv'
  BY <1>t, <1>u, <1>5, SweepKeeps DEF Sweep
<1>6. CASE UNCHANGED vars
  BY <1>c, <1>u, <1>6 DEF vars
<1> QED BY <1>1, <1>2, <1>3, <1>4, <1>5, <1>6 DEF Next

LEMMA Invariance == Spec => []Inv
  BY Initially, InvKept, PTL DEF Spec

-----------------------------------------------------------------------------

\* Every row, cache entry, handler and published story has its type; a request
\* is resolved at most once (its version stays within 0..1).
THEOREM TypeCorrect == Spec => []ChallengeTypeOK
<1>1. Inv => ChallengeTypeOK
  BY DEF Inv
<1> QED BY <1>1, Invariance, PTL

\* FR-4 and its counterpart for challenges: whatever races, an answer commits
\* with the friendship or the match it makes, and is told once.
THEOREM AnswersWhole == Spec => []AnswersAreWhole
<1>1. Inv => AnswersAreWhole
  BY DEF Inv
<1> QED BY <1>1, Invariance, PTL

\* A block leaves no friendship and nothing to answer, however many requests and
\* handlers there are, unless one of the two windows was hit.
THEOREM BlocksKeepApart == Spec => []BlockKeepsApart
<1>1. Inv => BlockKeepsApart
  BY DEF Inv, PairInv
<1> QED BY <1>1, Invariance, PTL

\* No entry of the cache is wrong but one about to be invalidated, or one left
\* to its TTL by a late put or a lost invalidation.
THEOREM CacheCorrect == Spec => []CacheIsTrue
<1>1. Inv => CacheIsTrue
  BY DEF Inv
<1> QED BY <1>1, Invariance, PTL
=============================================================================
