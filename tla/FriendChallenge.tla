---------------------------- MODULE FriendChallenge ----------------------------
(***************************************************************************)
(* FriendPair with the challenges the two send each other beside it: who    *)
(* may play is decided by the cached graph and by the blocks, before the    *)
(* transaction that writes the challenge and, on acceptance, its match.     *)
(***************************************************************************)
EXTENDS FriendPair, Sequences

CONSTANTS Challenges, NoChallenge

ASSUME NoChallengeAssumption == NoChallenge \notin Challenges

VARIABLES
  challenge,  \* challenge[c]: its status, who sent it, whether its TTL is over
  made,       \* the challenges whose match `game` has, by pairing_id
  told,       \* told[c]: what was published of it, in the order of the commits
  session     \* session[h]: where a request about a challenge is, that h serves

challengeVars == <<challenge, made, told, session>>
vars == <<pairVars, challengeVars>>

Settled == {"accepted", "declined", "cancelled", "expired"}
Stages == {"idle", "putting", "viewed", "permitted", "declined", "cancelled"}

Serves(stage, p, c, view) == [at |-> stage, by |-> p, id |-> c, view |-> view]
NoSession == Serves("idle", NoPlayer, NoChallenge, "stranger")

Invitation == [status : Settled \cup {"unissued", "pending"},
               from : Players \cup {NoPlayer}, overdue : BOOLEAN]
Sitting == [at : Stages, by : Players \cup {NoPlayer}, id : Challenges \cup {NoChallenge},
            view : Views]

ChallengeTypeOK ==
  /\ TypeOK
  /\ challenge \in [Challenges -> Invitation]
  /\ made \in SUBSET Challenges
  /\ told \in [Challenges -> Seq(Settled \cup {"pending"})]
  /\ session \in [Handlers -> Sitting]

Init ==
  /\ PairInit
  /\ challenge = [c \in Challenges |->
                    [status |-> "unissued", from |-> NoPlayer, overdue |-> FALSE]]
  /\ made = {}
  /\ told = [c \in Challenges |-> <<>>]
  /\ session = [h \in Handlers |-> NoSession]

In(h, stage) == session[h].at = stage
Moves(h, step) == session' = [session EXCEPT ![h] = step]
Enters(h, stage) == Moves(h, Serves(stage, session[h].by, session[h].id, "stranger"))
Leaves(h) == Moves(h, NoSession)

Open(c) == challenge[c].status = "pending"
Answerable(c) == Open(c) /\ ~challenge[c].overdue

\* The row and its event are written by one transaction; whether an answered
\* challenge is past its TTL matters to nobody.
Write(settles, status) ==
  /\ challenge' = [c \in Challenges |->
       IF c \in settles THEN [status |-> status, from |-> challenge[c].from, overdue |-> FALSE]
       ELSE challenge[c]]
  /\ told' = [c \in Challenges |->
       IF c \in settles THEN Append(told[c], status) ELSE told[c]]

-----------------------------------------------------------------------------

\* friend_ids_among, asked of one player's graph: what is cached, or, when
\* nothing is or Redis does not answer, what the rows say, which is then put.
Hit(h, p, c) ==
  /\ cache[p] = "friend"
  /\ Moves(h, Serves("viewed", p, c, "stranger"))

Miss(h, p, c) ==
  Moves(h, Serves("putting", p, c, View))

\* create and the pages of challenges ask as the player who calls; accept asks
\* for the challenger, of a challenge it found answerable.
Ask(h) ==
  /\ In(h, "idle")
  /\ \/ \E p \in Players : Hit(h, p, NoChallenge) \/ Miss(h, p, NoChallenge)
     \/ \E c \in Challenges : /\ Answerable(c)
                             /\ (Hit(h, challenge[c].from, c) \/ Miss(h, challenge[c].from, c))
  /\ UNCHANGED <<pairVars, challenge, made, told>>

\* put_ids never raises: a write that Redis lost is a future miss.
PutGraph(h) ==
  /\ In(h, "putting")
  /\ IF session[h].view = "friend"
     THEN Enters(h, "viewed")
     ELSE Leaves(h)
  /\ (Put(session[h].by, session[h].view) \/ UNCHANGED <<cache, stale>>)
  /\ UNCHANGED <<rows, handler, challenge, made, told>>

\* _require_friends: the blocks are read last, and never from the cache.
Permit(h) ==
  /\ In(h, "viewed") /\ Enters(h, "permitted")
  /\ blocks = {}
  /\ UNCHANGED <<pairVars, challenge, made, told>>

\* ChallengeNotFriends, the end of a page, or a transaction that fails.
GivesUp(h) ==
  /\ ~In(h, "idle") /\ Leaves(h)
  /\ UNCHANGED <<pairVars, challenge, made, told>>

\* uq_friend_challenge__live_pair: one live challenge, whichever direction.
Create(h, c) ==
  /\ In(h, "permitted") /\ session[h].id = NoChallenge /\ Leaves(h)
  /\ \A d \in Challenges : ~Open(d)
  /\ challenge[c].status = "unissued"
  /\ challenge' = [challenge EXCEPT ![c] =
                     [status |-> "pending", from |-> session[h].by, overdue |-> FALSE]]
  /\ told' = [told EXCEPT ![c] = Append(@, "pending")]
  /\ UNCHANGED <<pairVars, made>>

\* Mutant of StillOpen: the save is guarded by nothing.
StillOpenAlways(c) == TRUE

\* save is guarded on status = 'pending'.
StillOpen(c) == Open(c)

\* The match is created first and commits with the challenge, or neither does;
\* a challenge answered meanwhile is a conflict that rolls the match back.
Join(h) ==
  LET c == session[h].id
  IN  /\ In(h, "permitted") /\ c # NoChallenge /\ Leaves(h)
      /\ StillOpen(c)
      /\ made' = made \cup {c}
      /\ Write({c}, "accepted")
      /\ UNCHANGED pairVars

\* decline by the recipient in time, cancel by the challenger at any time.
AskToSettle(h, c, status) ==
  /\ In(h, "idle")
  /\ \/ status = "declined" /\ Answerable(c)
     \/ status = "cancelled" /\ Open(c)
  /\ Moves(h, Serves(status, NoPlayer, c, "stranger"))
  /\ UNCHANGED <<pairVars, challenge, made, told>>

Settle(h) ==
  /\ session[h].at \in {"declined", "cancelled"} /\ Leaves(h)
  /\ StillOpen(session[h].id)
  /\ Write({session[h].id}, session[h].at)
  /\ UNCHANGED <<pairVars, made>>

\* 24 hours pass.
Lapse(c) ==
  /\ Answerable(c)
  /\ challenge' = [challenge EXCEPT ![c].overdue = TRUE]
  /\ UNCHANGED <<pairVars, made, told, session>>

\* One round of the expiry sweep: rows another transaction has locked are
\* skipped, the claim and the update hold the same locks.
Sweep(batch) ==
  /\ batch # {}
  /\ \A c \in batch : Open(c) /\ challenge[c].overdue
  /\ Write(batch, "expired")
  /\ UNCHANGED <<pairVars, made, session>>

SessionStep(h) ==
  \/ Ask(h)
  \/ \E c \in Challenges : Create(h, c)
  \/ \E c \in Challenges, status \in {"declined", "cancelled"} : AskToSettle(h, c, status)
  \/ PutGraph(h) \/ Permit(h) \/ GivesUp(h) \/ Join(h) \/ Settle(h)

\* A handler serves one request at a time.
Next ==
  \/ \E h \in Handlers : In(h, "idle") /\ PairStep(h) /\ UNCHANGED challengeVars
  \/ \E h \in Handlers : At(h, "idle") /\ SessionStep(h)
  \/ \E p \in Players : Expire(p) /\ UNCHANGED challengeVars
  \/ \E c \in Challenges : Lapse(c)
  \/ \E batch \in SUBSET Challenges : Sweep(batch)

Spec == Init /\ [][Next]_vars

-----------------------------------------------------------------------------

Story(status) ==
  IF status = "unissued" THEN <<>>
  ELSE IF status = "pending" THEN <<"pending">> ELSE <<"pending", status>>

\* However answers, withdrawals, blocks, removals and the sweep race, an answer
\* commits whole or not at all: a friendship for each accepted request (FR-4), a
\* match for each accepted challenge, and of each challenge its creation and
\* then one answer are published ("all four or none", challenge_service.py).
AnswersAreWhole ==
  /\ AcceptedTogether
  /\ \A c \in Challenges :
       /\ c \in made <=> challenge[c].status = "accepted"
       /\ told[c] = Story(challenge[c].status)
=============================================================================
