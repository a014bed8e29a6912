--------------------------- MODULE GameStream_proofs ---------------------------
(***************************************************************************)
(* The stream of moves of GameStream, for a match of any length, any        *)
(* buffer, any number of connections and failures.                          *)
(***************************************************************************)
EXTENDS GameStream, FiniteSetTheorems, WellFoundedInduction, TLAPS

-----------------------------------------------------------------------------
(* Least plies, and the requests of a queue *)

\* A set of naturals that is not empty has a least element.
LEMMA LeastNat ==
  ASSUME NEW T \in SUBSET Nat, T # {}
  PROVE  \E m \in T : \A k \in T : m <= k
<1>1. PICK m \in T : \A k \in T : ~(<<k, m>> \in OpToRel(<, Nat))
  BY NatLessThanWellFounded, WFMin
<1>2. \A k \in T : ~(k < m)
  BY <1>1 DEF OpToRel
<1>3. QED
  BY <1>2

\* The run of consecutive plies after p ends somewhere.
LEMMA ReachType ==
  ASSUME NEW p \in -1..MaxPly, NEW plies \in SUBSET Plies
  PROVE  /\ Reach(p, plies) \in p..MaxPly
         /\ (p + 1)..Reach(p, plies) \subseteq plies
         /\ Reach(p, plies) + 1 \notin plies
<1> DEFINE Holes == {k \in (p + 1)..(MaxPly + 1) : k \notin plies}
<1>1. MaxPly \in Nat
  BY StreamAssumption
<1>2. Holes \in SUBSET Nat /\ MaxPly + 1 \in Holes
  BY <1>1 DEF Plies
<1>3. PICK m \in Holes : \A k \in Holes : m <= k
  BY <1>2, LeastNat
<1>4. /\ m - 1 \in p..MaxPly
      /\ (p + 1)..(m - 1) \subseteq plies
      /\ (m - 1) + 1 \notin plies
  BY <1>1, <1>3
<1>5. QED
  BY <1>4 DEF Reach

Request == [kind : {"join", "resume", "resync", "move"}, known : 0..MaxPly]

\* The requests of a queue, as a set.
Of(queue) == {queue[i] : i \in DOMAIN queue}

LEMMA OfAppend ==
  ASSUME NEW queue \in Seq(Request), NEW r \in Request
  PROVE  Append(queue, r) \in Seq(Request) /\ Of(Append(queue, r)) = Of(queue) \cup {r}
<1>1. Append(queue, r) \in Seq(Request)
  OBVIOUS
<1>2. DOMAIN Append(queue, r) = 1..(Len(queue) + 1) /\ DOMAIN queue = 1..Len(queue)
  OBVIOUS
<1>3. \A i \in 1..Len(queue) : Append(queue, r)[i] = queue[i]
  OBVIOUS
<1>4. Append(queue, r)[Len(queue) + 1] = r /\ Len(queue) \in Nat
  OBVIOUS
<1>5. QED
  BY <1>1, <1>2, <1>3, <1>4 DEF Of

LEMMA HeadAppend ==
  ASSUME NEW queue \in Seq(Request), NEW r \in Request, queue # <<>>
  PROVE  Append(queue, r) # <<>> /\ Head(Append(queue, r)) = Head(queue)
<1>1. Len(queue) \in Nat \ {0} /\ Append(queue, r)[1] = queue[1]
  OBVIOUS
<1>2. Append(queue, r) \in Seq(Request) /\ Append(queue, r) # <<>>
  OBVIOUS
<1>3. QED
  BY <1>1, <1>2

LEMMA OfTail ==
  ASSUME NEW queue \in Seq(Request), queue # <<>>
  PROVE  /\ Head(queue) \in Request
         /\ Tail(queue) \in Seq(Request)
         /\ Of(queue) = {Head(queue)} \cup Of(Tail(queue))
<1>1. Head(queue) \in Request /\ Tail(queue) \in Seq(Request)
  OBVIOUS
<1>2. /\ DOMAIN queue = 1..Len(queue) /\ Len(queue) \in Nat \ {0}
      /\ DOMAIN Tail(queue) = 1..(Len(queue) - 1)
      /\ Head(queue) = queue[1]
  OBVIOUS
<1>3. \A i \in 1..(Len(queue) - 1) : Tail(queue)[i] = queue[i + 1]
  OBVIOUS
<1>4. ASSUME NEW i \in DOMAIN queue, i # 1
      PROVE  i - 1 \in DOMAIN Tail(queue) /\ Tail(queue)[i - 1] = queue[i]
  BY <1>2, <1>3, <1>4
<1>5. Of(queue) \subseteq {Head(queue)} \cup Of(Tail(queue))
  BY ZenonT(60), <1>2, <1>4 DEF Of
<1>6. {Head(queue)} \cup Of(Tail(queue)) \subseteq Of(queue)
  BY <1>2, <1>3 DEF Of
<1>7. QED
  BY <1>1, <1>5, <1>6

LEMMA OfOne == ASSUME NEW r \in Request PROVE <<r>> \in Seq(Request) /\ Of(<<r>>) = {r}
BY DEF Of

LEMMA OfNone == <<>> \in Seq(Request) /\ Of(<<>>) = {}
BY DEF Of

-----------------------------------------------------------------------------
(* The replay buffer *)

LEMMA PliesFinite ==
  ASSUME NEW S \in SUBSET Plies
  PROVE  IsFiniteSet(S) /\ Cardinality(S) \in Nat
<1>1. IsFiniteSet(Plies)
  BY StreamAssumption, FS_Interval DEF Plies
<1>2. IsFiniteSet(S)
  BY <1>1, FS_Subset
<1>3. QED
  BY <1>2, FS_CardinalityType

\* One more than the buffer holds: at most the oldest goes.
LEMMA NewestCases ==
  ASSUME NEW S \in SUBSET Plies, Cardinality(S) <= BufferLength + 1
  PROVE  \/ Newest(S) = S /\ Cardinality(S) <= BufferLength
         \/ \E m \in S : /\ Newest(S) = S \ {m}
                         /\ \A q \in Newest(S) : q > m
                         /\ Cardinality(Newest(S)) = BufferLength
<1> DEFINE Above(p) == {q \in S : q > p}
<1>1. /\ BufferLength \in Nat \ {0}
      /\ \A T \in SUBSET S : IsFiniteSet(T) /\ Cardinality(T) \in Nat
  BY StreamAssumption, PliesFinite
<1>2. ASSUME NEW p \in S  PROVE Cardinality(S \ {p}) = Cardinality(S) - 1
  BY <1>1, FS_RemoveElement
<1>3. ASSUME NEW p \in S, NEW q \in S, p # q
      PROVE  Cardinality(S \ {p, q}) = Cardinality(S) - 2
  <2>1. q \in S \ {p} /\ (S \ {p}) \ {q} = S \ {p, q}
    BY <1>3
  <2>2. Cardinality((S \ {p}) \ {q}) = Cardinality(S \ {p}) - 1
    BY <2>1, <1>1, FS_RemoveElement
  <2>3. QED
    BY <2>1, <2>2, <1>2, <1>1
<1>4. ASSUME NEW p \in S
      PROVE  Above(p) \subseteq S \ {p} /\ Cardinality(Above(p)) <= Cardinality(S) - 1
  <2>1. Above(p) \subseteq S \ {p}
    BY DEF Plies
  <2>2. QED
    BY <2>1, <1>1, <1>2, FS_Subset
<1>5. CASE Newest(S) = S
  <2>1. CASE S = {}
    BY <1>1, <1>5, <2>1, FS_EmptySet
  <2>2. CASE S # {}
    <3>1. PICK m \in S : \A k \in S : m <= k
      BY <2>2, LeastNat DEF Plies
    <3>2. Above(m) = S \ {m}
      <4>1. \A k \in S : k \in Int
        BY DEF Plies
      <4>2. \A k \in S : k > m <=> k # m
        BY <3>1, <4>1
      <4>3. QED
        BY <4>2
    <3>3. Cardinality(Above(m)) < BufferLength
      BY <1>5 DEF Newest
    <3>4. Cardinality(S) - 1 < BufferLength
      BY <1>2, <3>2, <3>3
    <3>5. QED
      BY <1>1, <1>5, <3>4
  <2>3. QED
    BY <2>1, <2>2
<1>6. CASE Newest(S) # S
  <2>1. PICK m \in S : ~(Cardinality(Above(m)) < BufferLength)
    BY <1>6 DEF Newest
  <2>2. Cardinality(Above(m)) = Cardinality(S \ {m}) /\ Cardinality(S) = BufferLength + 1
    BY <2>1, <1>1, <1>2, <1>4
  <2>3. Above(m) = S \ {m}
    BY <2>2, <1>1, <1>4, FS_Subset
  <2>4. ASSUME NEW q \in S \ {m}  PROVE Cardinality(Above(q)) < BufferLength
    <3>1. q > m
      BY <2>3
    <3>2. Above(q) \subseteq S \ {m, q}
      BY <3>1 DEF Plies
    <3>3. Cardinality(S \ {m, q}) = BufferLength - 1
      BY <1>1, <1>3, <2>2
    <3>4. S \ {m, q} \in SUBSET S /\ Above(q) \in SUBSET S
      OBVIOUS
    <3>5. Cardinality(Above(q)) <= Cardinality(S \ {m, q})
      BY <3>2, <3>4, <1>1, FS_Subset
    <3>6. QED
      BY <3>3, <3>4, <3>5, <1>1
  <2>5. Newest(S) = S \ {m}
    BY <2>1, <2>4 DEF Newest
  <2>6. QED
    BY <2>2, <2>3, <2>5, <1>1, <1>2
<1>7. QED
  BY <1>5, <1>6

-----------------------------------------------------------------------------
(* The reducer *)

Client == [phase : Phase, seq : -1..MaxPly, knows : BOOLEAN,
           entering : {"no", "join", "resume"}, moving : BOOLEAN]

Page == [phase : {"active", "resyncing", "other"}, seq : -1..MaxPly, due : BOOLEAN]

LEMMA ShownType ==
  ASSUME NEW c \in Client
  PROVE  LET s == Shown(c) IN
         /\ s \in Page /\ s.seq = c.seq /\ s.due = FALSE
         /\ s.phase = "resyncing" <=> c.phase = "resyncing"
         /\ s.phase = "active" <=> c.phase = "active"
<1> DEFINE ph == IF c.phase \in {"active", "resyncing"} THEN c.phase ELSE "other"
<1>1. Shown(c) = [phase |-> ph, seq |-> c.seq, due |-> FALSE]
  BY DEF Shown
<1>2. /\ ph \in {"active", "resyncing", "other"} /\ c.seq \in -1..MaxPly
      /\ ph = "resyncing" <=> c.phase = "resyncing"
      /\ ph = "active" <=> c.phase = "active"
  BY DEF Client
<1> HIDE DEF ph
<1>3. QED
  BY <1>1, <1>2 DEF Page

\* A frame is known already, or is the next one, or shows a gap.
LEMMA AppliedCases ==
  ASSUME NEW c \in Client, NEW p \in 0..MaxPly, NEW ends \in BOOLEAN
  PROVE  LET d == Applied(c, p, ends) IN
         /\ d \in Client /\ d.entering = c.entering
         /\ \/ p <= c.seq /\ d = c
            \/ p = c.seq + 1 /\ d.seq = p /\ d.phase # "resyncing"
            \/ p > c.seq + 1 /\ d.seq = c.seq /\ d.phase = "resyncing"
<1>1. c.seq \in -1..MaxPly /\ MaxPly \in Nat
  BY StreamAssumption DEF Client
<1>2. CASE p <= c.seq
  BY <1>2 DEF Applied
<1>3. CASE p = c.seq + 1
  <2> DEFINE ph == IF ends THEN "completed" ELSE "active"
             kn == c.knows \/ ends
  <2>1. Applied(c, p, ends) = [c EXCEPT !.phase = ph, !.seq = p, !.knows = kn]
    BY <1>1, <1>3 DEF Applied
  <2>2. ph \in Phase /\ ph # "resyncing" /\ kn \in BOOLEAN /\ p \in -1..MaxPly
    BY DEF Phase
  <2> HIDE DEF ph, kn
  <2>3. QED
    BY <1>3, <2>1, <2>2 DEF Client
<1>4. CASE p > c.seq + 1
  BY <1>1, <1>4 DEF Applied, Client, Phase
<1>5. QED
  BY <1>1, <1>2, <1>3, <1>4

LEMMA SnapshotType ==
  ASSUME NEW c \in Client, NEW p \in 0..MaxPly, NEW ended \in BOOLEAN
  PROVE  LET d == Snapshot(c, p, ended) IN
         d \in Client /\ d.entering = c.entering /\ d.seq = p /\ d.phase # "resyncing"
<1> DEFINE ph == IF ended THEN "completed" ELSE "active"
<1>1. Snapshot(c, p, ended) = [c EXCEPT !.phase = ph, !.seq = p, !.knows = ended]
  BY DEF Snapshot
<1>2. ph \in Phase /\ ph # "resyncing" /\ p \in -1..MaxPly
  BY DEF Phase
<1> HIDE DEF ph
<1>3. QED
  BY <1>1, <1>2 DEF Client

LEMMA ResumedType ==
  ASSUME NEW c \in Client, NEW p \in 0..MaxPly
  PROVE  LET d == Resumed(c, p) IN
         d \in Client /\ d.entering = c.entering /\ d.seq = c.seq
BY DEF Client, Resumed, Phase

\* A replay goes as far as its frames follow on; what lies beyond is a gap.
LEMMA ReplayedType ==
  ASSUME NEW c \in Client, NEW plies \in SUBSET Plies
  PROVE  LET d == Replayed(c, plies) IN
         /\ d \in Client /\ d.entering = c.entering
         /\ d.seq \in c.seq..MaxPly
         /\ d.phase = "resyncing" \/ \A p \in plies : p <= d.seq
<1> DEFINE n == Reach(c.seq, plies)
<1>1. c.seq \in -1..MaxPly /\ n \in c.seq..MaxPly /\ n \in -1..MaxPly /\ MaxPly \in Nat
  BY StreamAssumption, ReachType DEF Client
<1>2. \A p \in plies : p \in Int
  BY DEF Plies
<1> DEFINE ph == IF \E p \in plies : p > n THEN "resyncing"
                 ELSE IF n = c.seq THEN c.phase
                 ELSE IF EndsWith(n) THEN "completed" ELSE "active"
           kn == c.knows \/ (n > c.seq /\ EndsWith(n))
<1>3. Replayed(c, plies) = [c EXCEPT !.seq = n, !.knows = kn, !.phase = ph]
  BY DEF Replayed
<1>4. ph \in Phase /\ kn \in BOOLEAN
  BY DEF Client, Phase
<1>5. ph = "resyncing" \/ \A p \in plies : p <= n
  BY <1>1, <1>2
<1> HIDE DEF n, ph, kn
<1>6. QED
  BY ZenonT(60), <1>1, <1>3, <1>4, <1>5 DEF Client

LEMMA OthersType ==
  ASSUME NEW c \in Client
  PROVE  /\ \A d \in {Completed(c), Rejected(c), Resyncing(c), Disconnected(c)} :
              d \in Client /\ d.seq = c.seq
         /\ \A d \in {Completed(c), Rejected(c), Resyncing(c)} : d.entering = c.entering
         /\ Completed(c).phase # "resyncing" /\ Rejected(c).phase # "resyncing"
         /\ Resyncing(c).phase = "resyncing"
         /\ Disconnected(c).phase # "resyncing" /\ Disconnected(c).entering = "no"
BY DEF Client, Phase, Completed, Rejected, Resyncing, Disconnected

\* What ends a request of the page leaves the board as it is.
LEMMA EndsType ==
  ASSUME NEW c \in Client, NEW queue \in Seq(Request)
  PROVE  /\ Settled(c, queue) \in Client
         /\ Settled(c, queue).seq = c.seq /\ Settled(c, queue).phase = c.phase
         /\ Settled(c, queue).entering = c.entering
         /\ Entered(c) \in Client
         /\ Entered(c).seq = c.seq /\ Entered(c).phase = c.phase
         /\ Entered(c).entering = IF serving.kind = "resume" THEN "no" ELSE c.entering
<1> DEFINE mv == c.moving /\ \E i \in DOMAIN queue : queue[i] = Move
<1>1. Settled(c, queue) = [c EXCEPT !.moving = mv] /\ mv \in BOOLEAN
  BY DEF Settled
<1> HIDE DEF mv
<1>2. QED
  BY <1>1 DEF Entered, Client

-----------------------------------------------------------------------------
(* Types *)

Serving == [kind : {"none", "resume", "resync", "move"}, known : 0..MaxPly,
            snap : 0..MaxPly, over : BOOLEAN]

Stages == [Plies -> {"none", "committed", "buffered", "done"}]

\* TypeOK, by the sets named here.
Typed ==
  /\ ply \in 0..MaxPly /\ over \in {"no", "move", "command", "outside"}
  /\ stage \in Stages /\ pushes \in 0..2
  /\ buffer \in SUBSET Plies /\ Cardinality(buffer) <= BufferLength
  /\ connected \in BOOLEAN /\ member \in BOOLEAN
  /\ inbox \in Seq(Request) /\ serving \in Serving /\ orphan \in BOOLEAN
  /\ client \in Client /\ page \in Page
  /\ stale \in BOOLEAN /\ unseen \in BOOLEAN /\ faults \in 0..MaxFaults

LEMMA TypedIsTypeOK == Typed <=> TypeOK
BY DEF Typed, TypeOK, Request, Serving, Stages, Client, Page

LEMMA RequestsType ==
  /\ Join \in Request /\ Resync \in Request /\ Move \in Request
  /\ \A k \in 0..MaxPly : Resume(k) \in Request
  /\ Idle \in Serving /\ Idle.kind = "none"
BY StreamAssumption DEF Join, Resync, Move, Resume, Request, Idle, Serving

LEMMA InitTyped == Init => Typed
<1>1. Init => client \in Client /\ page \in Page
  <2>1. Init => client \in Client
    BY StreamAssumption DEF Init, Client, Phase
  <2>2. Init => page = Shown(client)
    BY DEF Init
  <2>3. QED
    BY <2>1, <2>2, ShownType
<1>2. Init => stage \in Stages
  BY DEF Init, Stages
<1>3. Init => Cardinality(buffer) <= BufferLength
  BY StreamAssumption, FS_EmptySet DEF Init
<1>4. Init => inbox \in Seq(Request) /\ serving \in Serving
  BY RequestsType, OfNone DEF Init
<1>5. 0 \in 0..MaxPly /\ 0 \in 0..MaxFaults
  BY StreamAssumption
<1>6. Init => /\ ply \in 0..MaxPly /\ faults \in 0..MaxFaults /\ pushes \in 0..2
              /\ buffer \in SUBSET Plies
  BY <1>5 DEF Init
<1>7. Init => /\ connected \in BOOLEAN /\ member \in BOOLEAN /\ orphan \in BOOLEAN
              /\ stale \in BOOLEAN /\ unseen \in BOOLEAN /\ over \in {"no", "move", "command", "outside"}
  BY DEF Init
<1>8. QED
  BY <1>1, <1>2, <1>3, <1>4, <1>6, <1>7 DEF Typed

\* What a dispatch does, and does not.
LEMMA ReduceType ==
  ASSUME Typed, NEW c \in Client, Reduce(c)
  PROVE  client' \in Client /\ client' = c /\ page' \in Page /\ page' = page /\ unseen' \in BOOLEAN
<1>1. unseen' \in BOOLEAN
  BY DEF Reduce
<1>2. QED
  BY <1>1 DEF Reduce, Typed

LEMMA CommitTyped ==
  ASSUME Typed, NEW ends \in BOOLEAN, Commit(ends)
  PROVE  /\ ply' \in 0..MaxPly /\ ply' = ply + 1 /\ over' \in {"no", "move", "command", "outside"}
         /\ stage' \in Stages /\ pushes' = pushes /\ buffer' = buffer
BY StreamAssumption DEF Typed, Commit, Stages, Plies

LEMMA NewestTyped ==
  ASSUME Typed, NEW p \in Plies
  PROVE  /\ Newest(buffer \cup {p}) \in SUBSET Plies
         /\ Cardinality(Newest(buffer \cup {p})) <= BufferLength
<1>0. IsFiniteSet(buffer) /\ Cardinality(buffer) \in Nat /\ Cardinality(buffer) <= BufferLength
  BY PliesFinite DEF Typed
<1>1. Cardinality(buffer \cup {p}) = IF p \in buffer THEN Cardinality(buffer)
                                      ELSE Cardinality(buffer) + 1
  BY <1>0, FS_AddElement
<1>2. BufferLength \in Nat /\ buffer \cup {p} \in SUBSET Plies
  BY StreamAssumption DEF Typed
<1>3. Cardinality(buffer \cup {p}) <= BufferLength + 1
  BY <1>0, <1>1, <1>2
<1> DEFINE S == buffer \cup {p}
<1>4. S \in SUBSET Plies /\ Cardinality(S) <= BufferLength + 1
  BY <1>2, <1>3
<1> HIDE DEF S
<1>5. \/ Newest(S) = S /\ Cardinality(S) <= BufferLength
      \/ \E m \in S : Newest(S) = S \ {m} /\ Cardinality(Newest(S)) = BufferLength
  BY <1>4, NewestCases
<1>6. Newest(S) \in SUBSET Plies /\ Cardinality(Newest(S)) <= BufferLength
  BY <1>2, <1>4, <1>5
<1>7. QED
  BY <1>6 DEF S

LEMMA ClosedTyped ==
  ASSUME Typed, Closed
  PROVE  /\ connected' = FALSE /\ member' = FALSE /\ inbox' \in Seq(Request)
         /\ serving' \in Serving /\ client' \in Client /\ page' \in Page
         /\ stale' = FALSE /\ unseen' = FALSE
         /\ inbox' = <<>> /\ page' = Shown(client') /\ client'.entering = "no"
<1> DEFINE settled == [client EXCEPT !.moving = FALSE]
<1>1. settled \in Client
  BY DEF Typed, Client
<1>2. client' \in {Disconnected(settled), Disconnected(Resyncing(settled)),
                   Resyncing(Disconnected(settled))}
  BY DEF Closed
<1> HIDE DEF settled
<1>3. Resyncing(settled) \in Client /\ Disconnected(settled) \in Client
      /\ Disconnected(settled).entering = "no"
  BY <1>1, OthersType
<1>4. client' \in Client /\ client'.entering = "no"
  BY <1>2, <1>3, OthersType
<1>5. page' = Shown(client') /\ page' \in Page
  BY <1>4, ShownType DEF Closed
<1>6. QED
  BY <1>4, <1>5, RequestsType, OfNone DEF Closed

LEMMA TypedServer ==
  ASSUME Typed,
         \/ OpponentMoves \/ OrphanMoves \/ Finish \/ LoseBuffer \/ LoseRoom
         \/ \E p \in Plies : Buffer(p) \/ BufferFails(p) \/ DeliveryFails(p)
  PROVE  Typed'
<1>1. CASE OpponentMoves
  BY <1>1, CommitTyped DEF OpponentMoves, Typed, linkVars, clientVars
<1>2. CASE OrphanMoves
  BY <1>2, CommitTyped DEF OrphanMoves, Typed, clientVars
<1>3. CASE Finish
  BY <1>3 DEF Finish, Typed, linkVars, clientVars
<1>4. ASSUME NEW p \in Plies, Buffer(p)  PROVE Typed'
  <2>1. stage' \in Stages
    BY <1>4 DEF Buffer, Typed, Stages
  <2>2. buffer' \in SUBSET Plies /\ Cardinality(buffer') <= BufferLength
    BY <1>4, NewestTyped DEF Buffer
  <2>3. QED
    BY <1>4, <2>1, <2>2 DEF Buffer, Typed, linkVars, clientVars
<1>5. ASSUME Fault  PROVE faults' \in 0..MaxFaults
  BY <1>5, StreamAssumption DEF Fault, Typed
<1>6. ASSUME NEW p \in Plies, BufferFails(p) \/ DeliveryFails(p)  PROVE Typed'
  <2>1. stage' \in Stages
    BY <1>6 DEF BufferFails, DeliveryFails, Typed, Stages
  <2>2. QED
    BY <1>5, <1>6, <2>1 DEF BufferFails, DeliveryFails, Typed, linkVars, clientVars
<1>7. CASE LoseBuffer
  <2>1. Cardinality({}) <= BufferLength
    BY FS_EmptySet, StreamAssumption
  <2>2. QED
    BY <1>5, <1>7, <2>1 DEF LoseBuffer, Typed, linkVars, clientVars
<1>8. CASE LoseRoom
  BY <1>5, <1>8 DEF LoseRoom, Typed, serverVars, clientVars
<1>9. QED
  BY <1>1, <1>2, <1>3, <1>4, <1>6, <1>7, <1>8

LEMMA TypedDeliver ==
  ASSUME Typed, NEW p \in Plies, Deliver(p)
  PROVE  Typed'
<1>1. stage' \in Stages
  BY DEF Deliver, Typed, Stages
<1>2. Applied(client, p, EndsWith(p)) \in Client
  <2>1. EndsWith(p) \in BOOLEAN /\ p \in 0..MaxPly
    BY StreamAssumption DEF EndsWith, Plies
  <2>2. QED
    BY <2>1, AppliedCases DEF Typed
<1>3. client' \in Client /\ page' \in Page /\ unseen' \in BOOLEAN
  BY <1>2, ReduceType DEF Deliver, Typed, clientVars
<1>4. QED
  BY <1>1, <1>3 DEF Deliver, Typed, linkVars

LEMMA TypedAnnounce == Typed /\ (Announce \/ AnnounceFails) => Typed'
<1> SUFFICES ASSUME Typed, Announce \/ AnnounceFails  PROVE Typed'
  OBVIOUS
<1>1. pushes' \in 0..2
  BY DEF Announce, AnnounceFails, Pushes, Typed
<1>2. client' \in Client /\ page' \in Page /\ unseen' \in BOOLEAN
  <2>1. Completed(client) \in Client
    BY OthersType DEF Typed
  <2>2. QED
    BY <2>1, ReduceType DEF Announce, AnnounceFails, Typed, clientVars
<1>3. faults' \in 0..MaxFaults
  BY StreamAssumption DEF Announce, AnnounceFails, Fault, Typed
<1>4. QED
  BY <1>1, <1>2, <1>3 DEF Announce, AnnounceFails, Typed, linkVars

LEMMA TypedConnection ==
  ASSUME Typed, Connect \/ Drop \/ \E p \in Plies : BroadcastFails(p)
  PROVE  Typed'
<1>1. CASE Connect
  <2>1. inbox' \in Seq(Request) /\ serving' \in Serving
    BY <1>1, OfOne, RequestsType DEF Connect
  <2>2. client' \in Client
    BY <1>1 DEF Connect, Typed, Client, Phase
  <2>3. QED
    BY <1>1, <2>1, <2>2 DEF Connect, Typed, serverVars
<1>2. CASE Drop
  <2>1. orphan' \in BOOLEAN
    BY <1>2 DEF Drop, Typed
  <2>2. QED
    BY <1>2, <2>1, ClosedTyped DEF Drop, Typed, serverVars
<1>3. ASSUME NEW p \in Plies, BroadcastFails(p)  PROVE Typed'
  <2>1. stage' \in Stages /\ faults' \in 0..MaxFaults
    BY <1>3, StreamAssumption DEF BroadcastFails, Fault, Typed, Stages
  <2>2. QED
    BY <1>3, <2>1, ClosedTyped DEF BroadcastFails, Typed, clientVars
<1>4. QED
  BY <1>1, <1>2, <1>3

\* A render, and the effect that follows it.
LEMMA TypedRender ==
  ASSUME Typed, Render \/ Resynchronise
  PROVE  Typed'
<1>1. CASE Render
  <2>1. Shown(client) \in Page /\ Asks(client) \in BOOLEAN
    BY ShownType DEF Typed, Asks
  <2>2. page' \in Page
    <3> DEFINE asks == Asks(client)
    <3>1. page' = [Shown(client) EXCEPT !.due = asks] /\ asks \in BOOLEAN
      BY <1>1, <2>1 DEF Render
    <3> HIDE DEF asks
    <3>2. QED
      BY <2>1, <3>1 DEF Page
  <2>3. QED
    BY <1>1, <2>2 DEF Render, Typed, serverVars, linkVars
<1>2. CASE Resynchronise
  <2>1. client' \in Client
    BY <1>2, OthersType DEF Resynchronise, Typed
  <2>2. inbox' \in Seq(Request)
    BY <1>2, OfAppend, RequestsType DEF Resynchronise, Typed
  <2>3. page' \in Page
    BY <1>2 DEF Resynchronise, Typed, Page
  <2>4. QED
    BY <1>2, <2>1, <2>2, <2>3 DEF Resynchronise, Typed, serverVars
<1>3. QED
  BY <1>1, <1>2

\* What is taken from the queue.
LEMMA Taken ==
  ASSUME Typed, NEW kind \in {"join", "resume", "resync", "move"}, Takes(kind)
  PROVE  /\ Head(inbox) \in Request /\ Head(inbox).kind = kind
         /\ Tail(inbox) \in Seq(Request)
         /\ Of(inbox) = {Head(inbox)} \cup Of(Tail(inbox))
         /\ serving = Idle /\ connected
BY OfTail DEF Typed, Takes

LEMMA TypedRoom ==
  ASSUME Typed, JoinRoom \/ RefuseJoin \/ BeginResume
  PROVE  Typed'
<1>1. CASE JoinRoom
  <2> DEFINE known == IF page.seq < 0 THEN 0 ELSE page.seq
  <2>1. known \in 0..MaxPly
    BY StreamAssumption DEF Typed, Page
  <2>2. Resume(known) \in Request
    BY <2>1, RequestsType
  <2>3. Tail(inbox) \in Seq(Request)
    BY <1>1, Taken DEF JoinRoom
  <2>4. Append(Tail(inbox), Resume(known)) \in Seq(Request)
    BY <2>2, <2>3, OfAppend
  <2>5. [client EXCEPT !.entering = "resume"] \in Client
    BY DEF Typed, Client
  <2>6. inbox' \in Seq(Request) /\ client' \in Client
    BY <1>1, <2>3, <2>4, <2>5 DEF JoinRoom, Typed
  <2>7. QED
    BY <1>1, <2>6 DEF JoinRoom, Typed, serverVars
<1>2. CASE RefuseJoin
  <2>1. inbox' \in Seq(Request)
    BY <1>2, Taken DEF RefuseJoin
  <2>2. [client EXCEPT !.phase = "unavailable", !.entering = "no"] \in Client
    BY DEF Typed, Client, Phase
  <2>3. client' \in Client /\ page' \in Page /\ unseen' \in BOOLEAN
    BY <1>2, <2>2, ReduceType DEF RefuseJoin
  <2>4. QED
    BY <1>2, <2>1, <2>3 DEF RefuseJoin, Typed, serverVars
<1>3. CASE BeginResume
  <2>1. Head(inbox) \in Request /\ Tail(inbox) \in Seq(Request)
        /\ Head(inbox).kind \in {"resume", "resync"}
    BY <1>3, Taken DEF BeginResume
  <2>2. serving' \in Serving
    BY <1>3, <2>1 DEF BeginResume, Typed, Request, Serving
  <2>3. QED
    BY <1>3, <2>1, <2>2 DEF BeginResume, Typed, serverVars, clientVars
<1>4. QED
  BY <1>1, <1>2, <1>3

LEMMA ServingParts ==
  ASSUME Typed
  PROVE  /\ serving.kind \in {"none", "resume", "resync", "move"}
         /\ serving.known \in 0..MaxPly /\ serving.snap \in 0..MaxPly
         /\ serving.over \in BOOLEAN /\ client \in Client
BY DEF Typed, Serving

\* The four answers, and what each makes of the client.
LEMMA AnswerKinds ==
  ASSUME Typed
  PROVE  /\ Snapshot(client, serving.snap, serving.over) \in Client
         /\ Resumed(client, serving.snap) \in Client
         /\ Replayed(client, Since) \in Client /\ Since \in SUBSET Plies
         /\ Resyncing(client) \in Client
<1>1. Since \in SUBSET Plies
  BY DEF Since, Typed
<1>2. QED
  BY <1>1, ServingParts, SnapshotType, ResumedType, ReplayedType, OthersType

\* A whole snapshot, and the end of entering.
LEMMA Snapshots ==
  ASSUME Typed, AnswerSnapshot
  PROVE  /\ client' \in Client /\ client'.seq = serving.snap
         /\ client'.phase # "resyncing"
         /\ client'.entering = IF serving.kind = "resume" THEN "no" ELSE client.entering
         /\ page' = page /\ unseen' = FALSE
<1> DEFINE c == Snapshot(client, serving.snap, serving.over)
<1>1. c \in Client /\ c.entering = client.entering /\ c.seq = serving.snap
      /\ c.phase # "resyncing"
  BY ServingParts, SnapshotType
<1>2. client' = Entered(c) /\ page' = page /\ unseen' = FALSE
  BY DEF AnswerSnapshot
<1> HIDE DEF c
<1>3. QED
  BY <1>1, <1>2, EndsType, OfNone

\* Any other answer: a dispatch, and the end of entering.
LEMMA Answers ==
  ASSUME Typed, NEW c \in Client, Answer(c)
  PROVE  /\ client' = Entered(c) /\ client' \in Client
         /\ client'.seq = c.seq /\ client'.phase = c.phase
         /\ client'.entering = IF serving.kind = "resume" THEN "no" ELSE c.entering
         /\ page' = page /\ unseen' \in BOOLEAN
BY EndsType, OfNone, ReduceType DEF Answer

LEMMA TypedAnswer ==
  ASSUME Typed, AnswerSnapshot \/ AnswerCurrent \/ AnswerEvents \/ AnswerResync
  PROVE  Typed'
<1>1. Rejoined
  BY DEF AnswerSnapshot, AnswerCurrent, AnswerEvents, AnswerResync, Answer
<1>2. /\ UNCHANGED <<serverVars, connected, inbox, orphan>>
      /\ serving' \in Serving /\ member' \in BOOLEAN
  BY <1>1, RequestsType DEF Rejoined, Typed
<1>3. faults' \in 0..MaxFaults
  BY StreamAssumption
    DEF Typed, AnswerSnapshot, AnswerCurrent, AnswerEvents, AnswerResync, Fault
<1>4. client' \in Client /\ page' \in Page /\ unseen' \in BOOLEAN /\ stale' \in BOOLEAN
  <2>1. CASE AnswerSnapshot
    <3>1. stale' \in BOOLEAN
      BY <2>1 DEF AnswerSnapshot
    <3>2. QED
      BY <2>1, <3>1, Snapshots DEF Typed
  <2>2. CASE ~AnswerSnapshot
    <3>1. PICK c \in Client : Answer(c)
      BY <2>2, AnswerKinds DEF AnswerCurrent, AnswerEvents, AnswerResync
    <3>2. stale' = stale
      BY <2>2 DEF AnswerCurrent, AnswerEvents, AnswerResync
    <3>3. QED
      BY <3>1, <3>2, Answers DEF Typed
  <2>3. QED
    BY <2>1, <2>2
<1>5. QED
  BY <1>2, <1>3, <1>4 DEF Typed, serverVars

\* The move of the player, answered: a dispatch that settles `submit`.
LEMMA MoveAnswered ==
  ASSUME Typed, AnswerMove
  PROVE  LET c == Settled(Applied(client, serving.snap, EndsWith(serving.snap)), inbox)
         IN  c \in Client /\ Reduce(c) /\ serving' = Idle
<1>1. Applied(client, serving.snap, EndsWith(serving.snap)) \in Client
  <2>1. EndsWith(serving.snap) \in BOOLEAN
    BY DEF EndsWith
  <2>2. QED
    BY <2>1, ServingParts, AppliedCases
<1>2. QED
  BY <1>1, EndsType DEF AnswerMove, Typed

LEMMA MoveRejected ==
  ASSUME Typed, RejectMove
  PROVE  LET c == Settled(Rejected(client), Tail(inbox))
         IN  /\ c \in Client /\ Reduce(c)
             /\ c.seq = client.seq /\ c.entering = client.entering /\ c.phase # "resyncing"
             /\ inbox' = Tail(inbox) /\ Tail(inbox) \in Seq(Request)
<1>1. /\ Rejected(client) \in Client /\ Rejected(client).seq = client.seq
      /\ Rejected(client).entering = client.entering /\ Rejected(client).phase # "resyncing"
  BY OthersType DEF Typed
<1>2. Tail(inbox) \in Seq(Request) /\ inbox' = Tail(inbox)
  BY Taken DEF RejectMove
<1>3. QED
  BY <1>1, <1>2, EndsType DEF RejectMove

LEMMA TypedMoves ==
  ASSUME Typed, \/ Submit \/ AcceptMove \/ RejectMove \/ AnswerMove
                \/ EnterTimesOut \/ SubmitTimesOut
  PROVE  Typed'
<1>1. CASE Submit
  <2>1. client' \in Client
    BY <1>1 DEF Submit, Typed, Client, Phase
  <2>2. inbox' \in Seq(Request)
    BY <1>1, OfAppend, RequestsType DEF Submit, Typed
  <2>3. page' \in Page
    BY <1>1, <2>1, ShownType DEF Submit
  <2>4. unseen' \in BOOLEAN
    BY <1>1 DEF Submit
  <2>5. QED
    BY <1>1, <2>1, <2>2, <2>3, <2>4 DEF Submit, Typed, serverVars
<1>2. CASE AcceptMove
  <2>1. PICK ends \in BOOLEAN : Commit(ends)
    BY <1>2 DEF AcceptMove
  <2>2. serving' \in Serving
    BY <1>2, <2>1, CommitTyped, RequestsType DEF AcceptMove, Serving
  <2>3. inbox' \in Seq(Request)
    BY <1>2, Taken DEF AcceptMove
  <2>4. QED
    BY <1>2, <2>1, <2>2, <2>3, CommitTyped DEF AcceptMove, Typed, clientVars
<1>3. CASE RejectMove
  <2>1. client' \in Client /\ page' \in Page /\ unseen' \in BOOLEAN /\ inbox' \in Seq(Request)
    BY <1>3, MoveRejected, ReduceType
  <2>2. QED
    BY <1>3, <2>1 DEF RejectMove, Typed, serverVars
<1>4. CASE AnswerMove
  <2>1. client' \in Client /\ page' \in Page /\ unseen' \in BOOLEAN
    BY <1>4, MoveAnswered, ReduceType
  <2>2. QED
    BY <1>4, <2>1, RequestsType DEF AnswerMove, Typed, serverVars
<1>5. CASE EnterTimesOut
  <2>1. client' \in Client /\ page' \in Page /\ unseen' \in BOOLEAN
    BY <1>5, OthersType, ReduceType DEF EnterTimesOut, Typed
  <2>2. QED
    BY <1>5, <2>1, StreamAssumption DEF EnterTimesOut, Fault, Typed, serverVars, linkVars
<1>6. CASE SubmitTimesOut
  <2>1. [Resyncing(client) EXCEPT !.moving = FALSE] \in Client
    BY OthersType DEF Typed, Client
  <2>2. client' \in Client /\ page' \in Page /\ unseen' \in BOOLEAN
    BY <1>6, <2>1, ReduceType DEF SubmitTimesOut
  <2>3. QED
    BY <1>6, <2>2, StreamAssumption DEF SubmitTimesOut, Fault, Typed, serverVars, linkVars
<1>7. QED
  BY <1>1, <1>2, <1>3, <1>4, <1>5, <1>6

LEMMA TypedStep ==
  ASSUME Typed, [Next]_vars
  PROVE  Typed'
<1>1. CASE UNCHANGED vars
  BY <1>1 DEF vars, serverVars, linkVars, clientVars, Typed
<1>2. CASE Next
  BY <1>2, TypedServer, TypedDeliver, TypedAnnounce, TypedConnection, TypedRoom, TypedRender,
     TypedAnswer, TypedMoves DEF Next, Serve
<1>3. QED
  BY <1>1, <1>2

\* Every variable keeps its type, and the buffer its length, whatever is lost.
THEOREM TypeCorrect == Spec => []TypeOK
<1>1. Init => Typed
  BY InitTyped
<1>2. Typed /\ [Next]_vars => Typed'
  BY TypedStep
<1>3. Typed => TypeOK
  BY TypedIsTypeOK
<1>4. QED
  BY <1>1, <1>2, <1>3, PTL DEF Spec

-----------------------------------------------------------------------------
(* Whoever resyncs has asked, or will *)

Anew == {Resume(0), Resync}

LEMMA AnewKinds ==
  \A r \in Anew : r.kind \in {"resume", "resync"} /\ r.known = 0
BY DEF Anew, Resume, Resync

\* A request for the whole is queued, or being served.
Asking == (Resuming /\ serving.known = 0) \/ AskedAnew

LEMMA QueuedIsOf == Queued = Of(inbox) /\ Queued' = Of(inbox')
BY DEF Queued, Of

\* No request for the whole is lost while others are taken.
LEMMA AskedStays ==
  ASSUME AskedAnew, \A r \in Queued : r \in Queued' \/ r.kind \in {"join", "move"}
  PROVE  AskedAnew'
<1>1. PICK r \in Queued : r \in Anew
  BY DEF AskedAnew, Anew
<1>2. r \in Queued'
  BY <1>1, AnewKinds
<1>3. QED
  BY <1>1, <1>2 DEF AskedAnew, Anew, Resume, Resync

LEMMA AskingStays ==
  ASSUME Asking, \A r \in Queued : r \in Queued' \/ r.kind \in {"join", "move"},
         Resuming /\ serving.known = 0 => serving' = serving
  PROVE  Asking'
<1>1. CASE Resuming /\ serving.known = 0
  BY <1>1 DEF Asking, Resuming
<1>2. CASE AskedAnew
  BY <1>2, AskedStays DEF Asking
<1>3. QED
  BY <1>1, <1>2 DEF Asking

\* Steps that leave the board and the page alone.
LEMMA AskedUnchanged ==
  ASSUME ResyncIsAsked, UNCHANGED clientVars, connected' => connected, Asking => Asking'
  PROVE  ResyncIsAsked'
<1>1. UNCHANGED <<client, page, unseen>>
  BY DEF clientVars
<1>2. WillAsk' <=> WillAsk
  BY <1>1 DEF WillAsk, Asks
<1>3. QED
  BY <1>1, <1>2 DEF ResyncIsAsked, Asking

\* A dispatch to `resyncing` is rendered, and asked for, or it is not seen.
LEMMA ReduceAsked ==
  ASSUME ResyncIsAsked, NEW c, Reduce(c), connected' => connected, Asking => Asking'
  PROVE  ResyncIsAsked'
<1> SUFFICES ASSUME connected', client'.phase = "resyncing", ~unseen'
             PROVE  Asking' \/ WillAsk'
  BY DEF ResyncIsAsked, Asking
<1>1. client' = c /\ page' = page /\ ~unseen /\ ~Hides(c) /\ c.phase = "resyncing"
  BY DEF Reduce
<1>2. CASE page.phase # "resyncing"
  BY <1>1, <1>2 DEF WillAsk, Asks
<1>3. CASE page.phase = "resyncing"
  <2>1. client.phase = "resyncing"
    BY <1>1, <1>3 DEF Hides
  <2>2. Asking \/ WillAsk
    BY <1>1, <2>1 DEF ResyncIsAsked, Asking
  <2>3. WillAsk => page.due
    BY <1>3 DEF WillAsk, Asks
  <2>4. QED
    BY <1>1, <2>2, <2>3 DEF WillAsk
<1>4. QED
  BY <1>2, <1>3

LEMMA AskedServer ==
  ASSUME ResyncIsAsked,
         \/ OpponentMoves \/ OrphanMoves \/ Finish \/ LoseBuffer \/ LoseRoom \/ AnnounceFails
         \/ \E p \in Plies : Buffer(p) \/ BufferFails(p) \/ DeliveryFails(p)
  PROVE  ResyncIsAsked'
<1>1. UNCHANGED <<connected, inbox, serving>> /\ UNCHANGED clientVars
  BY DEF OpponentMoves, OrphanMoves, Finish, LoseBuffer, LoseRoom, AnnounceFails, Buffer,
     BufferFails, DeliveryFails, linkVars
<1>2. Asking' <=> Asking
  BY <1>1 DEF Asking, AskedAnew, Queued, Resuming, Resume, Resync
<1>3. QED
  BY <1>1, <1>2, AskedUnchanged

LEMMA AskedDispatch ==
  ASSUME ResyncIsAsked,
         \/ Announce \/ EnterTimesOut \/ SubmitTimesOut \/ \E p \in Plies : Deliver(p)
  PROVE  ResyncIsAsked'
<1>1. UNCHANGED <<connected, inbox, serving>> /\ (UNCHANGED clientVars \/ \E c : Reduce(c))
  BY DEF Announce, EnterTimesOut, SubmitTimesOut, Deliver, linkVars
<1>2. Asking' <=> Asking
  BY <1>1 DEF Asking, AskedAnew, Queued, Resuming, Resume, Resync
<1>3. CASE UNCHANGED clientVars
  BY <1>1, <1>2, <1>3, AskedUnchanged
<1>4. ASSUME NEW c, Reduce(c)  PROVE ResyncIsAsked'
  BY <1>1, <1>2, <1>4, ReduceAsked
<1>5. QED
  BY <1>1, <1>3, <1>4

LEMMA AskedConnection ==
  ASSUME Typed, ResyncIsAsked, Connect \/ Drop \/ \E p \in Plies : BroadcastFails(p)
  PROVE  ResyncIsAsked'
<1>1. CASE Connect
  <2>1. client'.phase = "joining"
    BY <1>1 DEF Connect, Typed, Client
  <2>2. QED
    BY <2>1 DEF ResyncIsAsked
<1>2. ASSUME Closed  PROVE ResyncIsAsked'
  BY <1>2 DEF Closed, ResyncIsAsked
<1>3. CASE Drop
  BY <1>2, <1>3 DEF Drop
<1>4. ASSUME NEW p \in Plies, BroadcastFails(p)  PROVE ResyncIsAsked'
  <2>1. Closed \/ (UNCHANGED <<connected, inbox, serving>> /\ UNCHANGED clientVars)
    BY <1>4 DEF BroadcastFails
  <2>2. CASE Closed
    BY <1>2, <2>2
  <2>3. CASE UNCHANGED <<connected, inbox, serving>> /\ UNCHANGED clientVars
    <3>1. Asking' <=> Asking
      BY <2>3 DEF Asking, AskedAnew, Queued, Resuming, Resume, Resync
    <3>2. QED
      BY <2>3, <3>1, AskedUnchanged
  <2>4. QED
    BY <2>1, <2>2, <2>3
<1>5. QED
  BY <1>1, <1>3, <1>4

\* A render finds the phase new, and the effect is due; or it had found it
\* before, and the request is on its way.
LEMMA AskedRender ==
  ASSUME Typed, ResyncIsAsked, Render \/ Resynchronise
  PROVE  ResyncIsAsked'
<1>1. CASE Render
  <2>1. /\ UNCHANGED <<connected, inbox, serving, client, unseen>> /\ ~page.due
        /\ page' = [Shown(client) EXCEPT !.due = Asks(client)]
    BY <1>1 DEF Render, serverVars, linkVars
  <2>2. page'.due <=> Asks(client)
    BY <2>1 DEF Shown
  <2>3. WillAsk => WillAsk'
    BY <2>1, <2>2 DEF WillAsk
  <2>4. Asking' <=> Asking
    BY <2>1 DEF Asking, AskedAnew, Queued, Resuming, Resume, Resync
  <2>5. QED
    BY <2>1, <2>3, <2>4 DEF ResyncIsAsked, Asking
<1>2. CASE Resynchronise
  <2>1. inbox' = Append(inbox, Resync)
    BY <1>2 DEF Resynchronise
  <2>2. Resync \in Queued'
    BY <2>1, OfAppend, RequestsType, QueuedIsOf DEF Typed
  <2>3. AskedAnew'
    BY <2>2 DEF AskedAnew, Resync
  <2>4. QED
    BY <2>3 DEF ResyncIsAsked
<1>3. QED
  BY <1>1, <1>2

LEMMA AskedRoom ==
  ASSUME Typed, ResyncIsAsked, JoinRoom \/ RefuseJoin \/ BeginResume
  PROVE  ResyncIsAsked'
<1>1. ASSUME Takes("join"), inbox' = Tail(inbox) \/ \E r \in Request : inbox' = Append(Tail(inbox), r)
      PROVE  \A r \in Queued : r \in Queued' \/ r.kind \in {"join", "move"}
  <2>1. Head(inbox).kind = "join" /\ Of(inbox) = {Head(inbox)} \cup Of(Tail(inbox))
        /\ Tail(inbox) \in Seq(Request)
    BY <1>1, Taken
  <2>2. Of(Tail(inbox)) \subseteq Of(inbox')
    BY <1>1, <2>1, OfAppend
  <2>3. QED
    BY <2>1, <2>2, QueuedIsOf
<1>2. CASE JoinRoom
  <2> DEFINE known == IF page.seq < 0 THEN 0 ELSE page.seq
  <2>1. Resume(known) \in Request
    BY RequestsType, StreamAssumption DEF Typed, Page
  <2>2. /\ Takes("join") /\ UNCHANGED <<connected, serving, page, unseen>>
        /\ inbox' = Tail(inbox) \/ inbox' = Append(Tail(inbox), Resume(known))
    BY <1>2 DEF JoinRoom
  <2>3. client'.phase = client.phase
    BY <1>2 DEF JoinRoom, Typed, Client
  <2> HIDE DEF known
  <2>4. Asking => Asking'
    BY <1>1, <2>1, <2>2, AskingStays
  <2>5. WillAsk => WillAsk'
    BY <2>2, <2>3 DEF WillAsk, Asks
  <2>6. QED
    BY <2>2, <2>3, <2>4, <2>5 DEF ResyncIsAsked, Asking
<1>3. CASE RefuseJoin
  <2>1. client' = [client EXCEPT !.phase = "unavailable", !.entering = "no"]
    BY <1>3 DEF RefuseJoin, Reduce
  <2>2. client'.phase = "unavailable"
    BY <2>1 DEF Typed, Client
  <2>3. QED
    BY <2>2 DEF ResyncIsAsked
<1>4. CASE BeginResume
  <2>1. /\ Of(inbox) = {Head(inbox)} \cup Of(Tail(inbox))
        /\ Head(inbox).kind \in {"resume", "resync"}
    BY <1>4, Taken DEF BeginResume
  <2>2. /\ serving'.kind = Head(inbox).kind /\ serving'.known = Head(inbox).known
        /\ inbox' = Tail(inbox) /\ UNCHANGED clientVars /\ connected' = connected
        /\ serving = Idle
    BY <1>4 DEF BeginResume, Takes
  <2>3. ~Resuming /\ Resuming'
    BY <2>1, <2>2, RequestsType DEF Resuming
  <2>4. ASSUME AskedAnew  PROVE Asking'
    <3>1. PICK r \in Queued : r \in Anew
      BY <2>4 DEF AskedAnew, Anew
    <3>2. CASE r = Head(inbox)
      BY <2>2, <2>3, <3>1, <3>2, AnewKinds DEF Asking
    <3>3. CASE r # Head(inbox)
      <4>1. r \in Queued'
        BY <2>1, <2>2, <3>1, <3>3, QueuedIsOf
      <4>2. QED
        BY <3>1, <4>1 DEF Asking, AskedAnew, Anew, Resume, Resync
    <3>4. QED
      BY <3>2, <3>3
  <2>5. QED
    BY <2>2, <2>3, <2>4, AskedUnchanged DEF Asking
<1>5. QED
  BY <1>2, <1>3, <1>4

\* An answer that is not a snapshot is no answer to a request for the whole.
LEMMA AskedAnswer ==
  ASSUME Typed, ResyncIsAsked, AnswerSnapshot \/ AnswerCurrent \/ AnswerEvents \/ AnswerResync
  PROVE  ResyncIsAsked'
<1>1. CASE AnswerSnapshot
  BY <1>1, Snapshots DEF ResyncIsAsked
<1>2. CASE AnswerCurrent \/ AnswerEvents \/ AnswerResync
  <2>1. PICK c \in Client : Answer(c)
    BY <1>2, AnswerKinds DEF AnswerCurrent, AnswerEvents, AnswerResync
  <2>2. serving.known # 0 /\ UNCHANGED <<connected, inbox>> /\ Reduce(Entered(c))
    BY <1>2, <2>1 DEF AnswerCurrent, AnswerEvents, AnswerResync, Missed, Answer, Rejoined
  <2>3. Queued' = Queued
    BY <2>2 DEF Queued
  <2>4. Asking => Asking'
    BY <2>2, <2>3, AskingStays
  <2>5. QED
    BY <2>2, <2>4, ReduceAsked
<1>3. QED
  BY <1>1, <1>2

LEMMA AskedMoves ==
  ASSUME Typed, ResyncIsAsked, Submit \/ AcceptMove \/ RejectMove \/ AnswerMove
  PROVE  ResyncIsAsked'
<1>1. CASE Submit
  <2>1. client'.phase = "submitting"
    BY <1>1 DEF Submit, Typed, Client
  <2>2. QED
    BY <2>1 DEF ResyncIsAsked
<1>2. CASE AcceptMove
  <2>1. Takes("move") /\ inbox' = Tail(inbox) /\ UNCHANGED clientVars /\ connected' = connected
    BY <1>2 DEF AcceptMove
  <2>2. /\ Head(inbox).kind = "move" /\ Of(inbox) = {Head(inbox)} \cup Of(Tail(inbox))
        /\ ~Resuming
    BY <2>1, Taken, RequestsType DEF Resuming
  <2>3. Asking => Asking'
    BY <2>1, <2>2, QueuedIsOf, AskingStays
  <2>4. QED
    BY <2>1, <2>3, AskedUnchanged
<1>3. CASE RejectMove
  BY <1>3, MoveRejected, ReduceType DEF ResyncIsAsked
<1>4. CASE AnswerMove
  <2>1. ~Resuming /\ UNCHANGED <<connected, inbox>>
    BY <1>4 DEF AnswerMove, Resuming
  <2>2. Queued' = Queued
    BY <2>1 DEF Queued
  <2>3. Asking => Asking'
    BY <2>1, <2>2, AskingStays
  <2>4. QED
    BY <1>4, <2>1, <2>3, ReduceAsked DEF AnswerMove
<1>5. QED
  BY <1>1, <1>2, <1>3, <1>4

LEMMA AskedStep ==
  ASSUME Typed, ResyncIsAsked, [Next]_vars
  PROVE  ResyncIsAsked'
<1>1. CASE UNCHANGED vars
  <2>1. UNCHANGED <<connected, inbox, serving>> /\ UNCHANGED clientVars
    BY <1>1 DEF vars, linkVars
  <2>2. Asking' <=> Asking
    BY <2>1 DEF Asking, AskedAnew, Queued, Resuming, Resume, Resync
  <2>3. QED
    BY <2>1, <2>2, AskedUnchanged
<1>2. CASE Next
  BY <1>2, AskedServer, AskedDispatch, AskedConnection, AskedRender, AskedRoom, AskedAnswer,
     AskedMoves DEF Next, Serve
<1>3. QED
  BY <1>1, <1>2

-----------------------------------------------------------------------------
(* What the buffer lost, it lost for later plies *)

Sent == {p \in Plies : stage[p] \in {"buffered", "done"}}

Trimmed ==
  faults = 0 => \A p \in Sent \ buffer :
                  Cardinality(buffer) = BufferLength /\ \A q \in buffer : q > p

LEMMA TrimmedStep ==
  ASSUME Typed, Trimmed, [Next]_vars
  PROVE  Trimmed'
<1>1. CASE faults' # 0
  BY <1>1 DEF Trimmed
<1>2. CASE faults' = 0 /\ UNCHANGED buffer /\ Sent' \subseteq Sent /\ faults = 0
  BY <1>2 DEF Trimmed
<1>3. ASSUME Fault  PROVE faults' # 0
  BY <1>3 DEF Fault, Typed
<1>4. ASSUME UNCHANGED <<stage, buffer, faults>>  PROVE Trimmed'
  BY <1>4 DEF Trimmed, Sent
<1>5. ASSUME NEW ends \in BOOLEAN, Commit(ends), UNCHANGED faults  PROVE Trimmed'
  <2>1. Sent' \subseteq Sent
    BY <1>5 DEF Commit, Sent, Typed, Stages
  <2>2. QED
    BY <1>1, <1>2, <1>5, <2>1 DEF Commit
<1>6. ASSUME NEW p \in Plies, Deliver(p)  PROVE Trimmed'
  <2>1. Sent' \subseteq Sent
    BY <1>6 DEF Deliver, Sent, Typed, Stages
  <2>2. QED
    BY <1>1, <1>2, <1>6, <2>1 DEF Deliver
<1>7. ASSUME NEW p \in Plies, Buffer(p), faults = 0  PROVE Trimmed'
  <2> DEFINE S == buffer \cup {p}
  <2>1. /\ IsFiniteSet(buffer) /\ Cardinality(buffer) \in Nat
        /\ Cardinality(buffer) <= BufferLength /\ BufferLength \in Nat \ {0}
        /\ buffer \in SUBSET Plies /\ \A q \in Plies : q \in Int
    BY PliesFinite, StreamAssumption DEF Typed, Plies
  <2>2. Cardinality(S) = IF p \in buffer THEN Cardinality(buffer) ELSE Cardinality(buffer) + 1
    BY <2>1, FS_AddElement
  <2>3. S \in SUBSET Plies /\ Cardinality(S) <= BufferLength + 1
    BY <2>1, <2>2
  <2>4. buffer' = Newest(S) /\ Sent' \subseteq Sent \cup {p}
    BY <1>7 DEF Buffer, Sent, Typed, Stages
  <2>5. CASE Newest(S) = S
    <3>1. ASSUME NEW q \in Sent' \ buffer'
          PROVE  Cardinality(buffer') = BufferLength /\ \A r \in buffer' : r > q
      <4>1. q \in Sent \ buffer /\ Cardinality(buffer) = BufferLength
        BY <1>7, <2>4, <2>5, <3>1 DEF Trimmed
      <4>2. Cardinality(S) <= BufferLength
        BY <2>3, <2>5, NewestCases, <2>1, StreamAssumption
      <4>3. p \in buffer
        BY <2>1, <2>2, <4>1, <4>2
      <4>4. S = buffer
        BY <4>3
      <4>5. QED
        BY <1>7, <2>4, <2>5, <4>1, <4>4 DEF Trimmed
    <3>2. QED
      BY <3>1 DEF Trimmed
  <2>6. CASE Newest(S) # S
    <3>1. PICK m \in S : /\ Newest(S) = S \ {m} /\ \A q \in Newest(S) : q > m
                         /\ Cardinality(Newest(S)) = BufferLength
      BY <2>3, <2>6, NewestCases
    <3>2. ASSUME NEW q \in Sent' \ buffer', NEW r \in buffer'  PROVE r > q
      <4>1. CASE q = m
        BY <2>4, <3>1, <3>2, <4>1
      <4>2. CASE q # m
        <5>1. q \notin S /\ q \in Sent \ buffer /\ q \in Plies
          BY <2>4, <3>1, <3>2, <4>2 DEF Sent
        <5>2. Cardinality(buffer) = BufferLength /\ \A b \in buffer : b > q
          BY <1>7, <5>1 DEF Trimmed
        <5>3. CASE r \in buffer
          BY <5>2, <5>3
        <5>4. CASE r = p /\ p \notin buffer
          <6>1. m \in buffer
            BY <2>4, <3>1, <3>2, <5>4
          <6>2. r > m /\ m > q /\ m \in Int /\ r \in Int /\ q \in Int
            BY <2>1, <2>4, <3>1, <3>2, <5>1, <5>2, <5>4, <6>1
          <6>3. QED
            BY <6>2
        <5>5. QED
          BY <2>4, <3>1, <3>2, <5>3, <5>4
      <4>3. QED
        BY <4>1, <4>2
    <3>3. QED
      BY <2>4, <3>1, <3>2 DEF Trimmed
  <2>7. QED
    BY <2>5, <2>6
<1>8. CASE UNCHANGED vars
  BY <1>4, <1>8 DEF vars, serverVars
<1>9. CASE OpponentMoves \/ OrphanMoves \/ AcceptMove
  BY <1>5, <1>9 DEF OpponentMoves, OrphanMoves, AcceptMove
<1>10. CASE \/ LoseBuffer \/ LoseRoom \/ AnnounceFails \/ EnterTimesOut \/ SubmitTimesOut
            \/ \E p \in Plies : BufferFails(p) \/ DeliveryFails(p) \/ BroadcastFails(p)
  BY <1>1, <1>3, <1>10 DEF LoseBuffer, LoseRoom, AnnounceFails, EnterTimesOut, SubmitTimesOut,
     BufferFails, DeliveryFails, BroadcastFails
<1>11. CASE \/ Finish \/ Announce \/ Connect \/ Drop \/ Submit \/ Render \/ Resynchronise
  BY <1>4, <1>11 DEF Finish, Announce, Connect, Drop, Submit, Render, Resynchronise, serverVars
<1>12. CASE JoinRoom \/ RefuseJoin \/ BeginResume \/ RejectMove \/ AnswerMove
  BY <1>4, <1>12 DEF JoinRoom, RefuseJoin, BeginResume, RejectMove, AnswerMove, serverVars
<1>13. CASE AnswerSnapshot \/ AnswerCurrent \/ AnswerEvents \/ AnswerResync
  <2>1. UNCHANGED <<stage, buffer>> /\ (Fault \/ UNCHANGED faults)
    BY <1>13 DEF AnswerSnapshot, AnswerCurrent, AnswerEvents, AnswerResync, Answer, Rejoined,
       serverVars
  <2>2. QED
    BY <1>1, <1>3, <1>4, <2>1
<1>14. ASSUME NEW p \in Plies, Buffer(p)  PROVE Trimmed'
  BY <1>1, <1>7, <1>14 DEF Buffer
<1>15. QED
  BY <1>6, <1>8, <1>9, <1>10, <1>11, <1>12, <1>13, <1>14 DEF Next, Serve

-----------------------------------------------------------------------------
(* Nothing is missed silently *)

\* A page that enters holds a board at least as far as it shows, and its join
\* is the first request; without a connection nothing is shown late.
EnterFirst ==
  /\ client.entering = "join" =>
       serving = Idle /\ inbox # <<>> /\ Head(inbox) = Join /\ page.seq <= client.seq
  /\ ~connected => client.entering = "no" /\ page.seq = client.seq /\ serving = Idle

\* The effect is due only after a render of `resyncing`.
DueShown == page.due => page.phase = "resyncing"

\* What was sent and the client does not hold.
Missing == {p \in 1..ply : stage[p] = "done" /\ p > client.seq}

Calm == connected /\ over = "no" /\ faults = 0 /\ ~stale /\ ~unseen

\* A resume that will show what is missing, queued or being served.
Catching ==
  \/ \E r \in Queued : r.kind = "resume" /\ r.known \in 1..client.seq
  \/ /\ Resuming /\ serving.known \in 1..client.seq
     /\ \A p \in Missing : p <= serving.snap

Told == client.entering = "join" \/ Missing = {} \/ Asking \/ Catching \/ WillAsk

Inv == Typed /\ ResyncIsAsked /\ Trimmed /\ EnterFirst /\ DueShown /\ (Calm => Told)

LEMMA IdleKind == Idle.kind = "none" /\ (Resuming => serving # Idle)
BY DEF Idle, Resuming

\* Steps that leave what the page shows and the requests alone.
LEMMA EnterUnchanged ==
  ASSUME EnterFirst, UNCHANGED <<client, inbox, serving, connected>>, page'.seq = page.seq
  PROVE  EnterFirst'
BY DEF EnterFirst

LEMMA EnterDispatch ==
  ASSUME Typed, EnterFirst, connected, NEW c \in Client, Reduce(c), c.seq >= client.seq,
         c.entering = client.entering, UNCHANGED <<inbox, serving, connected>>
  PROVE  EnterFirst'
<1>1. client' = c /\ page' = page /\ page.seq \in Int /\ client.seq \in Int /\ c.seq \in Int
  BY DEF Reduce, Typed, Client, Page
<1>2. QED
  BY <1>1 DEF EnterFirst

\* Steps after which the client does not wait for its join.
LEMMA EnterOver ==
  ASSUME client'.entering # "join", connected'
  PROVE  EnterFirst'
BY DEF EnterFirst

LEMMA EnterServer ==
  ASSUME Typed, EnterFirst,
         \/ OpponentMoves \/ OrphanMoves \/ Finish \/ LoseBuffer \/ LoseRoom \/ AnnounceFails
         \/ Connect \/ Drop
         \/ \E p \in Plies : Buffer(p) \/ BufferFails(p) \/ DeliveryFails(p) \/ BroadcastFails(p)
  PROVE  EnterFirst'
<1>1. ASSUME UNCHANGED <<client, inbox, serving, connected>>, page' = page  PROVE EnterFirst'
  BY <1>1, EnterUnchanged
<1>2. ASSUME Closed  PROVE EnterFirst'
  <2>1. client'.entering = "no" /\ client' \in Client /\ page' = Shown(client') /\ serving' = Idle
    BY <1>2, ClosedTyped DEF Closed
  <2>2. page'.seq = client'.seq
    BY <2>1, ShownType
  <2>3. QED
    BY <2>1, <2>2 DEF EnterFirst
<1>3. CASE OpponentMoves \/ OrphanMoves \/ Finish \/ LoseBuffer \/ LoseRoom \/ AnnounceFails
  BY <1>1, <1>3 DEF OpponentMoves, OrphanMoves, Finish, LoseBuffer, LoseRoom, AnnounceFails,
     linkVars, clientVars
<1>4. ASSUME NEW p \in Plies, Buffer(p) \/ BufferFails(p) \/ DeliveryFails(p)
      PROVE  EnterFirst'
  BY <1>1, <1>4 DEF Buffer, BufferFails, DeliveryFails, linkVars, clientVars
<1>5. ASSUME NEW p \in Plies, BroadcastFails(p)  PROVE EnterFirst'
  BY <1>1, <1>2, <1>5 DEF BroadcastFails, clientVars
<1>6. CASE Drop
  BY <1>2, <1>6 DEF Drop
<1>7. CASE Connect
  <2>1. /\ inbox' = <<Join>> /\ serving' = Idle /\ page' = page /\ connected' = TRUE
        /\ client' = [client EXCEPT !.phase = "joining", !.entering = "join"]
        /\ page.seq = client.seq
    BY <1>7 DEF Connect, EnterFirst
  <2>2. client'.seq = client.seq /\ client.seq \in Int
    BY <2>1 DEF Typed, Client
  <2>3. inbox' # <<>> /\ Head(inbox') = Join
    BY <2>1
  <2>4. QED
    BY <2>1, <2>2, <2>3 DEF EnterFirst
<1>8. QED
  BY <1>3, <1>4, <1>5, <1>6, <1>7

LEMMA EnterBoard ==
  ASSUME Typed, EnterFirst,
         \/ Announce \/ EnterTimesOut \/ SubmitTimesOut \/ Render \/ Resynchronise \/ Submit
         \/ \E p \in Plies : Deliver(p)
  PROVE  EnterFirst'
<1>0. client \in Client /\ client.seq \in Int /\ inbox \in Seq(Request)
  BY DEF Typed, Client
<1>1. ASSUME NEW p \in Plies, Deliver(p)  PROVE EnterFirst'
  <2>1. CASE ~connected
    BY <1>1, <2>1, EnterUnchanged DEF Deliver, linkVars, clientVars
  <2>2. CASE connected
    <3> DEFINE c == Applied(client, p, EndsWith(p))
    <3>1. p \in 0..MaxPly /\ EndsWith(p) \in BOOLEAN /\ p \in Int
      BY StreamAssumption DEF Plies, EndsWith
    <3>2. c \in Client /\ c.entering = client.entering /\ c.seq >= client.seq
      BY <1>0, <3>1, AppliedCases
    <3>3. Reduce(c) /\ UNCHANGED <<inbox, serving, connected>>
      BY <1>1, <2>2 DEF Deliver, linkVars
    <3> HIDE DEF c
    <3>4. QED
      BY <2>2, <3>2, <3>3, EnterDispatch
  <2>3. QED
    BY <2>1, <2>2
<1>2. CASE Announce
  <2>1. CASE ~connected
    BY <1>2, <2>1, EnterUnchanged DEF Announce, linkVars, clientVars
  <2>2. CASE connected
    BY <1>0, <1>2, <2>2, OthersType, EnterDispatch DEF Announce, linkVars
  <2>3. QED
    BY <2>1, <2>2
<1>3. CASE EnterTimesOut
  <2>1. client'.entering = "no" /\ connected'
    BY <1>0, <1>3, OthersType DEF EnterTimesOut, Reduce, linkVars
  <2>2. QED
    BY <2>1, EnterOver
<1>4. CASE SubmitTimesOut
  <2> DEFINE c == [Resyncing(client) EXCEPT !.moving = FALSE]
  <2>1. c \in Client /\ c.seq = client.seq /\ c.entering = client.entering
    BY <1>0 DEF Client, Resyncing, Phase
  <2>2. connected /\ Reduce(c) /\ UNCHANGED <<inbox, serving, connected>>
    BY <1>4 DEF SubmitTimesOut, linkVars
  <2> HIDE DEF c
  <2>3. QED
    BY <1>0, <2>1, <2>2, EnterDispatch
<1>5. CASE Render
  <2>1. UNCHANGED <<client, inbox, serving, connected>> /\ page'.seq = client.seq
    BY <1>5 DEF Render, Shown, linkVars
  <2>2. QED
    BY <1>0, <2>1 DEF EnterFirst
<1>6. ASSUME NEW r \in Request, inbox' = Append(inbox, r), inbox # <<>>
      PROVE  inbox' # <<>> /\ Head(inbox') = Head(inbox)
  BY <1>0, <1>6, HeadAppend
<1>7. CASE Resynchronise \/ Submit
  <2>1. /\ UNCHANGED <<serving, connected>>
        /\ \E r \in Request : inbox' = Append(inbox, r)
    BY <1>7, RequestsType DEF Resynchronise, Submit
  <2>2. client'.seq = client.seq /\ client'.entering = client.entering
    BY <1>0, <1>7 DEF Resynchronise, Submit, Resyncing, Client
  <2>3. page'.seq = page.seq \/ page'.seq = client'.seq
    <3>1. CASE Resynchronise
      BY <3>1 DEF Resynchronise, Typed, Page
    <3>2. CASE Submit
      BY <3>2 DEF Submit, Shown
    <3>3. QED
      BY <1>7, <3>1, <3>2
  <2>4. QED
    BY <1>0, <1>6, <2>1, <2>2, <2>3 DEF EnterFirst
<1>8. QED
  BY <1>1, <1>2, <1>3, <1>4, <1>5, <1>7

LEMMA EnterServe ==
  ASSUME Typed, EnterFirst, Serve
  PROVE  EnterFirst'
<1>1. ASSUME NEW kind \in {"resume", "resync", "move"}, Takes(kind)
      PROVE  client.entering # "join" /\ connected
  BY <1>1 DEF Takes, EnterFirst, Join
<1>2. ASSUME serving # Idle  PROVE client.entering # "join" /\ connected
  BY <1>2 DEF EnterFirst
<1>3. CASE JoinRoom \/ RefuseJoin
  <2>1. client'.entering # "join" /\ connected'
    BY <1>3 DEF JoinRoom, RefuseJoin, Takes, Reduce, Typed, Client
  <2>2. QED
    BY <2>1, EnterOver
<1>4. CASE BeginResume \/ AcceptMove
  <2>1. client.entering # "join" /\ connected /\ UNCHANGED <<connected, client>>
    BY <1>1, <1>4 DEF BeginResume, AcceptMove, clientVars
  <2>2. QED
    BY <2>1, EnterOver
<1>5. CASE AnswerSnapshot \/ AnswerCurrent \/ AnswerEvents \/ AnswerResync
  <2>1. Rejoined
    BY <1>5 DEF AnswerSnapshot, AnswerCurrent, AnswerEvents, AnswerResync, Answer
  <2>2. connected' /\ client.entering # "join"
    BY <1>2, <2>1, IdleKind DEF Rejoined
  <2>3. client'.entering \in {"no", client.entering}
    <3>1. CASE AnswerSnapshot
      BY <3>1, Snapshots
    <3>2. CASE AnswerCurrent
      BY <3>2, ServingParts, ResumedType, Answers DEF AnswerCurrent
    <3>3. CASE AnswerEvents
      BY <3>3, AnswerKinds, ServingParts, ReplayedType, Answers DEF AnswerEvents
    <3>4. CASE AnswerResync
      BY <3>4, ServingParts, OthersType, Answers DEF AnswerResync
    <3>5. QED
      BY <1>5, <3>1, <3>2, <3>3, <3>4
  <2>4. QED
    BY <2>2, <2>3, EnterOver
<1>6. CASE RejectMove
  <2>1. client.entering # "join" /\ connected'
    BY <1>1, <1>6 DEF RejectMove
  <2>2. client'.entering = client.entering
    BY <1>6, MoveRejected, ReduceType
  <2>3. QED
    BY <2>1, <2>2, EnterOver
<1>7. CASE AnswerMove
  <2>1. client.entering # "join" /\ connected'
    BY <1>2, <1>7, IdleKind DEF AnswerMove
  <2>2. client'.entering = client.entering
    <3> DEFINE d == Applied(client, serving.snap, EndsWith(serving.snap))
    <3>1. d \in Client /\ d.entering = client.entering
      BY ServingParts, AppliedCases DEF EndsWith
    <3>2. client' = Settled(d, inbox) /\ inbox \in Seq(Request)
      BY <1>7 DEF AnswerMove, Reduce, Typed
    <3> HIDE DEF d
    <3>3. QED
      BY <3>1, <3>2, EndsType
  <2>3. QED
    BY <2>1, <2>2, EnterOver
<1>8. QED
  BY <1>3, <1>4, <1>5, <1>6, <1>7 DEF Serve

LEMMA EnterStep ==
  ASSUME Typed, EnterFirst, [Next]_vars
  PROVE  EnterFirst'
<1>1. CASE UNCHANGED vars
  BY <1>1, EnterUnchanged DEF vars, linkVars, clientVars
<1>2. CASE Next
  BY <1>2, EnterServer, EnterBoard, EnterServe DEF Next
<1>3. QED
  BY <1>1, <1>2

LEMMA DueStep ==
  ASSUME Typed, DueShown, [Next]_vars
  PROVE  DueShown'
<1>1. ASSUME page' = page \/ page'.due = FALSE  PROVE DueShown'
  BY <1>1 DEF DueShown
<1>2. CASE UNCHANGED vars \/ OpponentMoves \/ OrphanMoves \/ Finish \/ LoseBuffer \/ LoseRoom
           \/ AnnounceFails \/ Connect
  BY <1>1, <1>2 DEF vars, OpponentMoves, OrphanMoves, Finish, LoseBuffer, LoseRoom,
     AnnounceFails, Connect, clientVars
<1>3. ASSUME NEW p \in Plies, Buffer(p) \/ BufferFails(p) \/ DeliveryFails(p) \/ Deliver(p)
      PROVE  DueShown'
  BY <1>1, <1>3 DEF Buffer, BufferFails, DeliveryFails, Deliver, Reduce, clientVars
<1>4. ASSUME NEW p \in Plies, BroadcastFails(p)  PROVE DueShown'
  <2>1. CASE Closed
    BY <1>1, <2>1 DEF Closed, Shown
  <2>2. CASE UNCHANGED clientVars
    BY <1>1, <2>2 DEF clientVars
  <2>3. QED
    BY <1>4, <2>1, <2>2 DEF BroadcastFails
<1>5. CASE Announce \/ EnterTimesOut \/ SubmitTimesOut
  BY <1>1, <1>5 DEF Announce, EnterTimesOut, SubmitTimesOut, Reduce, clientVars
<1>6. CASE Submit
  BY <1>1, <1>6 DEF Submit, Shown
<1>7. CASE Resynchronise
  BY <1>1, <1>7 DEF Resynchronise, Typed, Page
<1>8. CASE Render
  <2>1. page' = [Shown(client) EXCEPT !.due = Asks(client)] /\ Shown(client) \in Page
    BY <1>8, ShownType DEF Render, Typed
  <2>2. page'.due = Asks(client) /\ page'.phase = Shown(client).phase
    <3>1. \A s \in Page : \A d : [s EXCEPT !.due = d].due = d /\ [s EXCEPT !.due = d].phase = s.phase
      BY DEF Page
    <3>2. QED
      BY ZenonT(30), <2>1, <3>1
  <2>3. Asks(client) => page'.phase = "resyncing"
    BY <2>2, ShownType DEF Asks, Typed
  <2>4. QED
    BY <2>2, <2>3 DEF DueShown
<1>9. CASE Serve
  <2>1. page' = page
    BY <1>9 DEF Serve, JoinRoom, RefuseJoin, BeginResume, AnswerSnapshot, AnswerCurrent,
       AnswerEvents, AnswerResync, Answer, AcceptMove, RejectMove, AnswerMove, Reduce, clientVars
  <2>2. QED
    BY <1>1, <2>1
<1>10. CASE Drop
  BY <1>1, <1>10 DEF Drop, Closed, Shown
<1>11. QED
  BY <1>2, <1>3, <1>4, <1>5, <1>6, <1>7, <1>8, <1>9, <1>10 DEF Next

\* A board that is told to resync has asked by then, or will.
LEMMA ToldToResync ==
  ASSUME ResyncIsAsked', Calm', client'.phase = "resyncing"
  PROVE  Told'
<1>1. Asking' \/ WillAsk'
  BY DEF ResyncIsAsked, Calm, Asking
<1>2. QED
  BY <1>1 DEF Told

\* The effect that is due stays due, and the one that will be is not undone by
\* a dispatch that some render sees.
LEMMA WillStays ==
  ASSUME NEW c, Reduce(c), ~unseen', c.phase # "resyncing", WillAsk
  PROVE  WillAsk'
<1>1. client' = c /\ page' = page /\ ~Hides(c)
  BY DEF Reduce
<1>2. ~Asks(client)
  BY <1>1 DEF Hides, Asks
<1>3. QED
  BY <1>1, <1>2 DEF WillAsk

\* Where nothing is missed more, and no request is lost.
LEMMA ToldStays ==
  ASSUME Typed, Told, Missing' \subseteq Missing, client' \in Client,
         client'.seq >= client.seq, client'.entering = client.entering,
         \A r \in Queued : r \in Queued' \/ r.kind \in {"join", "move"},
         Resuming => serving' = serving, WillAsk => WillAsk'
  PROVE  Told'
<1>1. client.seq \in Int /\ client'.seq \in Int
  BY DEF Typed, Client
<1>2. ASSUME Resuming  PROVE Resuming'
  BY <1>2 DEF Resuming
<1>3. ASSUME Asking  PROVE Asking'
  BY <1>3, AskingStays
<1>4. ASSUME Catching  PROVE Catching'
  <2>1. \A k \in 1..client.seq : k \in 1..client'.seq
    BY <1>1
  <2>2. CASE \E r \in Queued : r.kind = "resume" /\ r.known \in 1..client.seq
    BY <2>1, <2>2 DEF Catching
  <2>3. CASE Resuming /\ serving.known \in 1..client.seq /\ \A p \in Missing : p <= serving.snap
    BY <1>2, <2>1, <2>3 DEF Catching
  <2>4. QED
    BY <1>4, <2>2, <2>3 DEF Catching
<1>5. QED
  BY <1>3, <1>4 DEF Told

LEMMA ToldOfDispatch ==
  ASSUME Typed, ResyncIsAsked', Calm', Told, NEW c \in Client, Reduce(c),
         Missing' \subseteq Missing, c.seq >= client.seq, c.entering = client.entering,
         \A r \in Queued : r \in Queued' \/ r.kind \in {"join", "move"},
         Resuming => serving' = serving
  PROVE  Told'
<1>1. client' = c
  BY DEF Reduce
<1>2. CASE c.phase = "resyncing"
  BY <1>1, <1>2, ToldToResync
<1>3. CASE c.phase # "resyncing"
  <2>1. WillAsk => WillAsk'
    BY <1>3, WillStays DEF Calm
  <2>2. QED
    BY <1>1, <2>1, ToldStays
<1>4. QED
  BY <1>2, <1>3

\* A frame of ply p dispatched by the client, while it is sent for.
LEMMA ToldOfApplied ==
  ASSUME Typed, ResyncIsAsked', Calm', Told, NEW p \in 0..MaxPly, NEW d \in Client, Reduce(d),
         d.seq = Applied(client, p, EndsWith(p)).seq,
         d.phase = Applied(client, p, EndsWith(p)).phase, d.entering = client.entering,
         UNCHANGED <<inbox, ply>>, Resuming => serving' = serving,
         \A q \in Plies : stage'[q] = "done" => stage[q] = "done" \/ q = p
  PROVE  Told'
<1>1. \/ p <= client.seq /\ d.seq = client.seq
      \/ p = client.seq + 1 /\ d.seq = p
      \/ p > client.seq + 1 /\ d.seq = client.seq /\ d.phase = "resyncing"
  BY AppliedCases DEF Typed, EndsWith
<1>2. client.seq \in -1..MaxPly /\ d.seq \in -1..MaxPly /\ ply \in 0..MaxPly /\ MaxPly \in Nat
  BY StreamAssumption DEF Typed, Client
<1>3. client' = d /\ Queued' = Queued
  BY DEF Reduce, Queued
<1>4. CASE p <= d.seq
  <2>1. d.seq >= client.seq
    BY <1>1, <1>2, <1>4
  <2>2. Missing' \subseteq Missing
    BY <1>2, <1>3, <1>4, <2>1 DEF Missing, Plies
  <2>3. QED
    BY <1>3, <2>1, <2>2, ToldOfDispatch
<1>5. CASE p > d.seq
  BY <1>1, <1>2, <1>3, <1>5, ToldToResync
<1>6. QED
  BY <1>2, <1>4, <1>5

\* An answer that is no snapshot: what else was promised stands, and the
\* resume it answers was promised to show all that is missing.
LEMMA ToldOfAnswer ==
  ASSUME Typed, EnterFirst, ResyncIsAsked', Calm', Told, serving.known # 0,
         NEW c \in Client, Answer(c), c.seq >= client.seq,
         (serving.known \in 1..client.seq /\ \A p \in Missing : p <= serving.snap)
           => \A p \in Missing : p <= c.seq
  PROVE  Told'
<1>1. /\ Reduce(Entered(c)) /\ Resuming /\ UNCHANGED <<inbox, ply, stage>>
      /\ client' = Entered(c) /\ client'.seq = c.seq /\ client'.phase = c.phase
      /\ client'.seq \in Int /\ client.seq \in Int /\ ply \in 0..MaxPly /\ MaxPly \in Nat
  BY Answers, StreamAssumption DEF Answer, Rejoined, Client, Typed, serverVars
<1>2. Queued' = Queued
  BY <1>1 DEF Queued
<1>3. Missing' \subseteq Missing /\ \A p \in Missing' : p > c.seq /\ p \in Int
  BY <1>1 DEF Missing
<1>4. CASE c.phase = "resyncing"
  BY <1>1, <1>4, ToldToResync
<1>5. CASE c.phase # "resyncing"
  <2>1. CASE client.entering = "join"
    BY <1>1, <2>1, IdleKind DEF EnterFirst
  <2>2. CASE Missing = {}
    BY <1>3, <2>2 DEF Told
  <2>3. CASE Asking
    BY <1>2, <2>3, AskedStays DEF Told, Asking
  <2>4. CASE WillAsk
    BY <1>1, <1>5, <2>4, WillStays DEF Told, Calm
  <2>5. CASE \E r \in Queued : r.kind = "resume" /\ r.known \in 1..client.seq
    <3>1. \A k \in 1..client.seq : k \in 1..client'.seq
      BY <1>1
    <3>2. QED
      BY <1>2, <2>5, <3>1 DEF Told, Catching
  <2>6. CASE serving.known \in 1..client.seq /\ \A p \in Missing : p <= serving.snap
    <3>1. \A p \in Missing : p <= c.seq
      BY <2>6
    <3>2. Missing' = {}
      BY <1>1, <1>3, <3>1
    <3>3. QED
      BY <3>2 DEF Told
  <2>7. QED
    BY <2>1, <2>2, <2>3, <2>4, <2>5, <2>6 DEF Told, Catching
<1>6. QED
  BY <1>4, <1>5

LEMMA ToldAnswer ==
  ASSUME Inv, ResyncIsAsked', Calm',
         AnswerSnapshot \/ AnswerCurrent \/ AnswerEvents \/ AnswerResync
  PROVE  Told'
<1>1. /\ Typed /\ Trimmed /\ EnterFirst
      /\ serving.snap \in 0..MaxPly /\ serving.known \in 0..MaxPly /\ MaxPly \in Nat
      /\ client \in Client /\ client.seq \in -1..MaxPly
  BY ServingParts, StreamAssumption DEF Inv, Client
<1>2. Rejoined
  BY DEF AnswerSnapshot, AnswerCurrent, AnswerEvents, AnswerResync, Answer
<1>3. /\ UNCHANGED <<over, connected, ply, stage, buffer, inbox>> /\ faults' = 0 /\ connected
  BY <1>2 DEF Rejoined, serverVars, Calm
<1>4. ASSUME UNCHANGED <<stale, faults>>, NEW c, Reduce(c)  PROVE Told
  <2>1. ~unseen
    BY <1>4 DEF Reduce, Calm
  <2>2. QED
    BY <1>3, <1>4, <2>1 DEF Calm, Inv
<1>5. CASE AnswerSnapshot
  <2>1. client'.seq = serving.snap
    BY <1>1, <1>5, Snapshots
  <2>2. AskedAnew \/ \A p \in (serving.snap + 1)..ply : stage[p] # "done"
    BY <1>5 DEF AnswerSnapshot, Calm
  <2>3. CASE AskedAnew
    BY <1>3, <2>3, AskedStays DEF Told, Asking, Queued
  <2>4. CASE \A p \in (serving.snap + 1)..ply : stage[p] # "done"
    <3>1. ply \in 0..MaxPly
      BY <1>1 DEF Typed
    <3>2. Missing' = {}
      BY <1>1, <1>3, <2>1, <2>4, <3>1 DEF Missing
    <3>3. QED
      BY <3>2 DEF Told
  <2>5. QED
    BY <2>2, <2>3, <2>4
<1>6. CASE AnswerCurrent
  <2> DEFINE c == Resumed(client, serving.snap)
  <2>1. c \in Client /\ c.seq = client.seq /\ Answer(c) /\ serving.known # 0
    BY <1>1, <1>6, ResumedType DEF AnswerCurrent
  <2>2. Told /\ serving.known >= serving.snap
    BY <1>4, <1>6 DEF AnswerCurrent, Answer
  <2>3. Missing \subseteq Int
    BY DEF Missing
  <2> HIDE DEF c
  <2>4. (serving.known \in 1..client.seq /\ \A p \in Missing : p <= serving.snap)
          => \A p \in Missing : p <= c.seq
    BY <1>1, <2>1, <2>2, <2>3
  <2>5. c.seq >= client.seq
    BY <1>1, <2>1
  <2>6. QED
    BY <1>1, <2>1, <2>2, <2>4, <2>5, ToldOfAnswer
<1>7. CASE AnswerEvents
  <2> DEFINE c == Replayed(client, Since)
  <2>1. /\ c \in Client /\ c.seq \in client.seq..MaxPly
        /\ c.phase = "resyncing" \/ \A p \in Since : p <= c.seq
    BY <1>1, AnswerKinds, ReplayedType
  <2>2. Answer(c) /\ serving.known # 0
    BY <1>7 DEF AnswerEvents, Missed
  <2>3. Told /\ faults = 0
    BY <1>3, <1>4, <1>7 DEF AnswerEvents, Answer
  <2> HIDE DEF c
  <2>4. CASE c.phase = "resyncing"
    BY <1>1, <2>1, <2>2, <2>4, Answers, ToldToResync
  <2>5. CASE \A p \in Since : p <= c.seq
    <3>1. ASSUME serving.known \in 1..client.seq, NEW p \in Missing  PROVE p <= c.seq
      <4>1. p \in Plies /\ p \in Int /\ p \in Sent
        BY <1>1 DEF Missing, Sent, Plies, Typed
      <4>2. CASE p \in buffer /\ p > serving.known
        BY <2>5, <4>2 DEF Since
      <4>3. CASE p <= serving.known
        BY <1>1, <2>1, <3>1, <4>1, <4>3
      <4>4. CASE p \notin buffer
        <5>1. PICK q \in buffer : q <= serving.known + 1
          BY <1>7 DEF AnswerEvents, IsContiguous
        <5>2. q > p
          BY <1>1, <2>3, <4>1, <4>4 DEF Trimmed
        <5>3. q \in Int
          BY <1>1 DEF Typed, Plies
        <5>4. QED
          BY <1>1, <2>1, <3>1, <4>1, <5>1, <5>2, <5>3
      <4>5. QED
        BY <1>1, <4>1, <4>2, <4>3, <4>4
    <3>2. c.seq >= client.seq
      BY <1>1, <2>1
    <3>3. QED
      BY <1>1, <2>1, <2>2, <2>3, <3>1, <3>2, ToldOfAnswer
  <2>6. QED
    BY <2>1, <2>4, <2>5
<1>8. CASE AnswerResync
  <2>1. Answer(Resyncing(client)) /\ Resyncing(client) \in Client
        /\ Resyncing(client).phase = "resyncing"
    BY <1>1, <1>8, OthersType DEF AnswerResync
  <2>2. QED
    BY <1>1, <2>1, Answers, ToldToResync
<1>9. QED
  BY <1>5, <1>6, <1>7, <1>8

\* The moves committed, and what is made of them on the server.
LEMMA ToldServer ==
  ASSUME Inv, Calm',
         \/ OpponentMoves \/ OrphanMoves \/ AcceptMove \/ Finish \/ Announce \/ RefuseJoin
         \/ \E p \in Plies : Buffer(p)
  PROVE  Told'
<1>1. /\ Typed /\ client \in Client /\ client.seq \in Int
      /\ ply \in 0..MaxPly /\ MaxPly \in Nat /\ (Calm => Told)
  BY StreamAssumption DEF Inv, Typed, Client
<1>2. ASSUME UNCHANGED <<connected, stale, faults>>, UNCHANGED clientVars, over = "no",
             Missing' \subseteq Missing,
             \A r \in Queued : r \in Queued' \/ r.kind \in {"join", "move"},
             Resuming => serving' = serving
      PROVE  Told'
  <2>1. UNCHANGED <<client, page, unseen>>
    BY <1>2 DEF clientVars
  <2>2. Told
    BY <1>1, <1>2, <2>1 DEF Calm
  <2>3. WillAsk => WillAsk'
    BY <2>1 DEF WillAsk, Asks
  <2>4. client' \in Client /\ client'.seq >= client.seq /\ client'.entering = client.entering
    BY <1>1, <2>1
  <2>5. QED
    BY <1>1, <1>2, <2>2, <2>3, <2>4, ToldStays
<1>3. ASSUME NEW ends \in BOOLEAN, Commit(ends), client' = client
      PROVE  over = "no" /\ Missing' \subseteq Missing
  <2>1. /\ over = "no" /\ ply' = ply + 1 /\ ply < MaxPly
        /\ stage' = [stage EXCEPT ![ply + 1] = "committed"]
    BY <1>3 DEF Commit
  <2>2. stage'[ply + 1] = "committed" /\ \A p \in 1..ply : stage'[p] = stage[p]
    BY <1>1, <2>1 DEF Typed, Stages, Plies
  <2>3. \A p \in 1..ply' : p \in 1..ply \/ p = ply + 1
    BY <1>1, <2>1
  <2>4. QED
    BY <1>3, <2>1, <2>2, <2>3 DEF Missing
<1>4. CASE OpponentMoves \/ OrphanMoves
  <2>1. /\ \E ends \in BOOLEAN : Commit(ends)
        /\ UNCHANGED <<connected, faults, stale, inbox, serving>> /\ UNCHANGED clientVars
    BY <1>4 DEF OpponentMoves, OrphanMoves, linkVars
  <2>2. Queued' = Queued /\ client' = client
    BY <2>1 DEF Queued, clientVars
  <2>3. QED
    BY <1>2, <1>3, <2>1, <2>2
<1>5. CASE AcceptMove
  <2>1. /\ \E ends \in BOOLEAN : Commit(ends)
        /\ UNCHANGED <<connected, faults, stale>> /\ UNCHANGED clientVars
        /\ Takes("move") /\ inbox' = Tail(inbox)
    BY <1>5 DEF AcceptMove
  <2>2. /\ Of(inbox) = {Head(inbox)} \cup Of(Tail(inbox)) /\ Head(inbox).kind = "move"
        /\ ~Resuming /\ client' = client
    BY <1>1, <2>1, Taken, RequestsType DEF Resuming, clientVars
  <2>3. \A r \in Queued : r \in Queued' \/ r.kind \in {"join", "move"}
    BY <2>1, <2>2, QueuedIsOf
  <2>4. QED
    BY <1>2, <1>3, <2>1, <2>2, <2>3
<1>6. CASE Finish \/ Announce \/ RefuseJoin
  <2>1. over' # "no"
    BY <1>1, <1>6 DEF Finish, Announce, RefuseJoin, Pushes, serverVars, Typed
  <2>2. QED
    BY <2>1 DEF Calm
<1>7. ASSUME NEW p \in Plies, Buffer(p)  PROVE Told'
  <2>1. /\ UNCHANGED <<ply, over, connected, inbox, serving, stale, faults>>
        /\ UNCHANGED clientVars /\ client' = client
        /\ stage' = [stage EXCEPT ![p] = "buffered"]
    BY <1>7 DEF Buffer, linkVars, clientVars
  <2>2. Missing' \subseteq Missing /\ Queued' = Queued /\ over = "no"
    BY <1>1, <2>1 DEF Missing, Queued, Typed, Stages, Calm
  <2>3. QED
    BY <1>2, <2>1, <2>2
<1>8. QED
  BY <1>4, <1>5, <1>6, <1>7

\* What the board does, without a request of it being taken.
LEMMA ToldBoard ==
  ASSUME Inv, ResyncIsAsked', Calm',
         \/ Connect \/ Submit \/ Render \/ Resynchronise \/ RejectMove \/ AnswerMove
         \/ \E p \in Plies : Deliver(p)
  PROVE  Told'
<1>1. /\ Typed /\ client \in Client /\ client.seq \in Int /\ inbox \in Seq(Request)
      /\ ply \in 0..MaxPly /\ MaxPly \in Nat /\ (Calm => Told) /\ DueShown
  BY StreamAssumption DEF Inv, Typed, Client
<1>2. ASSUME UNCHANGED <<connected, over, stale, faults>>, ~unseen  PROVE Told
  BY <1>1, <1>2 DEF Calm
<1>3. ASSUME NEW p \in Plies, Deliver(p)  PROVE Told'
  <2> DEFINE d == Applied(client, p, EndsWith(p))
  <2>1. UNCHANGED <<serving, ply, inbox, connected, over, stale, faults>>
    BY <1>3 DEF Deliver, linkVars
  <2>2. connected /\ p \in 0..MaxPly
    BY <1>1, <2>1 DEF Calm, Plies
  <2>3. Reduce(d)
    BY <1>3, <2>2 DEF Deliver
  <2>4. ~unseen
    BY <2>3 DEF Reduce, Calm
  <2>5. \A q \in Plies : stage'[q] = "done" => stage[q] = "done" \/ q = p
    BY <1>1, <1>3 DEF Deliver, Typed, Stages
  <2>6. d \in Client /\ d.entering = client.entering
    BY <1>1, <2>2, AppliedCases DEF EndsWith
  <2>7. QED
    BY <1>1, <1>2, <2>1, <2>2, <2>3, <2>4, <2>5, <2>6, ToldOfApplied
<1>4. CASE Connect
  <2>1. client'.entering = "join"
    BY <1>1, <1>4 DEF Connect, Client
  <2>2. QED
    BY <2>1 DEF Told
<1>5. CASE Submit
  <2>1. /\ UNCHANGED <<ply, stage, serving, connected, over, stale, faults>>
        /\ inbox' = Append(inbox, Move) /\ page.phase = "active"
        /\ client' = [client EXCEPT !.phase = "submitting", !.moving = TRUE]
        /\ ~unseen /\ client.phase # "resyncing"
    BY <1>5 DEF Submit, serverVars, Calm
  <2>2. client' \in Client /\ client'.seq = client.seq /\ client'.entering = client.entering
    BY <1>1, <2>1 DEF Client, Phase
  <2>3. Queued \subseteq Queued'
    BY <1>1, <2>1, OfAppend, RequestsType, QueuedIsOf
  <2>4. ~WillAsk
    BY <1>1, <2>1 DEF WillAsk, Asks, DueShown
  <2>5. Missing' \subseteq Missing
    BY <2>1, <2>2 DEF Missing
  <2>6. client'.seq >= client.seq
    BY <1>1, <2>2
  <2>7. QED
    BY <1>1, <1>2, <2>1, <2>2, <2>3, <2>4, <2>5, <2>6, ToldStays
<1>6. CASE Render
  <2>1. /\ UNCHANGED <<ply, stage, serving, inbox, client, connected, over, stale, faults>>
        /\ ~unseen /\ ~page.due /\ page' = [Shown(client) EXCEPT !.due = Asks(client)]
    BY <1>6 DEF Render, serverVars, linkVars, Calm
  <2>2. page'.due <=> Asks(client)
    BY <2>1 DEF Shown
  <2>3. WillAsk => WillAsk'
    BY <2>1, <2>2 DEF WillAsk
  <2>4. Missing' = Missing /\ Queued' = Queued /\ client' \in Client /\ client'.seq >= client.seq
    BY <1>1, <2>1 DEF Missing, Queued
  <2>5. QED
    BY <1>1, <1>2, <2>1, <2>3, <2>4, ToldStays
<1>7. CASE Resynchronise
  <2>1. client'.phase = "resyncing"
    BY <1>1, <1>7, OthersType DEF Resynchronise
  <2>2. QED
    BY <2>1, ToldToResync
<1>8. CASE RejectMove
  <2> DEFINE c == Settled(Rejected(client), Tail(inbox))
  <2>1. /\ c \in Client /\ Reduce(c) /\ c.seq = client.seq /\ c.entering = client.entering
        /\ inbox' = Tail(inbox)
    BY <1>1, <1>8, MoveRejected
  <2> HIDE DEF c
  <2>2. /\ Head(inbox).kind = "move" /\ Of(inbox) = {Head(inbox)} \cup Of(Tail(inbox))
    BY <1>1, <1>8, Taken DEF RejectMove
  <2>3. /\ UNCHANGED <<ply, stage, serving, connected, over, stale, faults>> /\ ~unseen
        /\ client' = c
    BY <1>8, <2>1 DEF RejectMove, Reduce, serverVars, Calm
  <2>4. \A r \in Queued : r \in Queued' \/ r.kind \in {"join", "move"}
    BY <2>1, <2>2, QueuedIsOf
  <2>5. Missing' \subseteq Missing
    BY <2>1, <2>3 DEF Missing
  <2>6. c.seq >= client.seq
    BY <1>1, <2>1
  <2>7. QED
    BY <1>1, <1>2, <2>1, <2>3, <2>4, <2>5, <2>6, ToldOfDispatch
<1>9. CASE AnswerMove
  <2> DEFINE a == Applied(client, serving.snap, EndsWith(serving.snap))
             d == Settled(a, inbox)
  <2>1. /\ a \in Client /\ a.entering = client.entering /\ serving.snap \in 0..MaxPly
    BY <1>1, ServingParts, AppliedCases DEF EndsWith
  <2>2. d \in Client /\ d.seq = a.seq /\ d.phase = a.phase /\ d.entering = client.entering
    BY <1>1, <2>1, EndsType
  <2>3. /\ Reduce(d) /\ UNCHANGED <<ply, stage, inbox, connected, over, stale, faults>>
        /\ ~Resuming /\ ~unseen
    BY <1>9 DEF AnswerMove, serverVars, Resuming, Reduce, Calm
  <2> HIDE DEF d
  <2>4. QED
    BY <1>1, <1>2, <2>1, <2>2, <2>3, ToldOfApplied
<1>10. QED
  BY <1>3, <1>4, <1>5, <1>6, <1>7, <1>8, <1>9

\* The requests the page enters with, taken in their order.
LEMMA ToldRoom ==
  ASSUME Inv, ResyncIsAsked', Calm', JoinRoom \/ BeginResume
  PROVE  Told'
<1>1. /\ Typed /\ EnterFirst /\ client \in Client /\ client.seq \in Int
      /\ page.seq \in -1..MaxPly /\ page.seq \in Int
      /\ ply \in 0..MaxPly /\ MaxPly \in Nat /\ (Calm => Told)
  BY StreamAssumption DEF Inv, Typed, Client, Page
<1>2. Told /\ UNCHANGED <<ply, stage, page>>
  BY <1>1 DEF JoinRoom, BeginResume, serverVars, clientVars, Calm
<1>3. CASE JoinRoom
  <2>1. Takes("join") /\ serving' = serving
    BY <1>3 DEF JoinRoom
  <2>2. /\ Tail(inbox) \in Seq(Request) /\ Head(inbox).kind = "join"
        /\ Of(inbox) = {Head(inbox)} \cup Of(Tail(inbox))
    BY <1>1, <2>1, Taken
  <2>3. CASE client.entering = "join"
    <3> DEFINE k == IF page.seq < 0 THEN 0 ELSE page.seq
    <3>1. k \in 0..MaxPly /\ (k = 0 \/ k \in 1..client.seq)
      BY <1>1, <2>3 DEF EnterFirst
    <3>2. inbox' = Append(Tail(inbox), Resume(k)) /\ client'.seq = client.seq
      BY <1>1, <1>3, <2>3 DEF JoinRoom, Client
    <3> HIDE DEF k
    <3>3. Resume(k) \in Queued'
      BY <2>2, <3>1, <3>2, OfAppend, RequestsType, QueuedIsOf
    <3>4. CASE k = 0
      BY <3>3, <3>4 DEF Told, Asking, AskedAnew
    <3>5. CASE k \in 1..client.seq
      BY <3>2, <3>3, <3>5 DEF Told, Catching, Resume
    <3>6. QED
      BY <3>1, <3>4, <3>5
  <2>4. CASE client.entering # "join"
    <3>1. inbox' = Tail(inbox) /\ client' = client
      BY <1>3, <2>4 DEF JoinRoom
    <3>2. \A r \in Queued : r \in Queued' \/ r.kind \in {"join", "move"}
      BY <2>2, <3>1, QueuedIsOf
    <3>3. Missing' \subseteq Missing /\ (WillAsk => WillAsk')
      BY <1>2, <3>1 DEF Missing, WillAsk, Asks
    <3>4. QED
      BY <1>1, <1>2, <2>1, <3>1, <3>2, <3>3, ToldStays
  <2>5. QED
    BY <2>3, <2>4
<1>4. CASE BeginResume
  <2>1. /\ client' = client /\ inbox' = Tail(inbox)
        /\ serving' = [kind |-> Head(inbox).kind, known |-> Head(inbox).known, snap |-> ply,
                       over |-> over # "no"]
    BY <1>4 DEF BeginResume, clientVars
  <2>2. /\ Of(inbox) = {Head(inbox)} \cup Of(Tail(inbox)) /\ serving = Idle
        /\ Head(inbox).kind \in {"resume", "resync"}
    BY <1>1, <1>4, Taken DEF BeginResume
  <2>3. ~Resuming /\ Resuming' /\ serving'.known = Head(inbox).known /\ serving'.snap = ply
    BY <2>1, <2>2, RequestsType DEF Resuming
  <2>4. \A r \in Queued : r = Head(inbox) \/ r \in Queued'
    BY <2>1, <2>2, QueuedIsOf
  <2>5. Missing' = Missing /\ \A p \in Missing : p <= ply
    BY <1>1, <1>2, <2>1 DEF Missing
  <2>6. CASE client.entering = "join" \/ Missing = {}
    BY <2>1, <2>5, <2>6 DEF Told
  <2>7. ASSUME AskedAnew  PROVE Told'
    <3>1. PICK r \in Queued : r \in Anew
      BY <2>7 DEF AskedAnew, Anew
    <3>2. CASE r \in Queued'
      BY <3>1, <3>2 DEF Told, Asking, AskedAnew, Anew, Resume, Resync
    <3>3. CASE r = Head(inbox)
      BY <2>3, <3>1, <3>3, AnewKinds DEF Told, Asking
    <3>4. QED
      BY <2>4, <3>1, <3>2, <3>3
  <2>8. ASSUME NEW r \in Queued, r.kind = "resume", r.known \in 1..client.seq  PROVE Told'
    <3>1. CASE r \in Queued'
      BY <2>1, <2>8, <3>1 DEF Told, Catching
    <3>2. CASE r = Head(inbox)
      BY <2>1, <2>3, <2>5, <2>8, <3>2 DEF Told, Catching
    <3>3. QED
      BY <2>4, <2>8, <3>1, <3>2
  <2>9. CASE WillAsk
    BY <1>2, <2>1, <2>9 DEF Told, WillAsk, Asks
  <2>10. QED
    BY <1>2, <2>3, <2>6, <2>7, <2>8, <2>9 DEF Told, Asking, Catching
<1>5. QED
  BY <1>3, <1>4

LEMMA ToldStep ==
  ASSUME Inv, ResyncIsAsked', Calm', [Next]_vars
  PROVE  Told'
<1>1. CASE UNCHANGED vars
  <2>1. Calm /\ Told /\ UNCHANGED <<ply, stage, inbox, serving, client, page>>
    BY <1>1 DEF vars, serverVars, linkVars, clientVars, Calm, Inv
  <2>2. QED
    BY <2>1 DEF Told, Missing, Asking, Catching, AskedAnew, Queued, Resuming, Resume, Resync,
       WillAsk, Asks
<1>2. ASSUME Fault  PROVE FALSE
  BY <1>2 DEF Fault, Calm, Inv, Typed
<1>3. CASE \/ LoseBuffer \/ LoseRoom \/ AnnounceFails \/ EnterTimesOut \/ SubmitTimesOut
           \/ \E p \in Plies : BufferFails(p) \/ DeliveryFails(p) \/ BroadcastFails(p)
  BY <1>2, <1>3 DEF LoseBuffer, LoseRoom, AnnounceFails, EnterTimesOut, SubmitTimesOut,
     BufferFails, DeliveryFails, BroadcastFails
<1>4. CASE Drop
  BY <1>4 DEF Drop, Closed, Calm
<1>5. CASE Next
  BY <1>3, <1>4, <1>5, ToldServer, ToldBoard, ToldRoom, ToldAnswer DEF Next, Serve
<1>6. QED
  BY <1>1, <1>5

-----------------------------------------------------------------------------
(* The theorems *)

\* All parts of the invariant, from the start and through every step.
LEMMA InvAlways == Spec => []Inv
<1>1. Init => Inv
  <2>1. ASSUME Init
        PROVE  /\ ~connected /\ client.entering = "no" /\ Sent = {} /\ serving = Idle
               /\ page.seq = client.seq /\ page.due = FALSE
    BY <2>1 DEF Init, Sent, Shown
  <2>2. QED
    BY <2>1, InitTyped DEF Inv, ResyncIsAsked, Trimmed, EnterFirst, DueShown, Calm
<1>2. ASSUME Inv, [Next]_vars  PROVE Inv'
  <2>1. ResyncIsAsked'
    BY <1>2, AskedStep DEF Inv
  <2>2. Typed' /\ Trimmed' /\ EnterFirst' /\ DueShown'
    BY <1>2, TypedStep, TrimmedStep, EnterStep, DueStep DEF Inv
  <2>3. Calm' => Told'
    BY <1>2, <2>1, ToldStep
  <2>4. QED
    BY <2>1, <2>2, <2>3 DEF Inv
<1>3. QED
  BY <1>1, <1>2, PTL DEF Spec

\* A board that resyncs, in a phase that was rendered or will be, has a request
\* for the whole snapshot on its way or the effect that sends one, whatever is
\* lost, refused or answered in between.
THEOREM ResyncsAsk == Spec => []ResyncIsAsked
<1>1. Inv => ResyncIsAsked
  BY DEF Inv
<1>2. QED
  BY <1>1, InvAlways, PTL

\* A client that has entered misses no move that was sent, unless a resume that
\* will show it is on its way or a render away, or the gap came and went
\* between two renders: for a match of any length, any buffer and any number of
\* connections.
THEOREM NoSilentLoss == Spec => []NothingMissedSilently
<1>1. Inv => NothingMissedSilently
  <2>1. ASSUME Inv, Calm, client.entering = "no", ~Requested, ~WillAsk
        PROVE  Missing = {}
    <3>1. Told
      BY <2>1 DEF Inv
    <3>2. ~Asking /\ ~Catching
      BY <2>1 DEF Requested, Asking, Catching, AskedAnew, Resume, Resync
    <3>3. QED
      BY <2>1, <3>1, <3>2 DEF Told
  <2>2. ASSUME Inv, Missing = {}
        PROVE  \A p \in 1..ply : stage[p] = "done" => p <= client.seq
    <3>1. client.seq \in Int /\ ply \in Int
      BY <2>2, StreamAssumption DEF Inv, Typed, Client
    <3>2. QED
      BY <2>2, <3>1 DEF Missing
  <2>3. QED
    BY <2>1, <2>2 DEF NothingMissedSilently, Calm
<1>2. QED
  BY <1>1, InvAlways, PTL
=============================================================================
