------------------------ MODULE EndpointCacheProofs ------------------------
(***************************************************************************)
(* Theorems about EndpointCache for any number of peers and places, any    *)
(* time to live and any time that passes.                                  *)
(***************************************************************************)
EXTENDS EndpointCache, TLAPS

Answer == [Ids -> Places \cup {NoPlace}]

Holding == {"asks", "names", "puts"}

Steps == {"idle", "remove", "add", "store", "purge"}

\* TypeOK but for the lock, and the variables it does not speak of.
Types ==
  /\ now \in Nat
  /\ opened \in BOOLEAN
  /\ pubOf \subseteq Ids
  /\ wg \in Answer
  /\ left \in [Ids -> [Places \cup {NoPlace} -> Int]]
  /\ cache \in [at : Int, byID : Answer]
  /\ holder \in Routines \cup {"nobody"}
  /\ pc \in [Routines -> {"idle", "wants", "asks", "names", "puts", "done"}]
  /\ asked \in [Routines -> Nat]
  /\ got \in [Routines -> Answer]
  /\ reload.step \in Steps
  /\ reload.step \notin {"idle", "purge"} => reload.id \in Ids

Within == now <= MaxTime

\* The lock is held by the routine that asks wg.
Locked == \A r \in Routines : holder = r <=> pc[r] \in Holding

\* No stamp is of a time to come.
Past == cache.at <= now /\ \A r \in Routines : asked[r] <= now

\* An answer is of places wg had when its routine asked, or later, and what it
\* lacks csa could not have told at some time from then on.
Known(answer, t) ==
  \A q \in Ids : IF answer[q] # NoPlace THEN HadSince(q, answer[q], t) ELSE LackedSince(q, t)

CacheKnown == Known(cache.byID, cache.at)

AnswersKnown ==
  \A r \in Routines :
    /\ pc[r] \in {"names", "puts"} => Known(got[r], asked[r])
    /\ pc[r] = "done" => Known(got[r], asked[r] - TTL)

IInv == Types /\ Within /\ Locked /\ Past /\ CacheKnown /\ AnswersKnown

(***************************************************************************)
(* What a step turns it writes down in left, with the present time.        *)
(***************************************************************************)
Records ==
  /\ left' \in [Ids -> [Places \cup {NoPlace} -> Int]]
  /\ \A q \in Ids : \A p \in Places \cup {NoPlace} : left'[q][p] \in {left[q][p], now}
  /\ \A q \in Ids : wg'[q] # wg[q] => left'[q][wg[q]] = now
  /\ opened' # opened => \A q \in Ids : left'[q][NoPlace] = now
  /\ \A q \in Ids : q \in pubOf' /\ q \notin pubOf => left'[q][NoPlace] = now

\* Known, after the step.
KnownNext(answer, t) ==
  \A q \in Ids :
    IF answer[q] # NoPlace
    THEN wg'[q] = answer[q] \/ left'[q][answer[q]] >= t
    ELSE ~ opened' \/ wg'[q] = NoPlace \/ q \notin pubOf' \/ left'[q][NoPlace] >= t

\* Past is what makes this so: what is turned now was so no earlier than any
\* stamp.
LEMMA RecordsKeeps ==
  ASSUME Types, Records, NEW answer \in Answer, NEW t \in Int, t <= now, Known(answer, t)
  PROVE  KnownNext(answer, t)
<1>0. now \in Int /\ \A q \in Ids : wg[q] \in Places \cup {NoPlace} /\ answer[q] \in Places \cup {NoPlace}
  BY DEF Types, Answer
<1>1. ASSUME NEW q \in Ids, NEW p \in Places \cup {NoPlace}, left[q][p] >= t
      PROVE  left'[q][p] >= t
  <2>1. left'[q][p] = left[q][p] \/ left'[q][p] = now
    BY DEF Records
  <2> QED BY <1>0, <1>1, <2>1
<1>2. ASSUME NEW q \in Ids, answer[q] # NoPlace
      PROVE  wg'[q] = answer[q] \/ left'[q][answer[q]] >= t
  <2>1. CASE left[q][answer[q]] >= t
    BY <1>0, <1>1, <2>1
  <2>2. CASE wg[q] = answer[q]
    <3>1. wg'[q] = wg[q] \/ left'[q][wg[q]] = now
      BY DEF Records
    <3> QED BY <1>0, <2>2, <3>1
  <2> QED BY <1>2, <2>1, <2>2 DEF Known, HadSince
<1>3. ASSUME NEW q \in Ids, answer[q] = NoPlace
      PROVE  ~ opened' \/ wg'[q] = NoPlace \/ q \notin pubOf' \/ left'[q][NoPlace] >= t
  <2>1. CASE left[q][NoPlace] >= t
    BY <1>1, <2>1
  <2>2. CASE wg[q] = NoPlace
    <3>1. wg'[q] = wg[q] \/ left'[q][wg[q]] = now
      BY DEF Records
    <3> QED BY <1>0, <2>2, <3>1
  <2>3. CASE ~ opened
    <3>1. opened' = opened \/ left'[q][NoPlace] = now
      BY DEF Records
    <3> QED BY <1>0, <2>3, <3>1
  <2>4. CASE q \notin pubOf
    <3>1. q \notin pubOf' \/ left'[q][NoPlace] = now
      BY <2>4 DEF Records
    <3> QED BY <1>0, <3>1
  <2> QED BY <1>3, <2>1, <2>2, <2>3, <2>4 DEF Known, LackedSince
<1> QED BY <1>2, <1>3 DEF KnownNext

\* The same of all answers at once.
LEMMA RecordsKeepsAll ==
  ASSUME IInv, Records, UNCHANGED <<cache, asked, got>>
  PROVE  /\ CacheKnown'
         /\ \A q \in Routines :
              /\ pc[q] \in {"names", "puts"} => Known(got[q], asked[q])'
              /\ pc[q] = "done" => Known(got[q], asked[q] - TTL)'
<1>1. CacheKnown'
  <2>1. cache.byID \in Answer /\ cache.at \in Int /\ cache.at <= now /\ Known(cache.byID, cache.at)
    BY DEF IInv, Types, Past, CacheKnown
  <2>2. KnownNext(cache.byID, cache.at)
    BY <2>1, RecordsKeeps DEF IInv
  <2> QED BY <2>2 DEF CacheKnown, Known, HadSince, LackedSince, KnownNext
<1>2. ASSUME NEW q \in Routines
      PROVE  /\ pc[q] \in {"names", "puts"} => Known(got[q], asked[q])'
             /\ pc[q] = "done" => Known(got[q], asked[q] - TTL)'
  <2>1. /\ asked[q] \in Int /\ asked[q] <= now /\ asked[q] - TTL \in Int /\ asked[q] - TTL <= now
        /\ got[q] \in Answer
    BY CacheAssumption DEF IInv, Types, Past
  <2>2. CASE pc[q] \in {"names", "puts"}
    <3>1. KnownNext(got[q], asked[q])
      BY <2>1, <2>2, RecordsKeeps DEF IInv, AnswersKnown
    <3> QED BY <2>2, <3>1 DEF Known, HadSince, LackedSince, KnownNext
  <2>3. CASE pc[q] = "done"
    <3>1. KnownNext(got[q], asked[q] - TTL)
      BY <2>1, <2>3, RecordsKeeps DEF IInv, AnswersKnown
    <3> QED BY <2>3, <3>1 DEF Known, HadSince, LackedSince, KnownNext
  <2> QED BY <2>2, <2>3
<1> QED BY <1>1, <1>2

LEMMA TurnRecords ==
  ASSUME Types, NEW id \in Ids, NEW p \in Places \cup {NoPlace}, Turn(id, p),
         UNCHANGED <<opened, pubOf>>
  PROVE  wg' \in Answer /\ Records
<1>1. wg' = [wg EXCEPT ![id] = p] /\ left' = [left EXCEPT ![id][wg[id]] = now]
  BY DEF Turn
<1>2. wg[id] \in Places \cup {NoPlace} /\ now \in Int
  BY DEF Types, Answer
<1>3. wg' \in Answer /\ left' \in [Ids -> [Places \cup {NoPlace} -> Int]]
  BY <1>1, <1>2 DEF Types, Answer
<1>4. \A q \in Ids : \A x \in Places \cup {NoPlace} :
        left'[q][x] = IF q = id /\ x = wg[id] THEN now ELSE left[q][x]
  BY <1>1, <1>2 DEF Types
<1>5. \A q \in Ids : wg'[q] # wg[q] => q = id
  BY <1>1 DEF Types, Answer
<1>6. \A q \in Ids : wg'[q] # wg[q] => left'[q][wg[q]] = now
  BY <1>2, <1>4, <1>5
<1> QED BY <1>3, <1>4, <1>6 DEF Records

\* The step of a question that fails, and of Open's end.
LEMMA BlindRecords ==
  ASSUME Types, Blind, UNCHANGED <<pubOf, wg>>
  PROVE  Records /\ \A q \in Ids : left'[q][NoPlace] = now
<1>1. left' = [id \in Ids |-> [left[id] EXCEPT ![NoPlace] = now]] /\ now \in Int
  BY DEF Blind, Types
<1>2. \A q \in Ids : \A x \in Places \cup {NoPlace} :
        left'[q][x] = IF x = NoPlace THEN now ELSE left[q][x]
  BY <1>1 DEF Types
<1>3. left' \in [Ids -> [Places \cup {NoPlace} -> Int]]
  BY <1>1 DEF Types
<1> QED BY <1>2, <1>3 DEF Records

\* Where nothing turns, what is known stays so.
LEMMA StillKnown ==
  ASSUME Types, UNCHANGED <<opened, pubOf, wg, left>>
  PROVE  Records /\ \A answer, t : Known(answer, t) => KnownNext(answer, t)
<1>1. Records
  BY DEF Types, Records
<1>2. \A answer, t : Known(answer, t) => KnownNext(answer, t)
  BY DEF Known, KnownNext, HadSince, LackedSince
<1> QED BY <1>1, <1>2

LEMMA NobodyAsks == "nobody" \notin Routines
BY CacheAssumption DEF Routines

LEMMA InitIInv == Init => IInv
<1> SUFFICES ASSUME Init PROVE IInv
  OBVIOUS
<1>1. \A id \in Ids : Unknown[id] = NoPlace
  BY DEF Unknown
<1>2. Unknown \in Answer /\ wg \in Answer
  BY CacheAssumption DEF Unknown, Answer, Init
<1>3. Never \in Int /\ Never <= 0
  BY CacheAssumption DEF Never
<1>4. Types
  BY <1>2, <1>3, CacheAssumption DEF Init, Types, Idle, Steps
<1>5. Within /\ Locked /\ Past
  BY <1>3, CacheAssumption, NobodyAsks DEF Init, Within, Locked, Past, Holding
<1>6. CacheKnown /\ AnswersKnown
  BY <1>1 DEF Init, CacheKnown, AnswersKnown, Known, LackedSince
<1> QED BY <1>4, <1>5, <1>6 DEF IInv

\* A stamp may always be taken for an earlier one.
LEMMA EarlierKnown ==
  ASSUME Types, NEW answer, NEW t \in Int, NEW u \in Int, u <= t, Known(answer, t),
         \A q \in Ids : answer[q] # NoPlace => answer[q] \in Places
  PROVE  Known(answer, u)
<1>1. ASSUME NEW q \in Ids, NEW p \in Places \cup {NoPlace}, left[q][p] >= t PROVE left[q][p] >= u
  BY <1>1 DEF Types
<1> QED BY <1>1 DEF Known, HadSince, LackedSince

\* What a step of one routine leaves to show: that of its own answer.
LEMMA OneRoutine ==
  ASSUME IInv, NEW id \in Routines,
         Records, UNCHANGED <<now, opened, pubOf, wg, reload>>,
         NEW at \in {"done", "asks", "names", "puts", "idle"}, pc' = [pc EXCEPT ![id] = at],
         NEW stamp \in Nat, asked' = [asked EXCEPT ![id] = stamp], stamp <= now,
         NEW answer \in Answer, got' = [got EXCEPT ![id] = answer],
         cache' = cache \/ (pc[id] = "puts" /\ cache' = [at |-> asked[id], byID |-> got[id]]),
         at \in Holding => (holder \in {"nobody", id} /\ holder' = id),
         at \notin Holding => holder' = IF holder = id THEN "nobody" ELSE holder,
         at \in {"names", "puts"} => KnownNext(answer, stamp),
         at = "done" => KnownNext(answer, stamp - TTL)
  PROVE  IInv'
<1>1. cache' \in [at : Int, byID : Answer] /\ cache'.at <= now /\ KnownNext(cache'.byID, cache'.at)
  <2>1. CASE cache' = cache
    <3>1. /\ cache.byID \in Answer /\ cache.at \in Int /\ cache.at <= now
          /\ Known(cache.byID, cache.at) /\ cache \in [at : Int, byID : Answer]
      BY DEF IInv, Types, Past, CacheKnown
    <3>2. KnownNext(cache.byID, cache.at)
      BY <3>1, RecordsKeeps DEF IInv
    <3> QED BY <2>1, <3>1, <3>2
  <2>2. CASE pc[id] = "puts" /\ cache' = [at |-> asked[id], byID |-> got[id]]
    <3>1. got[id] \in Answer /\ asked[id] \in Int /\ asked[id] <= now /\ Known(got[id], asked[id])
      BY <2>2 DEF IInv, Types, Past, AnswersKnown
    <3>2. KnownNext(got[id], asked[id])
      BY <3>1, RecordsKeeps DEF IInv
    <3> QED BY <2>2, <3>1, <3>2
  <2> QED BY <2>1, <2>2
<1>2. Types'
  <2>1. pc' \in [Routines -> {"idle", "wants", "asks", "names", "puts", "done"}]
    BY DEF IInv, Types
  <2>2. asked' \in [Routines -> Nat] /\ got' \in [Routines -> Answer]
    BY DEF IInv, Types
  <2>3. holder' \in Routines \cup {"nobody"}
    BY DEF IInv, Types
  <2>4. left' \in [Ids -> [Places \cup {NoPlace} -> Int]]
    BY DEF Records
  <2> QED BY <1>1, <2>1, <2>2, <2>3, <2>4 DEF IInv, Types
<1>3. Within' /\ Past'
  BY <1>1 DEF IInv, Within, Past, Types
<1>4. Locked'
  <2> SUFFICES ASSUME NEW q \in Routines PROVE holder' = q <=> pc'[q] \in Holding
    BY DEF Locked
  <2>1. holder = q <=> pc[q] \in Holding
    BY DEF IInv, Locked
  <2>2. CASE q = id
    BY <2>1, <2>2, NobodyAsks DEF IInv, Types
  <2>3. CASE q # id
    <3>1. pc'[q] = pc[q]
      BY <2>3 DEF IInv, Types
    <3>2. holder' = q <=> holder = q
      BY <2>3, NobodyAsks
    <3> QED BY <2>1, <3>1, <3>2
  <2> QED BY <2>2, <2>3
<1>5. CacheKnown'
  BY <1>1 DEF CacheKnown, Known, HadSince, LackedSince, KnownNext
<1>6. AnswersKnown'
  <2> SUFFICES ASSUME NEW q \in Routines
               PROVE  /\ pc'[q] \in {"names", "puts"} => KnownNext(got'[q], asked'[q])
                      /\ pc'[q] = "done" => KnownNext(got'[q], asked'[q] - TTL)
    BY DEF AnswersKnown, Known, HadSince, LackedSince, KnownNext
  <2>1. CASE q = id
    BY <2>1 DEF IInv, Types
  <2>2. CASE q # id
    <3>1. pc'[q] = pc[q] /\ got'[q] = got[q] /\ asked'[q] = asked[q]
      BY <2>2 DEF IInv, Types
    <3>2. /\ got[q] \in Answer /\ asked[q] \in Int /\ asked[q] <= now
          /\ asked[q] - TTL \in Int /\ asked[q] - TTL <= now
      BY CacheAssumption DEF IInv, Types, Past
    <3>3. pc[q] \in {"names", "puts"} => KnownNext(got[q], asked[q])
      BY <3>2, RecordsKeeps DEF IInv, AnswersKnown
    <3>4. pc[q] = "done" => KnownNext(got[q], asked[q] - TTL)
      BY <3>2, RecordsKeeps DEF IInv, AnswersKnown
    <3> QED BY <3>1, <3>3, <3>4
  <2> QED BY <2>1, <2>2
<1> QED BY <1>2, <1>3, <1>4, <1>5, <1>6 DEF IInv

LEMMA UnknownIsKnown ==
  ASSUME NEW t
  PROVE  Unknown \in Answer /\ (~ opened => Known(Unknown, t))
BY DEF Unknown, Answer, Known, LackedSince

LEMMA EnterStep ==
  ASSUME IInv, NEW id \in Routines, Enter(id)
  PROVE  IInv'
<1>1. /\ pc[id] = "wants" /\ holder = "nobody" /\ id # "nobody"
      /\ now \in Nat /\ cache.at \in Int /\ cache.byID \in Answer /\ got[id] \in Answer
      /\ got = [got EXCEPT ![id] = got[id]]
  BY NobodyAsks DEF Enter, IInv, Types
<1>2. CASE Fresh(now)
  <2>1. now - TTL \in Int /\ now - TTL <= cache.at
    BY <1>1, <1>2, CacheAssumption DEF Fresh
  <2>2. \A q \in Ids : cache.byID[q] # NoPlace => cache.byID[q] \in Places
    BY <1>1 DEF Answer
  <2>3. Known(cache.byID, now - TTL)
    BY <1>1, <2>1, <2>2, EarlierKnown DEF IInv, CacheKnown
  <2>4. /\ pc' = [pc EXCEPT ![id] = "done"]
        /\ asked' = [asked EXCEPT ![id] = now]
        /\ got' = [got EXCEPT ![id] = cache.byID]
        /\ holder' = holder /\ cache' = cache
        /\ UNCHANGED <<now, opened, pubOf, wg, left, reload>>
    BY <1>2 DEF Enter
  <2>7. Records /\ KnownNext(cache.byID, now - TTL)
    BY <2>3, <2>4, StillKnown DEF IInv
  <2>5. "done" \notin Holding
    BY DEF Holding
  <2>6. now \in Nat /\ now <= now
    BY <1>1
  <2> QED BY <1>1, <2>4, <2>5, <2>6, <2>7, OneRoutine
<1>3. CASE ~ Fresh(now)
  <2>1. /\ pc' = [pc EXCEPT ![id] = "asks"]
        /\ asked' = [asked EXCEPT ![id] = now]
        /\ got' = [got EXCEPT ![id] = got[id]]
        /\ holder' = id /\ cache' = cache
        /\ UNCHANGED <<now, opened, pubOf, wg, left, reload>>
    BY <1>1, <1>3 DEF Enter
  <2>2. "asks" \in Holding
    BY DEF Holding
  <2>3. now \in Nat /\ now <= now
    BY <1>1
  <2>4. Records
    BY <2>1, StillKnown DEF IInv
  <2> QED BY <1>1, <2>1, <2>2, <2>3, <2>4, OneRoutine
<1> QED BY <1>2, <1>3

LEMMA GetStep ==
  ASSUME IInv, NEW id \in Routines, Get(id)
  PROVE  IInv'
<1> DEFINE answer == IF opened THEN wg ELSE Unknown
<1>1. /\ pc[id] = "asks" /\ holder = id
      /\ asked[id] \in Nat /\ asked[id] <= now /\ asked = [asked EXCEPT ![id] = asked[id]]
  BY DEF Get, IInv, Types, Past, Locked, Holding
<1>2. answer \in Answer /\ Known(answer, asked[id])
  <2>1. wg \in Answer /\ Known(wg, asked[id])
    BY DEF IInv, Types, Known, HadSince, LackedSince
  <2> QED BY <2>1, UnknownIsKnown
<1> HIDE DEF answer
<1>3. got' = [got EXCEPT ![id] = answer]
  BY DEF Get, answer
<1>4. Records /\ KnownNext(answer, asked[id])
  BY <1>2, StillKnown DEF Get, IInv
<1> QED BY <1>1, <1>2, <1>3, <1>4, OneRoutine DEF Get, Holding

LEMMA GetFailsStep ==
  ASSUME IInv, NEW id \in Routines, GetFails(id)
  PROVE  IInv'
<1>1. /\ pc[id] = "asks" /\ holder = id /\ now \in Int
      /\ asked[id] \in Nat /\ asked[id] <= now /\ asked = [asked EXCEPT ![id] = asked[id]]
  BY DEF GetFails, IInv, Types, Past, Locked, Holding
<1>2. Records /\ \A q \in Ids : left'[q][NoPlace] = now
  BY BlindRecords DEF GetFails, IInv
<1>3. Unknown \in Answer /\ \A q \in Ids : Unknown[q] = NoPlace
  BY DEF Unknown, Answer
<1>4. KnownNext(Unknown, asked[id])
  BY <1>1, <1>2, <1>3 DEF KnownNext
<1> QED BY <1>1, <1>2, <1>3, <1>4, OneRoutine DEF GetFails, Holding

LEMMA NameStep ==
  ASSUME IInv, NEW id \in Routines, Name(id)
  PROVE  IInv'
<1> DEFINE answer == [q \in Ids |-> IF q \in pubOf THEN got[id][q] ELSE NoPlace]
<1>1. /\ pc[id] = "names" /\ holder = id /\ got[id] \in Answer
      /\ asked[id] \in Nat /\ asked[id] <= now /\ asked = [asked EXCEPT ![id] = asked[id]]
  BY DEF Name, IInv, Types, Past, Locked, Holding
<1>2. answer \in Answer
  BY <1>1 DEF Answer
<1>3. Known(answer, asked[id])
  <2>1. Known(got[id], asked[id])
    BY <1>1 DEF IInv, AnswersKnown
  <2>2. \A q \in Ids : answer[q] = IF q \in pubOf THEN got[id][q] ELSE NoPlace
    OBVIOUS
  <2> HIDE DEF answer
  <2> QED BY <2>1, <2>2 DEF Known, LackedSince
<1>4. got' = [got EXCEPT ![id] = answer]
  BY DEF Name, IInv, Types
<1> HIDE DEF answer
<1>5. Records /\ KnownNext(answer, asked[id])
  BY <1>3, StillKnown DEF Name, IInv
<1> QED BY <1>1, <1>2, <1>4, <1>5, OneRoutine DEF Name, Holding

LEMMA PutStep ==
  ASSUME IInv, NEW id \in Routines, Put(id)
  PROVE  IInv'
<1>1. /\ pc[id] = "puts" /\ holder = id /\ got[id] \in Answer
      /\ asked[id] \in Nat /\ asked[id] <= now /\ asked = [asked EXCEPT ![id] = asked[id]]
      /\ got = [got EXCEPT ![id] = got[id]]
  BY DEF Put, IInv, Types, Past, Locked, Holding
<1>2. Known(got[id], asked[id] - TTL)
  <2>1. \A q \in Ids : got[id][q] # NoPlace => got[id][q] \in Places
    BY <1>1 DEF Answer
  <2>2. Known(got[id], asked[id])
    BY <1>1 DEF IInv, AnswersKnown
  <2>3. asked[id] - TTL \in Int /\ asked[id] - TTL <= asked[id] /\ asked[id] \in Int
    BY <1>1, CacheAssumption
  <2> QED BY <2>1, <2>2, <2>3, EarlierKnown DEF IInv
<1>3. Records /\ KnownNext(got[id], asked[id] - TTL)
  BY <1>2, StillKnown DEF Put, IInv
<1> QED BY <1>1, <1>3, OneRoutine DEF Put, Stamp, Holding

LEMMA DeliverStep ==
  ASSUME IInv, NEW id \in Routines, Deliver(id)
  PROVE  IInv'
<1>1. pc[id] = "done" /\ holder # id /\ 0 \in Nat /\ 0 <= now
  BY DEF Deliver, IInv, Types, Locked, Holding
<1>2. Records
  BY StillKnown DEF Deliver, IInv
<1> QED BY <1>1, <1>2, UnknownIsKnown, OneRoutine DEF Deliver, Holding

LEMMA ReceiveStep ==
  ASSUME IInv, NEW id \in Ids, NEW p \in Sources, Receive(id, p)
  PROVE  IInv'
<1>0. id \in Routines
  BY DEF Routines
<1>1. /\ p \in Places \cup {NoPlace} /\ Turn(id, p)
      /\ pc[id] = "idle" /\ pc' = [pc EXCEPT ![id] = "wants"]
      /\ UNCHANGED <<now, opened, pubOf, cache, holder, asked, got, reload>>
  BY CacheAssumption DEF Receive
<1>2. wg' \in Answer /\ Records
  BY <1>1, TurnRecords DEF IInv
<1>3. /\ CacheKnown'
      /\ \A q \in Routines :
           /\ pc[q] \in {"names", "puts"} => Known(got[q], asked[q])'
           /\ pc[q] = "done" => Known(got[q], asked[q] - TTL)'
  BY <1>1, <1>2, RecordsKeepsAll
<1>4. \A q \in Routines : pc'[q] = IF q = id THEN "wants" ELSE pc[q]
  BY <1>0, <1>1 DEF IInv, Types
<1>5. Types'
  BY <1>0, <1>1, <1>2 DEF IInv, Types, Records
<1>6. Within' /\ Past'
  BY <1>1 DEF IInv, Within, Past
<1>7. Locked'
  BY <1>1, <1>4 DEF IInv, Locked, Holding
<1>8. AnswersKnown'
  BY <1>3, <1>4 DEF AnswersKnown
<1> QED BY <1>3, <1>5, <1>6, <1>7, <1>8 DEF IInv

\* The steps that touch no packet.
LEMMA OtherStep ==
  ASSUME IInv, Records, wg' \in Answer, UNCHANGED <<cache, holder, pc, asked, got>>,
         now' \in Nat, now <= now', now' <= MaxTime,
         opened' \in BOOLEAN, pubOf' \subseteq Ids,
         reload'.step \in Steps,
         reload'.step \notin {"idle", "purge"} => reload'.id \in Ids
  PROVE  IInv'
<1>1. Types'
  BY DEF IInv, Types, Records
<1>2. Within' /\ Past' /\ Locked'
  BY DEF IInv, Types, Within, Past, Locked
<1>3. CacheKnown' /\ AnswersKnown'
  BY RecordsKeepsAll DEF AnswersKnown
<1> QED BY <1>1, <1>2, <1>3 DEF IInv

LEMMA NextIInv == IInv /\ [Next]_vars => IInv'
<1> SUFFICES ASSUME IInv, [Next]_vars PROVE IInv'
  OBVIOUS
<1>1. now \in Nat /\ now <= now /\ now <= MaxTime /\ opened \in BOOLEAN /\ pubOf \subseteq Ids
  BY DEF IInv, Types, Within
<1>2. /\ reload.step \in Steps
      /\ reload.step \notin {"idle", "purge"} => reload.id \in Ids
  BY DEF IInv, Types
<1>b. left \in [Ids -> [Places \cup {NoPlace} -> Int]]
  BY Zenon DEF IInv, Types
<1>c. now \in Int
  BY <1>1
<1>a. wg \in Answer /\ (UNCHANGED <<opened, pubOf, wg, left>> => Records)
  BY DEF IInv, Types, Records
<1>3. ASSUME NEW id \in Routines, Judge(id) PROVE IInv'
  BY <1>3, EnterStep, GetStep, GetFailsStep, NameStep, PutStep, DeliverStep DEF Judge
<1>4. ASSUME NEW id \in Ids, NEW p \in Sources, Receive(id, p) PROVE IInv'
  BY <1>4, ReceiveStep
<1>5. ASSUME NEW id \in Ids, Begin(id) PROVE IInv'
  BY <1>1, <1>a, <1>5, OtherStep DEF Begin, Steps
<1>6. CASE IpcSet
  <2>1. /\ reload.step \in {"remove", "add"} /\ reload.id \in Ids
        /\ reload' = [reload EXCEPT !.step = "store"]
        /\ UNCHANGED <<now, opened, pubOf, cache, holder, pc, asked, got>>
    BY <1>2, <1>6 DEF IpcSet
  <2>2. \E p \in Places \cup {NoPlace} : Turn(reload.id, p)
    BY <1>6, <2>1, CacheAssumption DEF IpcSet
  <2>3. wg' \in Answer /\ Records
    BY <2>1, <2>2, TurnRecords DEF IInv
  <2>4. reload'.step = "store" /\ reload'.id = reload.id /\ reload'.step \in Steps
    BY <1>6, <2>1 DEF IpcSet, IInv, Types, Steps
  <2> QED BY <1>1, <2>1, <2>3, <2>4, OtherStep
<1>7. CASE StoreSnap
  <2>1. reload.id \in Ids /\ pubOf' \subseteq Ids /\ reload'.step = "purge" /\ reload'.step \in Steps
    BY <1>1, <1>2, <1>7 DEF StoreSnap, Idle, Steps
  <2>2. Records
    <3>1. CASE reload.id \in pubOf
      BY <1>7, <3>1 DEF StoreSnap, IInv, Types, Records
    <3>2. CASE reload.id \notin pubOf
      <4> DEFINE r == reload.id
      <4>1. /\ left' = [left EXCEPT ![r][NoPlace] = now] /\ pubOf' = pubOf \cup {r}
            /\ UNCHANGED <<opened, wg>>
        BY <1>7, <3>2 DEF StoreSnap
      <4>a. r \in Ids
        BY <2>1
      <4> HIDE DEF r
      <4>2. \A q \in Ids : \A x \in Places \cup {NoPlace} :
              left'[q][x] = IF q = r /\ x = NoPlace THEN now ELSE left[q][x]
        BY <1>b, <1>c, <4>1, <4>a
      <4>3. left' \in [Ids -> [Places \cup {NoPlace} -> Int]]
        <5> DEFINE S == Places \cup {NoPlace}
                   f == [left[r] EXCEPT ![NoPlace] = now]
        <5>2. NoPlace \in S
          OBVIOUS
        <5>3. left' = [left EXCEPT ![r] = f]
          BY <1>b, <1>c, <4>1, <4>a
        <5> HIDE DEF S
        <5>4. f \in [S -> Int]
          BY <1>b, <1>c, <4>a, <5>2 DEF S
        <5> QED BY <1>b, <4>a, <5>3, <5>4 DEF S
      <4>5. \A q \in Ids : q \in pubOf' /\ q \notin pubOf => left'[q][NoPlace] = now
        BY <4>1, <4>2, <4>a
      <4>6. \A q \in Ids : \A p \in Places \cup {NoPlace} : left'[q][p] \in {left[q][p], now}
        BY <4>2
      <4> QED BY <4>1, <4>3, <4>5, <4>6 DEF Records
    <3> QED BY <3>1, <3>2
  <2> QED BY <1>1, <1>a, <1>7, <2>1, <2>2, OtherStep DEF StoreSnap
<1>8. CASE Opened
  <2>1. opened' = TRUE /\ Blind /\ UNCHANGED <<now, pubOf, wg, cache, holder, pc, asked, got, reload>>
    BY <1>8 DEF Opened
  <2>2. Records
    BY <2>1, BlindRecords DEF IInv
  <2> QED BY <1>1, <1>2, <1>a, <2>1, <2>2, OtherStep
<1>9. CASE Tick
  <2>1. now' \in Nat /\ now <= now' /\ now' <= MaxTime
    BY <1>1, <1>9, CacheAssumption DEF Tick
  <2> QED BY <1>1, <1>2, <1>a, <1>9, <2>1, OtherStep DEF Tick
<1>10. CASE Judging
  <2>1. /\ pc["reload"] = "idle" /\ pc' = [pc EXCEPT !["reload"] = "wants"]
        /\ UNCHANGED <<now, opened, pubOf, wg, left, cache, holder, asked, got, reload>>
    BY <1>10 DEF Judging
  <2>2. \A q \in Routines : pc'[q] = IF q = "reload" THEN "wants" ELSE pc[q]
    BY <2>1 DEF IInv, Types, Routines
  <2>3. Types'
    BY <2>1 DEF IInv, Types, Routines
  <2>4. Within' /\ Past' /\ CacheKnown'
    BY <2>1 DEF IInv, Within, Past, CacheKnown, Known, HadSince, LackedSince
  <2>5. Locked'
    BY <2>1, <2>2 DEF IInv, Locked, Holding
  <2>6. AnswersKnown'
    BY <2>1, <2>2 DEF IInv, AnswersKnown, Known, HadSince, LackedSince
  <2> QED BY <2>3, <2>4, <2>5, <2>6 DEF IInv
<1>11. CASE Return
  BY <1>1, <1>a, <1>11, OtherStep DEF Return, Idle, Steps
<1>12. CASE UNCHANGED vars
  BY <1>1, <1>2, <1>a, <1>12, OtherStep DEF vars
<1> QED BY <1>3, <1>4, <1>5, <1>6, <1>7, <1>8, <1>9, <1>10, <1>11, <1>12 DEF Next

LEMMA Invariance == Spec => []IInv
<1>1. Init => IInv
  BY InitIInv
<1>2. IInv /\ [Next]_vars => IInv'
  BY NextIInv
<1> QED BY <1>1, <1>2, PTL DEF Spec

(***************************************************************************)
(* Types, and the lock of endpointOf: the routine that asks wg holds it.   *)
(***************************************************************************)
THEOREM TypeCorrect == Spec => []TypeOK
<1>1. IInv => TypeOK
  BY CacheAssumption DEF IInv, Types, Within, Locked, Holding, Steps, TypeOK, Answer
<1> QED BY <1>1, Invariance, PTL

(***************************************************************************)
(* With any number of peers, and reloads that remove and add them and ask  *)
(* for themselves: a verdict uses a place wg had within TTL before it      *)
(* asked.                                                                  *)
(***************************************************************************)
THEOREM FreshAlways == Spec => []FreshWithin
<1>1. IInv => FreshWithin
  BY DEF IInv, AnswersKnown, Known, FreshWithin
<1> QED BY <1>1, Invariance, PTL

(***************************************************************************)
(* With any number of peers, registered with or without an endpoint: a     *)
(* peer is judged without a place only within TTL of a time at which csa   *)
(* could not have told one, be it before it was open, while a reload       *)
(* brought or took the peer, before the first packet of one that has no    *)
(* endpoint in the file, or when IpcGet failed.                            *)
(***************************************************************************)
THEOREM BlindForCauseAlways == Spec => []BlindForCause
<1>1. IInv => BlindForCause
  BY DEF IInv, AnswersKnown, Known, BlindForCause
<1> QED BY <1>1, Invariance, PTL
=============================================================================
