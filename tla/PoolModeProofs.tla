---------------------------- MODULE PoolModeProofs ----------------------------
(***************************************************************************)
(* The promises of the two pool clients, in pool mode as it starts: the share *)
(* dispatcher of the classic client, for any caps, jobs and failures, and the  *)
(* negotiated client, for any network and any number of registrations          *)
(* unanswered.                                                             *)
(***************************************************************************)
EXTENDS PoolMode, FiniteSetTheorems, SequenceTheorems, TLAPS

(* The share dispatcher of the classic client. *)

ShareRec == [nonce : Nonces, job : Jobs, epoch : Nat]
PostRec == [share : ShareRec, at : {"posting", "sleeping"}]

Of(s, job, e) == s.job = job /\ s.epoch = e

(* The submissions P hold the slots F: one each for those of the job and the worker
   at hand, none for the others, which are all of earlier ones. *)
SlotsHeld(P, F, done, job, e) ==
  /\ P \subseteq PostRec /\ done \subseteq Nonces
  /\ \A p, q \in P : p.share = q.share => p = q
  /\ \A p \in P : p.share.epoch <= e /\ (p.share.epoch = e => p.share.job <= job)
  /\ F = {p.share.nonce : p \in {q \in P : Of(q.share, job, e)}}
  /\ Cardinality(F) <= PendingCap
  /\ done \intersect F = {}

(* What waits is of the job and the worker at hand, once, and neither under way nor
   done with. *)
Waiting(F, done, q, job, e) ==
  /\ q \in Seq(ShareRec) /\ Len(q) <= QueueCap
  /\ \A i \in 1 .. Len(q) : Of(q[i], job, e) /\ q[i].nonce \notin F \union done
  /\ \A i, k \in 1 .. Len(q) : q[i].nonce = q[k].nonce => i = k

(* The pool never goes back to a job, so a job offered anew has no submissions. *)
JobsForward ==
  /\ epoch \in Nat /\ poolJob \in Jobs /\ submitJobId \in 0 .. poolJob
  /\ work # None => work \in Jobs \X Slots /\ work[1] \in submitJobId .. poolJob

ShareInv ==
  /\ SlotsHeld(posts, inFlight, submitted, submitJobId, epoch)
  /\ Waiting(inFlight, submitted, queue, submitJobId, epoch)
  /\ queue # <<>> => Cardinality(inFlight) = PendingCap
  /\ JobsForward

LEMMA SlotsFinite ==
  ASSUME NEW P, NEW F, NEW done, NEW job, NEW e, SlotsHeld(P, F, done, job, e)
  PROVE  F \subseteq Nonces /\ IsFiniteSet(F) /\ Cardinality(F) \in Nat
<1>1. F \subseteq Nonces
  BY DEF SlotsHeld, PostRec, ShareRec
<1>2. IsFiniteSet(F)
  BY <1>1, PoolAssumption, FS_Subset
<1> QED
  BY <1>1, <1>2, FS_CardinalityType

LEMMA LaunchIsPost ==
  ASSUME NEW s \in ShareRec
  PROVE  Launch(s) \in PostRec /\ Launch(s).share = s
BY DEF Launch, Run, PostRec

(* A share that is neither under way nor done with takes a free slot. *)
LEMMA SlotTaken ==
  ASSUME NEW P, NEW F, NEW done, NEW job, NEW e, SlotsHeld(P, F, done, job, e),
         job \in Nat, e \in Nat, NEW p \in PostRec, Of(p.share, job, e),
         p.share.nonce \notin F \union done, Cardinality(F) < PendingCap
  PROVE  /\ SlotsHeld(P \union {p}, F \union {p.share.nonce}, done, job, e)
         /\ Cardinality(F \union {p.share.nonce}) = Cardinality(F) + 1
<1> DEFINE n == p.share.nonce
<1>1. IsFiniteSet(F) /\ Cardinality(F) \in Nat
  BY SlotsFinite
<1>2. Cardinality(F \union {n}) = Cardinality(F) + 1
  BY <1>1, FS_AddElement
<1>3. Cardinality(F \union {n}) <= PendingCap
  BY <1>1, <1>2, PoolAssumption
<1>4. \A q \in P : q.share # p.share
  BY DEF SlotsHeld
<1>5. F \union {n} = {q.share.nonce : q \in {r \in P \union {p} : Of(r.share, job, e)}}
  BY DEF SlotsHeld
<1>6. \A q, r \in P \union {p} : q.share = r.share => q = r
  BY <1>4 DEF SlotsHeld
<1>7. \A q \in P \union {p} : q.share.epoch <= e /\ (q.share.epoch = e => q.share.job <= job)
  BY DEF SlotsHeld, Of
<1> QED
  BY <1>2, <1>3, <1>5, <1>6, <1>7 DEF SlotsHeld

(* A submission of the job and the worker at hand gives its slot back. *)
LEMMA SlotFreed ==
  ASSUME NEW P, NEW F, NEW done, NEW job, NEW e, SlotsHeld(P, F, done, job, e),
         NEW p \in P, Of(p.share, job, e)
  PROVE  /\ SlotsHeld(P \ {p}, F \ {p.share.nonce}, done, job, e)
         /\ SlotsHeld(P \ {p}, F \ {p.share.nonce}, done \union {p.share.nonce}, job, e)
         /\ p.share.nonce \in F
         /\ Cardinality(F \ {p.share.nonce}) = Cardinality(F) - 1
<1> DEFINE n == p.share.nonce
<1>1. IsFiniteSet(F) /\ Cardinality(F) \in Nat /\ F \subseteq Nonces
  BY SlotsFinite
<1>2. n \in F
  BY DEF SlotsHeld
<1>3. Cardinality(F \ {n}) = Cardinality(F) - 1
  BY <1>1, <1>2, FS_RemoveElement
<1>4. Cardinality(F \ {n}) <= PendingCap
  BY <1>1, <1>3, PoolAssumption DEF SlotsHeld
<1>5. ASSUME NEW q \in P \ {p}, Of(q.share, job, e) PROVE q.share.nonce # n
  <2>1. q.share # p.share /\ q.share \in ShareRec /\ p.share \in ShareRec
    BY DEF SlotsHeld, PostRec
  <2> QED
    BY <1>5, <2>1 DEF ShareRec, Of
<1>6. F \ {n} = {q.share.nonce : q \in {r \in P \ {p} : Of(r.share, job, e)}}
  BY <1>5 DEF SlotsHeld
<1>7. n \in Nonces
  BY <1>1, <1>2
<1> QED
  BY <1>2, <1>3, <1>4, <1>6, <1>7 DEF SlotsHeld

(* One of an earlier job or worker has none to give back. *)
LEMMA NoSlotFreed ==
  ASSUME NEW P, NEW F, NEW done, NEW job, NEW e, SlotsHeld(P, F, done, job, e),
         NEW p \in P, ~Of(p.share, job, e)
  PROVE  SlotsHeld(P \ {p}, F, done, job, e)
<1>1. F = {q.share.nonce : q \in {r \in P \ {p} : Of(r.share, job, e)}}
  BY DEF SlotsHeld
<1> QED
  BY <1>1 DEF SlotsHeld

(* A submission sleeps or posts again: it is the same submission. *)
LEMMA SlotKept ==
  ASSUME NEW P, NEW F, NEW done, NEW job, NEW e, SlotsHeld(P, F, done, job, e),
         NEW p \in P, NEW a \in {"posting", "sleeping"}
  PROVE  SlotsHeld((P \ {p}) \union {Run(p.share, a)}, F, done, job, e)
<1> DEFINE q == Run(p.share, a)
<1>1. q \in PostRec /\ q.share = p.share
  BY DEF Run, PostRec, SlotsHeld
<1> HIDE DEF q
<1>2. F = {r.share.nonce : r \in {t \in (P \ {p}) \union {q} : Of(t.share, job, e)}}
  <2>1. F = {r.share.nonce : r \in {t \in P : Of(t.share, job, e)}}
    BY DEF SlotsHeld
  <2> QED
    BY <1>1, <2>1
<1> QED
  BY <1>1, <1>2 DEF SlotsHeld, q

(* A new job or worker starts with free slots; what is under way was of others. *)
LEMMA SlotsCleared ==
  ASSUME NEW P, NEW F, NEW done, NEW job, NEW e, SlotsHeld(P, F, done, job, e),
         NEW j, NEW d, \A p \in P : ~Of(p.share, j, d),
         \A p \in P : p.share.epoch <= d /\ (p.share.epoch = d => p.share.job <= j)
  PROVE  SlotsHeld(P, {}, {}, j, d) /\ Waiting({}, {}, <<>>, j, d)
<1>1. Cardinality({}) = 0
  BY FS_EmptySet
<1>2. {} = {q.share.nonce : q \in {r \in P : Of(r.share, j, d)}}
  OBVIOUS
<1>3. <<>> \in Seq(ShareRec) /\ Len(<<>>) = 0
  OBVIOUS
<1> QED
  BY <1>1, <1>2, <1>3, PoolAssumption DEF SlotsHeld, Waiting

(* drain with at most one free slot: the head of the queue takes it, or nobody
   waits, or there is none. *)
LEMMA Drained ==
  ASSUME NEW busy, NEW live, Drain(busy, live), submitJobId \in Nat, epoch \in Nat,
         SlotsHeld(live, busy, submitted', submitJobId, epoch),
         Waiting(busy, submitted', queue, submitJobId, epoch),
         queue # <<>> => Cardinality(busy) >= PendingCap - 1
  PROVE  /\ SlotsHeld(posts', inFlight', submitted', submitJobId, epoch)
         /\ Waiting(inFlight', submitted', queue', submitJobId, epoch)
         /\ queue' # <<>> => Cardinality(inFlight') = PendingCap
         /\ busy \subseteq inFlight' /\ Queued \subseteq (inFlight \union Queued)'
         /\ \A p \in posts' : p \in live \/ p.share.nonce \notin busy \union submitted'
<1> DEFINE waiting == {i \in DOMAIN queue : Payable(queue[i], busy)}
           first == Min(waiting)
<1>1. /\ queue \in Seq(ShareRec) /\ Len(queue) \in Nat /\ DOMAIN queue = 1 .. Len(queue)
      /\ Cardinality(busy) \in Nat /\ Cardinality(busy) <= PendingCap
  <2>1. Cardinality(busy) \in Nat
    BY SlotsFinite
  <2>2. queue \in Seq(ShareRec)
    BY DEF Waiting
  <2> QED
    BY <2>1, <2>2 DEF SlotsHeld
<1>2. waiting = 1 .. Len(queue)
  BY <1>1 DEF Waiting, Payable, Of
<1>3. CASE Cardinality(busy) >= PendingCap
  <2>1. inFlight' = busy /\ posts' = live /\ queue' = queue
    BY <1>3 DEF Drain
  <2> QED
    BY <1>1, <1>3, <2>1, PoolAssumption DEF Queued
<1>4. CASE ~(Cardinality(busy) >= PendingCap) /\ queue = <<>>
  <2>1. waiting = {}
    BY <1>2, <1>4
  <2>2. inFlight' = busy /\ posts' = live /\ queue' = <<>>
    BY <1>4, <2>1 DEF Drain
  <2> QED
    BY <1>4, <2>2 DEF Queued
<1>5. CASE ~(Cardinality(busy) >= PendingCap) /\ queue # <<>>
  <2>1. Len(queue) >= 1 /\ waiting # {}
    BY <1>1, <1>2, <1>5
  <2>2. first = 1
    <3>1. 1 \in waiting /\ \A i \in waiting : 1 =< i
      BY <1>2, <2>1
    <3>2. \A m \in waiting : (\A i \in waiting : m =< i) => m = 1
      BY <1>2, <3>1
    <3> HIDE DEF waiting
    <3> QED
      BY <3>1, <3>2 DEF Min
  <2> DEFINE s == queue[1]
             p == Launch(s)
  <2>3. /\ inFlight' = busy \union {s.nonce} /\ posts' = live \union {p}
        /\ queue' = SubSeq(queue, 2, Len(queue))
    <3>1. first + 1 = 2
      BY <2>2
    <3> QED
      BY <1>5, <2>1, <2>2, <3>1 DEF Drain
  <2>4. s \in ShareRec /\ Of(s, submitJobId, epoch) /\ s.nonce \notin busy \union submitted'
    BY <1>1, <2>1 DEF Waiting
  <2>5. p \in PostRec /\ p.share = s
    BY <2>4, LaunchIsPost
  <2> HIDE DEF waiting, p
  <2>6. /\ SlotsHeld(posts', inFlight', submitted', submitJobId, epoch)
        /\ Cardinality(inFlight') = Cardinality(busy) + 1
    <3>1. Cardinality(busy) < PendingCap
      BY <1>1, <1>5, PoolAssumption
    <3>2. Of(p.share, submitJobId, epoch) /\ p.share.nonce \notin busy \union submitted'
      BY <2>4, <2>5
    <3>3. /\ SlotsHeld(live \union {p}, busy \union {p.share.nonce}, submitted', submitJobId, epoch)
          /\ Cardinality(busy \union {p.share.nonce}) = Cardinality(busy) + 1
      BY <2>5, <3>1, <3>2, SlotTaken
    <3> QED
      BY <2>3, <2>5, <3>3
  <2>7. Cardinality(inFlight') = PendingCap
    BY <1>1, <1>5, <2>6, PoolAssumption
  <2>8. /\ queue' \in Seq(ShareRec) /\ Len(queue') = Len(queue) - 1
        /\ \A i \in 1 .. Len(queue') : queue'[i] = queue[i + 1] /\ i + 1 \in 1 .. Len(queue)
    BY <1>1, <2>1, <2>3
  <2>9. Waiting(inFlight', submitted', queue', submitJobId, epoch)
    <3>1. Len(queue') <= QueueCap
      BY <1>1, <2>8, PoolAssumption DEF Waiting
    <3>2. ASSUME NEW i \in 1 .. Len(queue')
          PROVE  /\ Of(queue'[i], submitJobId, epoch)
                 /\ queue'[i].nonce \notin inFlight' \union submitted'
      <4>1. queue'[i] = queue[i + 1] /\ i + 1 \in 1 .. Len(queue)
        BY <2>8
      <4>2. /\ Of(queue[i + 1], submitJobId, epoch)
            /\ queue[i + 1].nonce \notin busy \union submitted'
        BY <4>1 DEF Waiting
      <4>3. 1 \in 1 .. Len(queue) /\ i + 1 # 1
        BY <1>1, <2>1
      <4>4. queue[i + 1].nonce # s.nonce
        BY <4>1, <4>3 DEF Waiting
      <4> QED
        BY <2>3, <4>1, <4>2, <4>4
    <3>3. ASSUME NEW i \in 1 .. Len(queue'), NEW k \in 1 .. Len(queue'),
                 queue'[i].nonce = queue'[k].nonce
          PROVE  i = k
      <4>1. i + 1 = k + 1
        BY <2>8, <3>3 DEF Waiting
      <4> QED
        BY <4>1, <1>1, <2>8
    <3> QED
      BY <2>8, <3>1, <3>2, <3>3 DEF Waiting
  <2>10. Queued \subseteq (inFlight \union Queued)'
    <3> SUFFICES ASSUME NEW i \in 1 .. Len(queue)
                 PROVE  queue[i].nonce \in inFlight' \union Queued'
      BY <1>1 DEF Queued
    <3>1. CASE i = 1
      BY <2>3, <3>1
    <3>2. CASE i # 1
      <4>1. i - 1 \in 1 .. Len(queue') /\ queue'[i - 1] = queue[(i - 1) + 1] /\ (i - 1) + 1 = i
        BY <1>1, <2>8, <3>2
      <4>2. i - 1 \in DOMAIN queue' /\ queue'[i - 1] = queue[i]
        BY <2>8, <4>1
      <4> QED
        BY <4>2 DEF Queued
    <3> QED
      BY <3>1, <3>2
  <2> QED
    BY <2>3, <2>4, <2>5, <2>6, <2>7, <2>9, <2>10
<1> QED
  BY <1>3, <1>4, <1>5

(* The backlog loses its oldest share, or gets another one. *)
LEMMA WaitingTail ==
  ASSUME NEW F, NEW done, NEW q, NEW job, NEW e, Waiting(F, done, q, job, e), q # <<>>
  PROVE  /\ Waiting(F, done, Tail(q), job, e) /\ Len(Tail(q)) = Len(q) - 1
         /\ \A i \in 1 .. Len(q) : i = 1 \/ (i - 1 \in 1 .. Len(Tail(q)) /\ Tail(q)[i - 1] = q[i])
<1> DEFINE t == Tail(q)
<1>1. q \in Seq(ShareRec) /\ Len(q) \in Nat /\ Len(q) > 0 /\ Len(q) <= QueueCap
  BY DEF Waiting
<1>2. /\ t \in Seq(ShareRec) /\ Len(t) = Len(q) - 1
      /\ \A i \in 1 .. Len(t) : t[i] = q[i + 1]
  BY <1>1
<1> HIDE DEF t
<1>3. \A i \in 1 .. Len(t) : i + 1 \in 1 .. Len(q)
  BY <1>1, <1>2
<1>4. Len(t) <= QueueCap
  BY <1>1, <1>2, PoolAssumption
<1>5. ASSUME NEW i \in 1 .. Len(t), NEW k \in 1 .. Len(t), t[i].nonce = t[k].nonce
      PROVE  i = k
  <2>1. i + 1 = k + 1
    BY <1>2, <1>3, <1>5 DEF Waiting
  <2> QED
    BY <2>1, <1>1, <1>2
<1>6. Waiting(F, done, t, job, e)
  BY <1>2, <1>3, <1>4, <1>5 DEF Waiting
<1>7. ASSUME NEW i \in 1 .. Len(q), i # 1
      PROVE  i - 1 \in 1 .. Len(t) /\ t[i - 1] = q[i]
  <2>1. i - 1 \in 1 .. Len(t) /\ (i - 1) + 1 = i
    BY <1>1, <1>2, <1>7
  <2>2. t[i - 1] = q[(i - 1) + 1]
    BY <1>2, <2>1
  <2> QED
    BY <2>1, <2>2
<1> QED
  BY <1>2, <1>6, <1>7 DEF t

LEMMA WaitingAppend ==
  ASSUME NEW F, NEW done, NEW q, NEW job, NEW e, Waiting(F, done, q, job, e),
         Len(q) < QueueCap, NEW s \in ShareRec, Of(s, job, e),
         s.nonce \notin F \union done, \A i \in 1 .. Len(q) : q[i].nonce # s.nonce
  PROVE  Waiting(F, done, Append(q, s), job, e)
<1> DEFINE t == Append(q, s)
<1>1. q \in Seq(ShareRec) /\ Len(q) \in Nat
  BY DEF Waiting
<1>2. /\ t \in Seq(ShareRec) /\ Len(t) = Len(q) + 1 /\ t[Len(t)] = s
      /\ \A i \in 1 .. Len(q) : t[i] = q[i]
  BY <1>1
<1> HIDE DEF t
<1>3. \A i \in 1 .. Len(t) : i \in 1 .. Len(q) \/ i = Len(t)
  BY <1>1, <1>2
<1>4. Len(t) <= QueueCap
  BY <1>1, <1>2, PoolAssumption
<1>5. \A i \in 1 .. Len(t) : Of(t[i], job, e) /\ t[i].nonce \notin F \union done
  BY <1>2, <1>3 DEF Waiting
<1>6. \A i, k \in 1 .. Len(t) : t[i].nonce = t[k].nonce => i = k
  BY <1>2, <1>3 DEF Waiting
<1> QED
  BY <1>2, <1>4, <1>5, <1>6 DEF Waiting, t

-----------------------------------------------------------------------------
(* The steps of the dispatcher, with what ShareKept says of each. *)

Keeping ==
  (submitJobId' = submitJobId /\ epoch' = epoch) =>
    \A n \in inFlight \union Queued : Kept(n) \/ Overflown(n) \/ GivenUp(n)

LEMMA JobsTyped ==
  ASSUME JobsForward
  PROVE  epoch \in Nat /\ submitJobId \in Nat /\ poolJob \in Nat
BY PoolAssumption DEF JobsForward, Jobs

LEMMA SlotsCounted ==
  ASSUME ShareInv
  PROVE  Cardinality(inFlight) \in Nat /\ Cardinality(inFlight) <= PendingCap
<1>1. SlotsHeld(posts, inFlight, submitted, submitJobId, epoch)
  BY DEF ShareInv
<1>2. Cardinality(inFlight) \in Nat
  BY <1>1, SlotsFinite
<1> QED
  BY <1>1, <1>2 DEF SlotsHeld

(* A verdict, or the end of a submission without one. *)
LEMMA CompleteStep ==
  ASSUME ShareInv, NEW p \in posts, NEW reached \in BOOLEAN, Complete(p, reached),
         reached \/ p.at = "sleeping" \/ stopped,
         UNCHANGED <<epoch, poolJob, work>>
  PROVE  ShareInv' /\ Keeping
<1> DEFINE n == p.share.nonce
<1>1. submitJobId \in Nat /\ epoch \in Nat /\ submitJobId' = submitJobId
  BY JobsTyped DEF ShareInv, Complete
<1>2. JobsForward'
  BY <1>1 DEF ShareInv, JobsForward
<1>3. SameSpan(p.share) <=> Of(p.share, submitJobId, epoch)
  BY DEF SameSpan, Of
<1>4. Cardinality(inFlight) \in Nat /\ Cardinality(inFlight) <= PendingCap
  BY SlotsCounted
<1>5. CASE Of(p.share, submitJobId, epoch)
  <2>1. /\ submitted' = IF reached THEN submitted \union {n} ELSE submitted
        /\ Drain(inFlight \ {n}, posts \ {p})
    BY <1>3, <1>5 DEF Complete
  <2>2. /\ SlotsHeld(posts \ {p}, inFlight \ {n}, submitted', submitJobId, epoch)
        /\ n \in inFlight /\ Cardinality(inFlight \ {n}) = Cardinality(inFlight) - 1
    <3>1. SlotsHeld(posts, inFlight, submitted, submitJobId, epoch)
      BY DEF ShareInv
    <3>2. /\ SlotsHeld(posts \ {p}, inFlight \ {n}, submitted, submitJobId, epoch)
          /\ SlotsHeld(posts \ {p}, inFlight \ {n}, submitted \union {n}, submitJobId, epoch)
          /\ n \in inFlight /\ Cardinality(inFlight \ {n}) = Cardinality(inFlight) - 1
      BY <1>5, <3>1, SlotFreed
    <3> QED
      BY <2>1, <3>2
  <2>3. Waiting(inFlight \ {n}, submitted', queue, submitJobId, epoch)
    BY <2>1, <2>2 DEF ShareInv, Waiting
  <2>4. queue # <<>> => Cardinality(inFlight \ {n}) >= PendingCap - 1
    BY <1>4, <2>2, PoolAssumption DEF ShareInv
  <2>5. /\ SlotsHeld(posts', inFlight', submitted', submitJobId, epoch)
        /\ Waiting(inFlight', submitted', queue', submitJobId, epoch)
        /\ queue' # <<>> => Cardinality(inFlight') = PendingCap
        /\ inFlight \ {n} \subseteq inFlight' /\ Queued \subseteq (inFlight \union Queued)'
        /\ \A q \in posts' : q \in posts \ {p} \/ q.share.nonce \notin (inFlight \ {n}) \union submitted'
    BY <1>1, <2>1, <2>2, <2>3, <2>4, Drained
  <2>6. ASSUME NEW m \in inFlight \union Queued
        PROVE  Kept(m) \/ GivenUp(m)
    <3>1. CASE m # n \/ m \in Queued
      BY <2>5, <2>6, <3>1 DEF Kept
    <3>2. CASE m = n /\ reached
      BY <2>1, <3>2 DEF Kept
    <3>3. CASE m = n /\ ~reached
      <4>1. CASE p \in posts'
        BY <1>5, <2>5, <3>3, <4>1 DEF Kept, SlotsHeld
      <4>2. CASE p \notin posts'
        BY <1>3, <1>5, <3>3, <4>2 DEF GivenUp, Present
      <4> QED
        BY <4>1, <4>2
    <3> QED
      BY <3>1, <3>2, <3>3
  <2>7. ShareInv'
    BY <1>1, <1>2, <2>5 DEF ShareInv
  <2> QED
    BY <2>6, <2>7 DEF Keeping
<1>6. CASE ~Of(p.share, submitJobId, epoch)
  <2>1. submitted' = submitted /\ Drain(inFlight, posts \ {p})
    BY <1>3, <1>6 DEF Complete
  <2>2. SlotsHeld(posts \ {p}, inFlight, submitted', submitJobId, epoch)
    BY <1>6, <2>1, NoSlotFreed DEF ShareInv
  <2>3. queue # <<>> => Cardinality(inFlight) >= PendingCap - 1
    BY <1>4, PoolAssumption DEF ShareInv
  <2>4. /\ SlotsHeld(posts', inFlight', submitted', submitJobId, epoch)
        /\ Waiting(inFlight', submitted', queue', submitJobId, epoch)
        /\ queue' # <<>> => Cardinality(inFlight') = PendingCap
        /\ inFlight \subseteq inFlight' /\ Queued \subseteq (inFlight \union Queued)'
    BY <1>1, <2>1, <2>2, <2>3, Drained DEF ShareInv
  <2>5. Keeping
    BY <2>4 DEF Keeping, Kept
  <2> QED
    BY <1>1, <1>2, <2>4, <2>5 DEF ShareInv
<1> QED
  BY <1>5, <1>6

(* offer. *)
LEMMA OfferStep ==
  ASSUME ShareInv, NEW n \in Nonces, Offer(n)
  PROVE  ShareInv' /\ Keeping
<1> DEFINE s == Share(n)
           p == Launch(s)
<1>1. /\ epoch \in Nat /\ submitJobId \in Nat /\ poolJob \in Nat
      /\ work \in Jobs \X Slots /\ work[1] \in submitJobId .. poolJob
      /\ UNCHANGED <<work, epoch, poolJob>>
  BY JobsTyped DEF ShareInv, JobsForward, Offer, grindVars
<1>2. /\ work[1] \in Jobs /\ work[1] \in Nat
      /\ s \in ShareRec /\ s.nonce = n /\ Of(s, work[1], epoch)
  BY <1>1 DEF Share, ShareRec, Of, Jobs
<1> HIDE DEF s
<1>3. p \in PostRec /\ p.share = s
  BY <1>2, LaunchIsPost
<1> HIDE DEF p
<1>4. Cardinality(inFlight) \in Nat /\ Cardinality(inFlight) <= PendingCap
  BY SlotsCounted
<1>5. CASE work[1] # submitJobId
  <2>1. /\ submitJobId' = work[1] /\ submitted' = {} /\ queue' = <<>>
        /\ inFlight' = {n} /\ posts' = posts \union {p}
    BY <1>5 DEF Offer, p, s
  <2>2. \A q \in posts : q.share.job \in Nat
    BY DEF ShareInv, SlotsHeld, PostRec, ShareRec, Jobs
  <2>3. ASSUME NEW q \in posts
        PROVE  /\ ~Of(q.share, work[1], epoch) /\ q.share.epoch <= epoch
               /\ (q.share.epoch = epoch => q.share.job <= work[1])
    <3>1. q.share.epoch <= epoch /\ (q.share.epoch = epoch => q.share.job <= submitJobId)
      BY DEF ShareInv, SlotsHeld
    <3> QED
      BY <1>1, <1>5, <2>2, <3>1 DEF Of
  <2>4. SlotsHeld(posts, {}, {}, work[1], epoch) /\ Waiting({}, {}, <<>>, work[1], epoch)
    BY <2>3, SlotsCleared DEF ShareInv
  <2>5. Cardinality({}) < PendingCap
    BY FS_EmptySet, PoolAssumption
  <2>6. Of(p.share, work[1], epoch) /\ p.share.nonce = n
    BY <1>2, <1>3
  <2>7. SlotsHeld(posts \union {p}, {} \union {n}, {}, work[1], epoch)
    BY <1>1, <1>2, <1>3, <2>4, <2>5, <2>6, SlotTaken
  <2>8. SlotsHeld(posts', inFlight', submitted', submitJobId', epoch')
    BY <1>1, <2>1, <2>7
  <2>9. Waiting(inFlight', submitted', queue', submitJobId', epoch')
    BY <1>1, <2>1, <2>4 DEF Waiting
  <2>10. JobsForward'
    BY <1>1, <1>2, <2>1 DEF JobsForward, ShareInv
  <2> QED
    BY <1>5, <2>1, <2>8, <2>9, <2>10 DEF ShareInv, Keeping
<1>6. CASE work[1] = submitJobId
  <2>1. /\ n \notin submitted \union inFlight \union Queued
        /\ UNCHANGED <<submitJobId, submitted>>
        /\ IF Cardinality(inFlight) >= PendingCap
             THEN Enqueue(s) /\ UNCHANGED <<inFlight, posts>>
             ELSE inFlight' = inFlight \union {n} /\ posts' = posts \union {p} /\ UNCHANGED queue
    BY <1>6 DEF Offer, p, s
  <2>2. Of(s, submitJobId, epoch)
    BY <1>2, <1>6
  <2>3. JobsForward'
    BY <1>1, <2>1 DEF JobsForward, ShareInv
  <2>4. queue \in Seq(ShareRec) /\ Len(queue) \in Nat /\ DOMAIN queue = 1 .. Len(queue)
    <3>1. queue \in Seq(ShareRec)
      BY DEF ShareInv, Waiting
    <3> QED
      BY <3>1
  <2>5. CASE ~(Cardinality(inFlight) >= PendingCap)
    <3>1. queue = <<>> /\ queue' = queue /\ inFlight' = inFlight \union {n}
          /\ posts' = posts \union {p}
      BY <1>4, <2>1, <2>5, PoolAssumption DEF ShareInv
    <3>2. Cardinality(inFlight) < PendingCap
      BY <1>4, <2>5, PoolAssumption
    <3>3. Of(p.share, submitJobId, epoch) /\ p.share.nonce = n
      BY <1>2, <1>3, <2>2
    <3>4. SlotsHeld(posts', inFlight', submitted', submitJobId', epoch')
      BY <1>1, <1>3, <2>1, <3>1, <3>2, <3>3, SlotTaken DEF ShareInv
    <3>5. Waiting(inFlight', submitted', queue', submitJobId', epoch')
      BY <1>1, <2>1, <3>1 DEF ShareInv, Waiting
    <3>6. Keeping
      BY <3>1 DEF Keeping, Kept, Queued
    <3> QED
      BY <2>3, <3>1, <3>4, <3>5, <3>6 DEF ShareInv
  <2>6. CASE Cardinality(inFlight) >= PendingCap
    <3>0. Len(queue) \in Nat /\ QueueCap \in Nat \ {0} /\ Len(queue) <= QueueCap
      BY <2>4, PoolAssumption DEF ShareInv, Waiting
    <3> DEFINE q == IF Len(queue) >= QueueCap THEN Tail(queue) ELSE queue
    <3>1. queue' = Append(q, s) /\ UNCHANGED <<inFlight, posts>>
      BY <2>1, <2>6 DEF Enqueue
    <3>2. Cardinality(inFlight) = PendingCap
      BY <1>4, <2>6, PoolAssumption
    <3>3. Waiting(inFlight, submitted, queue, submitJobId, epoch) /\ Len(queue) <= QueueCap
      BY DEF ShareInv, Waiting
    <3>4. /\ Waiting(inFlight, submitted, q, submitJobId, epoch) /\ Len(q) < QueueCap
          /\ Len(queue) >= QueueCap => Len(q) = QueueCap - 1
          /\ \A i \in 1 .. Len(queue) :
               \/ i = 1 /\ Len(queue) >= QueueCap
               \/ \E k \in 1 .. Len(q) : q[k] = queue[i]
      <4>1. CASE Len(queue) >= QueueCap
        <5>1. queue # <<>>
          BY <2>4, <4>1, PoolAssumption
        <5>2. q = Tail(queue)
          BY <4>1
        <5> HIDE DEF q
        <5>3. Waiting(inFlight, submitted, q, submitJobId, epoch) /\ Len(q) = Len(queue) - 1
              /\ \A i \in 1 .. Len(queue) : i = 1 \/ (i - 1 \in 1 .. Len(q) /\ q[i - 1] = queue[i])
          BY <3>3, <5>1, <5>2, WaitingTail
        <5>4. Len(queue) = QueueCap /\ Len(q) = QueueCap - 1 /\ Len(q) < QueueCap
          BY <3>0, <4>1, <5>3
        <5> QED
          BY <4>1, <5>3, <5>4
      <4>2. CASE ~(Len(queue) >= QueueCap)
        <5>1. q = queue
          BY <4>2
        <5> HIDE DEF q
        <5> QED
          BY <2>4, <3>3, <4>2, <5>1, PoolAssumption
      <4> QED
        BY <4>1, <4>2
    <3>5. \A k \in 1 .. Len(q) : q[k].nonce # n
      <4>1. ASSUME NEW k \in 1 .. Len(q) PROVE \E i \in 1 .. Len(queue) : q[k] = queue[i]
        <5>1. CASE Len(queue) >= QueueCap
          <6>1. queue # <<>>
            BY <2>4, <5>1, PoolAssumption
          <6>2. /\ Len(Tail(queue)) = Len(queue) - 1
                /\ \A i \in 1 .. Len(Tail(queue)) : Tail(queue)[i] = queue[i + 1]
            BY <2>4, <6>1
          <6>3. k \in 1 .. Len(Tail(queue)) /\ k + 1 \in 1 .. Len(queue) /\ q = Tail(queue)
            BY <2>4, <5>1, <6>2
          <6> QED
            BY <6>2, <6>3
        <5>2. CASE ~(Len(queue) >= QueueCap)
          BY <5>2
        <5> QED
          BY <5>1, <5>2
      <4>2. \A i \in 1 .. Len(queue) : queue[i].nonce # n
        BY <2>1, <2>4 DEF Queued
      <4> QED
        BY <4>1, <4>2
    <3> HIDE DEF q
    <3>6. Waiting(inFlight, submitted, Append(q, s), submitJobId, epoch)
      BY <1>2, <2>1, <2>2, <3>4, <3>5, WaitingAppend
    <3>7. q \in Seq(ShareRec) /\ Len(q) \in Nat
      <4>1. q \in Seq(ShareRec)
        BY <3>4 DEF Waiting
      <4> QED
        BY <4>1
    <3>8. /\ Len(queue') = Len(q) + 1 /\ DOMAIN queue' = 1 .. Len(queue')
          /\ \A k \in 1 .. Len(q) : queue'[k] = q[k] /\ k \in DOMAIN queue'
      BY <1>2, <3>1, <3>7
    <3>9. ASSUME NEW m \in inFlight \union Queued PROVE Kept(m) \/ Overflown(m)
      <4>1. CASE m \in inFlight
        BY <3>1, <4>1 DEF Kept
      <4>2. CASE m \in Queued
        <5>1. PICK i \in 1 .. Len(queue) : m = queue[i].nonce
          BY <2>4, <4>2 DEF Queued
        <5>2. CASE i = 1 /\ Len(queue) >= QueueCap
          <6>0. Len(q) = QueueCap - 1 /\ Len(queue') = Len(q) + 1
            BY <3>4, <3>8, <5>2
          <6>1. Len(queue) = QueueCap /\ Len(queue') = QueueCap
            BY <3>0, <5>2, <6>0
          <6>2. Head(queue).nonce = m
            BY <5>1, <5>2
          <6> QED
            BY <3>2, <6>1, <6>2 DEF Overflown
        <5>3. CASE \E k \in 1 .. Len(q) : q[k] = queue[i]
          BY <3>8, <5>1, <5>3 DEF Kept, Queued
        <5> QED
          BY <3>4, <5>2, <5>3
      <4> QED
        BY <4>1, <4>2
    <3>10. SlotsHeld(posts', inFlight', submitted', submitJobId', epoch')
           /\ Waiting(inFlight', submitted', queue', submitJobId', epoch')
      BY <1>1, <2>1, <3>1, <3>6 DEF ShareInv
    <3> QED
      BY <2>3, <3>1, <3>2, <3>9, <3>10 DEF ShareInv, Keeping
  <2> QED
    BY <2>5, <2>6
<1> QED
  BY <1>5, <1>6

(* A POST failed or is made again. *)
LEMMA SwitchStep ==
  ASSUME ShareInv, NEW p \in posts, NEW a \in {"posting", "sleeping"},
         posts' = (posts \ {p}) \union {Run(p.share, a)},
         UNCHANGED <<dispatcher, epoch, poolJob, work>>
  PROVE  ShareInv' /\ Keeping
<1>1. UNCHANGED <<submitJobId, submitted, inFlight, queue, epoch, poolJob, work>>
  BY DEF dispatcher
<1>2. SlotsHeld(posts', inFlight, submitted, submitJobId, epoch)
  BY SlotKept DEF ShareInv
<1> QED
  BY <1>1, <1>2 DEF ShareInv, JobsForward, Keeping, Kept, Queued

(* Nothing of the dispatcher's, but the pool or the grind may go on to a job. *)
LEMMA SlotsUntouched ==
  ASSUME ShareInv, UNCHANGED <<dispatcher, posts, epoch>>,
         poolJob' \in Jobs, poolJob <= poolJob',
         work' \in {None, work} \/ (poolJob' = poolJob /\ work' \in {poolJob} \X Slots)
  PROVE  ShareInv' /\ Keeping
<1>1. UNCHANGED <<submitJobId, submitted, inFlight, queue, posts, epoch>>
  BY DEF dispatcher
<1>2. poolJob \in Nat /\ poolJob' \in Nat /\ submitJobId \in 0 .. poolJob
      /\ poolJob \in Jobs /\ epoch \in Nat
  BY JobsTyped DEF ShareInv, JobsForward, Jobs
<1>3. submitJobId \in 0 .. poolJob'
  BY <1>2
<1>4. ASSUME work' # None
      PROVE  work' \in Jobs \X Slots /\ work'[1] \in submitJobId .. poolJob'
  <2>1. CASE work' = work
    <3>1. work \in Jobs \X Slots /\ work[1] \in submitJobId .. poolJob
      BY <1>4, <2>1 DEF ShareInv, JobsForward
    <3> QED
      BY <1>2, <2>1, <3>1
  <2>2. CASE poolJob' = poolJob /\ work' \in {poolJob} \X Slots
    BY <1>2, <2>2
  <2> QED
    BY <1>4, <2>1, <2>2
<1> QED
  BY <1>1, <1>2, <1>3, <1>4 DEF ShareInv, JobsForward, Keeping, Kept, Queued

(* 404: the dispatcher is cleared and what is under way is of an earlier worker. *)
LEMMA ForgottenStep ==
  ASSUME ShareInv, PollUnknownWorker
  PROVE  ShareInv' /\ Keeping
<1>1. /\ epoch \in Nat /\ submitJobId \in Nat /\ poolJob \in Nat /\ poolJob \in Jobs
      /\ submitJobId' = 0 /\ submitted' = {} /\ inFlight' = {} /\ queue' = <<>>
      /\ epoch' = epoch + 1 /\ work' = None /\ UNCHANGED <<posts, poolJob>>
  BY JobsTyped DEF PollUnknownWorker, ClearDispatcher, Wipe, NoJob, ShareInv, JobsForward
<1>2. ASSUME NEW p \in posts
      PROVE  /\ ~Of(p.share, 0, epoch + 1) /\ p.share.epoch <= epoch + 1
             /\ (p.share.epoch = epoch + 1 => p.share.job <= 0)
  <2>1. p.share.epoch \in Nat /\ p.share.epoch <= epoch
    BY DEF ShareInv, SlotsHeld, PostRec, ShareRec
  <2> QED
    BY <1>1, <2>1 DEF Of
<1>3. SlotsHeld(posts, {}, {}, 0, epoch + 1) /\ Waiting({}, {}, <<>>, 0, epoch + 1)
  BY <1>2, SlotsCleared DEF ShareInv
<1> QED
  BY <1>1, <1>3 DEF ShareInv, JobsForward, Keeping

LEMMA SubmissionStep ==
  ASSUME ShareInv, NEW p \in posts, Submission(p)
  PROVE  ShareInv' /\ Keeping
<1>1. UNCHANGED <<epoch, poolJob, work>>
  BY DEF Submission, Verdict, StaleVerdict, PostFails, PostAgain, GiveUp, Unmoved, grindVars
<1>2. CASE Verdict(p)
  <2>1. Complete(p, ~stopped)
    BY <1>2 DEF Verdict
  <2>2. CASE stopped
    <3>1. Complete(p, FALSE)
      BY <2>1, <2>2 DEF Complete
    <3> QED
      BY <1>1, <2>2, <3>1, CompleteStep
  <2>3. CASE ~stopped
    <3>1. Complete(p, TRUE)
      BY <2>1, <2>3 DEF Complete
    <3> QED
      BY <1>1, <3>1, CompleteStep
  <2> QED
    BY <2>2, <2>3
<1>3. CASE StaleVerdict(p)
  BY <1>1, <1>3, CompleteStep DEF StaleVerdict
<1>4. CASE PostFails(p)
  BY <1>1, <1>4, SwitchStep DEF PostFails
<1>5. CASE PostAgain(p)
  BY <1>1, <1>5, SwitchStep DEF PostAgain
<1>6. CASE GiveUp(p)
  BY <1>1, <1>6, CompleteStep DEF GiveUp
<1> QED
  BY <1>2, <1>3, <1>4, <1>5, <1>6 DEF Submission

LEMMA PoolStep ==
  ASSUME ShareInv, [PoolNext]_poolVars
  PROVE  ShareInv' /\ Keeping
<1>1. poolJob \in Jobs /\ poolJob <= poolJob
  BY JobsTyped DEF ShareInv, JobsForward
<1>2. ASSUME UNCHANGED <<dispatcher, posts, epoch, poolJob>>, work' \in {None, work}
      PROVE  ShareInv' /\ Keeping
  BY <1>1, <1>2, SlotsUntouched
<1>3. CASE UNCHANGED poolVars
  BY <1>2, <1>3 DEF poolVars, grindVars
<1>4. CASE PoolRolls
  <2>1. poolJob' \in Jobs /\ poolJob <= poolJob'
    BY <1>1, <1>4, PoolAssumption DEF PoolRolls, Jobs
  <2> QED
    BY <1>4, <2>1, SlotsUntouched DEF PoolRolls, grindVars
<1>5. CASE StopPoolMode
  BY <1>2, <1>5 DEF StopPoolMode
<1>6. CASE Hash \/ Exhaust \/ Watchdog \/ \E how \in {"stuck", "dead"} : Stall(how)
  BY <1>2, <1>6 DEF Hash, Exhaust, Watchdog, Stall, Shelved
<1>7. CASE BeginCycle \/ PollFails \/ PollWoken \/ Registered \/ LeaveLoop
  BY <1>2, <1>7
  DEF BeginCycle, PollFails, PollWoken, Registered, LeaveLoop, Idle, grindVars
<1>8. ASSUME NEW slot \in Slots, PollJob(slot) PROVE ShareInv' /\ Keeping
  <2>1. UNCHANGED <<dispatcher, epoch, posts, poolJob>>
    BY <1>8 DEF PollJob
  <2>2. work' \in {None, work} \/ work' \in {poolJob} \X Slots
    BY <1>8 DEF PollJob
  <2> QED
    BY <1>1, <2>1, <2>2, SlotsUntouched
<1> QED
  BY <1>3, <1>4, <1>5, <1>6, <1>7, <1>8, ForgottenStep, SubmissionStep, OfferStep
  DEF PoolNext, PollLoop, Grind

LEMMA PoolStarts == ASSUME PoolQuiet PROVE ShareInv
<1>1. /\ epoch = 0 /\ submitJobId = 0 /\ submitted = {} /\ inFlight = {} /\ queue = <<>>
      /\ posts = {} /\ poolJob = 1 /\ work = None
  BY DEF PoolQuiet, NoJob
<1>2. SlotsHeld({}, {}, {}, 0, 0) /\ Waiting({}, {}, <<>>, 0, 0)
  <2>1. Cardinality({}) = 0 /\ <<>> \in Seq(ShareRec) /\ Len(<<>>) = 0
    BY FS_EmptySet
  <2> QED
    BY <2>1, PoolAssumption DEF SlotsHeld, Waiting
<1>3. 1 \in Jobs
  BY PoolAssumption DEF Jobs
<1> QED
  BY <1>1, <1>2, <1>3 DEF ShareInv, JobsForward

(* The counts of SharesAccounted, from what holds of each share. *)
LEMMA InvAccounts == ASSUME ShareInv PROVE SharesAccounted
<1> DEFINE P == {p \in posts : Present(p)}
           f == [p \in P |-> p.share.nonce]
           g == [i \in 1 .. Len(queue) |-> queue[i].nonce]
<1>1. \A p \in posts : Present(p) <=> Of(p.share, submitJobId, epoch)
  BY DEF Present, SameSpan, Of
<1>2. inFlight = {p.share.nonce : p \in P}
  BY <1>1 DEF ShareInv, SlotsHeld
<1>3. Cardinality(P) <= PendingCap
  <2>1. f \in [P -> inFlight]
    BY <1>2
  <2>2. ASSUME NEW p \in P, NEW q \in P, f[p] = f[q] PROVE p = q
    <3>1. p.share \in ShareRec /\ q.share \in ShareRec /\ p.share.nonce = q.share.nonce
      BY <2>2 DEF ShareInv, SlotsHeld, PostRec
    <3>2. p.share = q.share
      BY <1>1, <3>1 DEF Of, ShareRec
    <3> QED
      BY <3>2 DEF ShareInv, SlotsHeld
  <2>3. f \in Injection(P, inFlight)
    BY <2>1, <2>2 DEF Injection, IsInjective
  <2>4. SlotsHeld(posts, inFlight, submitted, submitJobId, epoch)
    BY DEF ShareInv
  <2>5. IsFiniteSet(inFlight)
    BY <2>4, SlotsFinite
  <2> HIDE DEF P, f
  <2>6. IsFiniteSet(P) /\ Cardinality(P) <= Cardinality(inFlight)
    BY <2>3, <2>5, FS_Injection
  <2>7. Cardinality(P) \in Nat
    BY <2>6, FS_CardinalityType
  <2> QED
    BY <2>6, <2>7, SlotsCounted, PoolAssumption
<1>4. Cardinality(Queued) = Len(queue)
  <2>0. queue \in Seq(ShareRec)
    BY DEF ShareInv, Waiting
  <2>1. Len(queue) \in Nat /\ DOMAIN queue = 1 .. Len(queue)
    BY <2>0
  <2>2. Queued = {queue[i].nonce : i \in 1 .. Len(queue)}
    BY <2>1 DEF Queued
  <2>3. \A i, k \in 1 .. Len(queue) : g[i] = g[k] => i = k
    BY DEF ShareInv, Waiting
  <2>4. g \in Bijection(1 .. Len(queue), Queued)
    BY <2>2, <2>3 DEF Bijection, Injection, Surjection, IsInjective
  <2> HIDE DEF g
  <2>5. ExistsBijection(1 .. Len(queue), Queued)
    BY <2>4 DEF ExistsBijection
  <2> QED
    BY <2>1, <2>5, FS_CountingElements
<1>5. Queued \intersect (inFlight \union submitted) = {}
  <2>1. queue \in Seq(ShareRec)
    BY DEF ShareInv, Waiting
  <2>2. DOMAIN queue = 1 .. Len(queue)
    BY <2>1
  <2> QED
    BY <2>2 DEF Queued, ShareInv, Waiting
<1> QED
  BY <1>2, <1>3, <1>4, <1>5 DEF SharesAccounted, ShareInv, SlotsHeld

(* Pool mode lets the dispatcher move by the classic client's steps alone. *)
LEMMA ModeIsPoolStep ==
  ASSUME ShareInv, [Next]_modeVars
  PROVE  ShareInv' /\ Keeping
<1>1. CASE StartClassic
  <2>1. poolJob \in Jobs /\ poolJob <= poolJob
    BY JobsTyped DEF ShareInv, JobsForward
  <2> QED
    BY <1>1, <2>1, SlotsUntouched DEF StartClassic, grindVars
<1>2. CASE HandOff \/ Negotiated \/ UNCHANGED modeVars
  BY <1>2, PoolStep DEF HandOff, Negotiated, modeVars
<1>3. CASE Classic
  BY <1>3, PoolStep DEF Classic
<1> QED
  BY <1>1, <1>2, <1>3 DEF Next

(* The inductive invariant of the dispatcher. *)
THEOREM ShareInvHolds == Spec => []ShareInv
<1>1. Init => ShareInv
  BY PoolStarts DEF Init
<1>2. ShareInv /\ [Next]_modeVars => ShareInv'
  BY ModeIsPoolStep
<1> QED
  BY <1>1, <1>2, PTL DEF Spec

(* The slots are those of the submissions under way for the job and worker at hand,
   no nonce is in two places, and shares wait only while every slot is taken: for
   any caps, jobs, nonces and failures, in whatever order verdicts come. *)
THEOREM EveryShareAccounted == Spec => []SharesAccounted
<1>1. ShareInv => SharesAccounted
  BY InvAccounts
<1> QED
  BY <1>1, ShareInvHolds, PTL

(* A solved nonce leaves the dispatcher only with its verdict, given up, pushed out
   of a full backlog, or with its job or worker. *)
THEOREM NoShareDropped == Spec => ShareKept
<1>1. ShareInv /\ [Next]_modeVars => [Keeping]_poolVars
  BY ModeIsPoolStep
<1> QED
  BY <1>1, ShareInvHolds, PTL DEF Spec, ShareKept, Keeping

-----------------------------------------------------------------------------
(* The negotiated client. *)

IsReg(r) ==
  /\ r = [outstanding |-> r.outstanding, owed |-> r.owed, inFlight |-> r.inFlight,
          timer |-> r.timer, watchdog |-> r.watchdog]
  /\ r.inFlight \in Nat
  /\ r.timer \in BOOLEAN /\ r.watchdog \in BOOLEAN

(* The counter never falls below the answers owed. *)
Counted(r) == IsFiniteSet(r.owed) /\ Cardinality(r.owed) <= r.inFlight

(* Templates are built on the announced tip, of a pool that has announced one. *)
BuiltOn(r, t) ==
  /\ \A x \in r.outstanding : x.parent = t
  /\ r.outstanding # {} => t # 0

RegInv ==
  /\ IsReg(reg) /\ Counted(reg) /\ BuiltOn(reg, info)
  /\ grinding \in {NoGrind, info}

LinkInv ==
  /\ socketGen \in Int /\ chases \subseteq [gen : Int, page : BOOLEAN]
  /\ over \in BOOLEAN /\ greeted \in BOOLEAN
  /\ poolTip # 0 /\ (greeted => info # 0)
  /\ conn # "open" /\ ~over => ~greeted /\ reg.outstanding = {}

Armed == reg.timer \/ reg.watchdog \/ \E c \in chases : c.gen = socketGen

(* RegistrationPending, also of a connection that has not greeted us yet but has
   sent a registration for the tip of an earlier one. *)
PendingInv ==
  /\ conn = "open" /\ ~over /\ (greeted \/ reg.outstanding # {}) /\ grinding = NoGrind
       => Armed
  /\ over => ~reg.timer /\ ~reg.watchdog

NegoInv == RegInv /\ LinkInv /\ PendingInv

(* What SettlesOnlyAnswered says of a step. *)
Drops ==
  (reg'.inFlight < reg.inFlight /\ conn' = conn) =>
    (reg.outstanding \ reg'.outstanding) \intersect reg'.owed = {}

-----------------------------------------------------------------------------
(* What the operators on registrations make of one, field by field. *)
LEMMA TimerFields ==
  ASSUME NEW r, IsReg(r), NEW b
  PROVE  [r EXCEPT !.timer = b] =
           [outstanding |-> r.outstanding, owed |-> r.owed, inFlight |-> r.inFlight,
            timer |-> b, watchdog |-> r.watchdog]
BY DEF IsReg

LEMMA ScheduledFields ==
  ASSUME NEW r, IsReg(r)
  PROVE  Scheduled(r) =
           [outstanding |-> r.outstanding, owed |-> r.owed, inFlight |-> r.inFlight,
            timer |-> IF over THEN FALSE ELSE TRUE, watchdog |-> r.watchdog]
<1> DEFINE live == ~over
           b == IF over THEN FALSE ELSE TRUE
<1>1. live = b OBVIOUS
<1>2. Scheduled(r) = [r EXCEPT !.timer = live] BY DEF Scheduled
<1> HIDE DEF live, b
<1>3. Scheduled(r) =
        [outstanding |-> r.outstanding, owed |-> r.owed, inFlight |-> r.inFlight,
         timer |-> b, watchdog |-> r.watchdog]
  BY <1>1, <1>2, TimerFields
<1> QED BY <1>3 DEF b

LEMMA LiveFields ==
  ASSUME NEW r, IsReg(r), over = FALSE
  PROVE  Scheduled(r) =
           [outstanding |-> r.outstanding, owed |-> r.owed, inFlight |-> r.inFlight,
            timer |-> TRUE, watchdog |-> r.watchdog]
BY ScheduledFields

LEMMA WatchdogFields ==
  ASSUME NEW r, IsReg(r), NEW b
  PROVE  [r EXCEPT !.watchdog = b] =
           [outstanding |-> r.outstanding, owed |-> r.owed, inFlight |-> r.inFlight,
            timer |-> r.timer, watchdog |-> b]
BY DEF IsReg

LEMMA OutstandingFields ==
  ASSUME NEW r, IsReg(r), NEW o
  PROVE  [r EXCEPT !.outstanding = o] =
           [outstanding |-> o, owed |-> r.owed, inFlight |-> r.inFlight,
            timer |-> r.timer, watchdog |-> r.watchdog]
BY DEF IsReg

LEMMA OwedFields ==
  ASSUME NEW r, IsReg(r), NEW o
  PROVE  [r EXCEPT !.owed = o] =
           [outstanding |-> r.outstanding, owed |-> o, inFlight |-> r.inFlight,
            timer |-> r.timer, watchdog |-> r.watchdog]
BY DEF IsReg

(* The watchdog and the outstanding templates replaced, as by a result that is taken
   for an answer. *)
LEMMA SettledFields ==
  ASSUME NEW r, IsReg(r), NEW o, NEW b
  PROVE  [r EXCEPT !.watchdog = b, !.outstanding = o] =
           [outstanding |-> o, owed |-> r.owed, inFlight |-> r.inFlight,
            timer |-> r.timer, watchdog |-> b]
<1> DEFINE q == [r EXCEPT !.watchdog = b]
<1>1. q = [outstanding |-> r.outstanding, owed |-> r.owed, inFlight |-> r.inFlight,
           timer |-> r.timer, watchdog |-> b]
  BY WatchdogFields
<1>2. [r EXCEPT !.watchdog = b, !.outstanding = o] = [q EXCEPT !.outstanding = o]
  OBVIOUS
<1> HIDE DEF q
<1>3. [q EXCEPT !.outstanding = o] =
        [outstanding |-> o, owed |-> r.owed, inFlight |-> r.inFlight,
         timer |-> r.timer, watchdog |-> b]
  BY <1>1
<1> QED BY <1>2, <1>3

LEMMA SentFields ==
  ASSUME NEW r, IsReg(r), NEW x, NEW aged
  PROVE  Sent(r, x, aged) =
           [outstanding |-> (r.outstanding \ aged) \union {x}, owed |-> r.owed \union {x},
            inFlight |-> r.inFlight + 1, timer |-> r.timer, watchdog |-> TRUE]
<1> DEFINE p == Pruned(r, aged)
<1>1. p = [outstanding |-> r.outstanding \ aged, owed |-> r.owed, inFlight |-> r.inFlight,
           timer |-> r.timer, watchdog |-> r.watchdog]
  BY DEF Pruned, IsReg
<1>2. Sent(r, x, aged) = [p EXCEPT !.outstanding = p.outstanding \union {x},
            !.owed = p.owed \union {x}, !.inFlight = p.inFlight + 1, !.watchdog = TRUE]
  BY DEF Sent
<1> HIDE DEF p
<1> QED BY <1>1, <1>2

LEMMA AnsweredFields ==
  ASSUME NEW t, IsReg(reg)
  PROVE  Answered(t) =
           [outstanding |-> reg.outstanding, owed |-> reg.owed \ {t},
            inFlight |-> IF reg.inFlight = 0 THEN 0 ELSE reg.inFlight - 1,
            timer |-> reg.timer, watchdog |-> reg.watchdog]
<1> DEFINE q == [reg EXCEPT !.owed = reg.owed \ {t}]
           left == IF reg.inFlight = 0 THEN 0 ELSE reg.inFlight - 1
<1>1. q = [outstanding |-> reg.outstanding, owed |-> reg.owed \ {t},
           inFlight |-> reg.inFlight, timer |-> reg.timer, watchdog |-> reg.watchdog]
  BY OwedFields
<1>2. Answered(t) = [q EXCEPT !.inFlight = left] BY DEF Answered
<1> HIDE DEF q
<1> QED BY <1>1, <1>2

-----------------------------------------------------------------------------
(* The counter after a send and after an answer. *)
LEMMA SendCounted ==
  ASSUME NEW r, IsReg(r), Counted(r), NEW x, NEW s,
         s.owed = r.owed \union {x}, s.inFlight = r.inFlight + 1
  PROVE  Counted(s)
<1>1. IsFiniteSet(r.owed) /\ Cardinality(r.owed) \in Nat
  BY FS_CardinalityType DEF Counted
<1>2. /\ IsFiniteSet(r.owed \union {x})
      /\ Cardinality(r.owed \union {x}) \in {Cardinality(r.owed), Cardinality(r.owed) + 1}
  BY <1>1, FS_AddElement
<1>3. Cardinality(r.owed) <= r.inFlight /\ r.inFlight \in Nat BY DEF Counted, IsReg
<1>4. Cardinality(s.owed) <= r.inFlight + 1 BY <1>1, <1>2, <1>3
<1> QED BY <1>2, <1>4 DEF Counted

(* Fewer answers are owed without the counter going down by more than one. *)
LEMMA AnswerCounted ==
  ASSUME NEW r, IsReg(r), Counted(r), NEW t \in r.owed, NEW s,
         s.owed = r.owed \ {t}, s.inFlight \in Nat, s.inFlight >= r.inFlight - 1
  PROVE  Counted(s)
<1>1. IsFiniteSet(r.owed) /\ Cardinality(r.owed) \in Nat
  BY FS_CardinalityType DEF Counted
<1>2. IsFiniteSet(r.owed \ {t}) /\ Cardinality(r.owed \ {t}) = Cardinality(r.owed) - 1
  BY <1>1, FS_RemoveElement
<1>3. Cardinality(r.owed) <= r.inFlight /\ r.inFlight \in Nat BY DEF Counted, IsReg
<1>4. Cardinality(s.owed) <= s.inFlight BY <1>1, <1>2, <1>3
<1> QED BY <1>2, <1>4 DEF Counted

(* Whatever registerNow does, it leaves a timer armed and drops nothing that is
   not sent too long ago. *)
LEMMA RegisterNowKeeps ==
  ASSUME NEW r, IsReg(r), Counted(r), BuiltOn(r, info), NEW height, height # 0,
         over = FALSE, RegisterNow(r, height)
  PROVE  /\ IsReg(reg') /\ Counted(reg') /\ BuiltOn(reg', info)
         /\ reg'.timer \/ reg'.watchdog
         /\ reg'.inFlight >= r.inFlight
<1>0. r.inFlight \in Nat BY DEF IsReg
<1>1. CASE reg' = Scheduled(r)
  <2>1. reg' = [outstanding |-> r.outstanding, owed |-> r.owed, inFlight |-> r.inFlight,
                timer |-> TRUE, watchdog |-> r.watchdog]
    BY <1>1, ScheduledFields
  <2> QED BY <1>0, <2>1 DEF IsReg, Counted, BuiltOn
<1>2. ASSUME info = height, NEW aged, reg' = Sent(r, NewTemplate(height), aged)
      PROVE  /\ IsReg(reg') /\ Counted(reg') /\ BuiltOn(reg', info)
             /\ reg'.timer \/ reg'.watchdog
             /\ reg'.inFlight >= r.inFlight
  <2> DEFINE x == NewTemplate(height)
  <2>1. x.parent = height BY DEF NewTemplate
  <2> HIDE DEF x
  <2>2. reg' = Sent(r, x, aged) BY <1>2 DEF x
  <2>3. reg' = [outstanding |-> (r.outstanding \ aged) \union {x},
                owed |-> r.owed \union {x}, inFlight |-> r.inFlight + 1,
                timer |-> r.timer, watchdog |-> TRUE]
    BY <2>2, SentFields
  <2>4. Counted(reg') BY <2>3, SendCounted
  <2>5. BuiltOn(reg', info) BY <1>2, <2>1, <2>3 DEF BuiltOn
  <2> QED BY <1>0, <2>3, <2>4, <2>5 DEF IsReg
<1>3. CASE info = height /\ \E aged : reg' = Sent(r, NewTemplate(height), aged)
  BY <1>2, <1>3
<1> QED BY <1>1, <1>3 DEF RegisterNow, PoolBehind

-----------------------------------------------------------------------------
(* The steps. Each keeps the invariant and drops no template that may still be
   accepted. *)
USE DEF NegoInv, RegInv, LinkInv, PendingInv, Drops, Armed, poolSide, workerVars,
        chainVars

LEMMA QuietStep ==
  ASSUME NegoInv,
         MakeHashes \/ (\E how \in {"stuck", "dead"} : HangUp(how)) \/ Connect \/ OnOpen
           \/ (\E height \in Tips : PoolMoves(height)) \/ UNCHANGED negoVars
  PROVE  NegoInv' /\ Drops
<1>1. UNCHANGED <<reg, info, grinding, chases, over, greeted>>
  BY DEF MakeHashes, HangUp, Working, Connect, OnOpen, PoolMoves, negoVars
<1>2. RegInv' BY <1>1 DEF IsReg, Counted, BuiltOn
<1>3. Drops BY <1>1
<1>4. ASSUME MakeHashes \/ (\E how \in {"stuck", "dead"} : HangUp(how)) \/ UNCHANGED negoVars
      PROVE  LinkInv' /\ PendingInv'
  <2>1. UNCHANGED <<conn, socketGen, poolTip>> BY <1>4 DEF MakeHashes, HangUp, Working, negoVars
  <2> QED BY <1>1, <2>1
<1>5. ASSUME Connect \/ OnOpen PROVE LinkInv' /\ PendingInv'
  BY <1>1, <1>5 DEF Connect, OnOpen
<1>6. ASSUME NEW height \in Tips, PoolMoves(height) PROVE LinkInv' /\ PendingInv'
  <2>1. height # 0 BY DEF Tips
  <2> QED BY <1>1, <1>6, <2>1 DEF PoolMoves
<1> QED BY <1>2, <1>3, <1>4, <1>5, <1>6

(* A step that only schedules, and may give up what is ground. *)
LEMMA SchedulingStep ==
  ASSUME NegoInv, reg' = Scheduled(reg), grinding' \in {grinding, NoGrind},
         UNCHANGED <<conn, socketGen, poolSide, over>>,
         chases' \subseteq [gen : Int, page : BOOLEAN]
  PROVE  NegoInv' /\ Drops
<1>1. reg' = [outstanding |-> reg.outstanding, owed |-> reg.owed, inFlight |-> reg.inFlight,
              timer |-> IF over THEN FALSE ELSE TRUE, watchdog |-> reg.watchdog]
  BY ScheduledFields
<1>2. RegInv' BY <1>1 DEF IsReg, Counted, BuiltOn
<1>3. LinkInv' BY <1>1
<1>4. PendingInv'
  <2>1. CASE over BY <1>1, <2>1
  <2>2. CASE ~over
    <3>1. reg'.timer = TRUE BY <1>1, <2>2
    <3> QED BY <2>2, <3>1
  <2> QED BY <2>1, <2>2
<1>5. Drops BY <1>1 DEF IsReg
<1> QED BY <1>2, <1>3, <1>4, <1>5

LEMMA TimerStep ==
  ASSUME NegoInv, RegisterTimerFires
  PROVE  NegoInv' /\ Drops
<1> DEFINE fired == [reg EXCEPT !.timer = FALSE]
<1>1. fired = [outstanding |-> reg.outstanding, owed |-> reg.owed, inFlight |-> reg.inFlight,
               timer |-> FALSE, watchdog |-> reg.watchdog]
  BY TimerFields
<1>2. UNCHANGED <<conn, socketGen, poolSide, tip, grinding, over>>
  BY DEF RegisterTimerFires
<1>3. IsReg(fired) /\ Counted(fired) /\ BuiltOn(fired, info)
  BY <1>1 DEF IsReg, Counted, BuiltOn
<1>4. \/ (SessionOver(socketGen) \/ info = 0) /\ reg' = fired /\ UNCHANGED chases
      \/ ~SessionOver(socketGen) /\ reg' = fired
           /\ chases' = chases \union {[gen |-> socketGen, page |-> FALSE]}
      \/ ~SessionOver(socketGen) /\ info \in 1 .. tip /\ RegisterNow(fired, tip)
           /\ UNCHANGED chases
  BY DEF RegisterTimerFires
<1> HIDE DEF fired
<1>5. CASE (SessionOver(socketGen) \/ info = 0) /\ reg' = fired /\ UNCHANGED chases
  <2>1. RegInv' /\ Drops BY <1>1, <1>2, <1>3, <1>5 DEF IsReg, Counted, BuiltOn
  <2>2. LinkInv' BY <1>1, <1>2, <1>5
  <2>3. PendingInv' BY <1>1, <1>2, <1>5 DEF SessionOver, BuiltOn
  <2> QED BY <2>1, <2>2, <2>3
<1>6. CASE ~SessionOver(socketGen) /\ reg' = fired
             /\ chases' = chases \union {[gen |-> socketGen, page |-> FALSE]}
  <2>1. RegInv' /\ Drops BY <1>1, <1>2, <1>3, <1>6 DEF IsReg, Counted, BuiltOn
  <2> DEFINE c == [gen |-> socketGen, page |-> FALSE]
  <2>a. c \in [gen : Int, page : BOOLEAN] /\ c.gen = socketGen OBVIOUS
  <2>b. chases' = chases \union {c} BY <1>6
  <2> HIDE DEF c
  <2>2. LinkInv' BY <1>1, <1>2, <1>6, <2>a, <2>b
  <2>3. PendingInv'
    <3>1. Armed' BY <1>2, <2>a, <2>b
    <3>2. over = FALSE BY <1>6 DEF SessionOver
    <3> QED BY <1>2, <3>1, <3>2
  <2> QED BY <2>1, <2>2, <2>3
<1>7. CASE ~SessionOver(socketGen) /\ info \in 1 .. tip /\ RegisterNow(fired, tip)
             /\ UNCHANGED chases
  <2>1. over = FALSE /\ conn = "open" BY <1>7 DEF SessionOver
  <2>2. tip # 0 BY <1>7 DEF BuiltOn
  <2>3. /\ IsReg(reg') /\ Counted(reg') /\ BuiltOn(reg', info)
        /\ reg'.timer \/ reg'.watchdog
        /\ reg'.inFlight >= fired.inFlight
    BY <1>3, <1>7, <2>1, <2>2, RegisterNowKeeps
  <2>4. RegInv' BY <1>2, <2>3 DEF IsReg, Counted, BuiltOn
  <2>5. LinkInv' /\ PendingInv' BY <1>2, <1>7, <2>1, <2>3
  <2>6. Drops BY <1>1, <2>3 DEF IsReg
  <2> QED BY <2>4, <2>5, <2>6
<1> QED BY <1>4, <1>5, <1>6, <1>7

(* After a catch-up that another connection has overtaken, the one of this
   connection is still there. *)
LEMMA CatchUpStepKeeps ==
  ASSUME NegoInv, NEW c \in chases, CatchUpStep(c)
  PROVE  NegoInv' /\ Drops
<1>1. UNCHANGED <<conn, socketGen, poolSide, grinding, over>>
  BY DEF CatchUpStep, FetchPage, FetchEnds, Invalidate, ApplyBlocks, ChaseEnds, Chase
<1>2. c \in [gen : Int, page : BOOLEAN] OBVIOUS
<1>3. ASSUME NEW b \in BOOLEAN, UNCHANGED reg,
             chases' = (chases \ {c}) \union {[c EXCEPT !.page = b]}
      PROVE  NegoInv' /\ Drops
  <2> DEFINE d == [c EXCEPT !.page = b]
  <2>1. d \in [gen : Int, page : BOOLEAN] /\ d.gen = c.gen BY <1>2
  <2>2. chases' = (chases \ {c}) \union {d} BY <1>3
  <2> HIDE DEF d
  <2>3. RegInv' /\ Drops BY <1>1, <1>3 DEF IsReg, Counted, BuiltOn
  <2>4. LinkInv' BY <1>1, <1>3, <2>1, <2>2
  <2>5. Armed => Armed' BY <1>1, <1>3, <2>1, <2>2
  <2>6. PendingInv' BY <1>1, <1>3, <2>5
  <2> QED BY <2>3, <2>4, <2>6
<1>4. ASSUME UNCHANGED reg, chases' = chases PROVE NegoInv' /\ Drops
  BY <1>1, <1>4 DEF IsReg, Counted, BuiltOn
<1>5. ASSUME UNCHANGED reg, chases' = chases \ {c}, SessionOver(c.gen)
      PROVE  NegoInv' /\ Drops
  <2>1. RegInv' /\ LinkInv' /\ Drops BY <1>1, <1>5 DEF IsReg, Counted, BuiltOn
  <2>2. PendingInv' BY <1>1, <1>5 DEF SessionOver
  <2> QED BY <2>1, <2>2
<1>6. ASSUME reg' = Scheduled(reg), chases' = chases \ {c} PROVE NegoInv' /\ Drops
  <2>1. chases' \subseteq [gen : Int, page : BOOLEAN] BY <1>6
  <2> QED BY <1>1, <1>6, <2>1, SchedulingStep
<1>7. CASE FetchPage(c)
  BY <1>3, <1>7 DEF FetchPage
<1>8. CASE FetchEnds(c)
  <2>1. CASE Fenced(c)
    <3>1. SessionOver(c.gen) BY <2>1 DEF Fenced, SessionOver
    <3> QED BY <1>5, <1>8, <2>1, <3>1 DEF FetchEnds
  <2>2. CASE ~Fenced(c) BY <1>6, <1>8, <2>2 DEF FetchEnds
  <2> QED BY <2>1, <2>2
<1>9. CASE Invalidate(c)
  <2> DEFINE d == [c EXCEPT !.page = FALSE]
  <2>1. d \in [gen : Int, page : BOOLEAN] BY <1>2
  <2>2. chases' = (chases \ {c}) \union {d} /\ reg' = Scheduled(reg) BY <1>9 DEF Invalidate
  <2> HIDE DEF d
  <2>3. chases' \subseteq [gen : Int, page : BOOLEAN] BY <2>1, <2>2
  <2> QED BY <1>1, <2>2, <2>3, SchedulingStep
<1>10. ASSUME NEW height \in Tips, ApplyBlocks(c, height) PROVE NegoInv' /\ Drops
  BY <1>3, <1>4, <1>10 DEF ApplyBlocks
<1>11. ASSUME NEW height \in Tips, ChaseEnds(c, height) PROVE NegoInv' /\ Drops
  <2>1. chases' = chases \ {c} BY <1>11 DEF ChaseEnds
  <2>2. CASE SessionOver(c.gen) BY <1>5, <1>11, <2>1, <2>2 DEF ChaseEnds
  <2>3. CASE ~SessionOver(c.gen) /\ info > height
    BY <1>6, <1>11, <2>1, <2>3 DEF ChaseEnds
  <2>4. CASE ~SessionOver(c.gen) /\ ~(info > height)
    <3>1. RegisterNow(reg, height) BY <1>11, <2>4 DEF ChaseEnds
    <3>2. over = FALSE /\ conn = "open" /\ height # 0 BY <2>4 DEF SessionOver, Tips
    <3>3. /\ IsReg(reg') /\ Counted(reg') /\ BuiltOn(reg', info)
          /\ reg'.timer \/ reg'.watchdog
          /\ reg'.inFlight >= reg.inFlight
      BY <3>1, <3>2, RegisterNowKeeps
    <3>4. RegInv' /\ Drops BY <1>1, <3>3 DEF IsReg, Counted, BuiltOn
    <3>5. LinkInv' /\ PendingInv' BY <1>1, <2>1, <3>2, <3>3
    <3> QED BY <3>4, <3>5
  <2> QED BY <2>2, <2>3, <2>4
<1> QED BY <1>7, <1>8, <1>9, <1>10, <1>11 DEF CatchUpStep

LEMMA ChainInfoStep ==
  ASSUME NegoInv, ChainInfo
  PROVE  NegoInv' /\ Drops
<1>1. /\ UNCHANGED <<conn, socketGen, poolTip, chases, over>>
      /\ greeted' = TRUE /\ info' = poolTip /\ over = FALSE /\ conn = "open"
  BY DEF ChainInfo, Listening
<1>2. CASE (grinding # NoGrind \/ reg.outstanding # {}) /\ info = poolTip
  <2>1. UNCHANGED <<reg, grinding>> BY <1>2 DEF ChainInfo
  <2> QED BY <1>1, <1>2, <2>1 DEF IsReg, Counted, BuiltOn
<1>3. CASE grinding = NoGrind /\ reg.outstanding = {} /\ info = poolTip
  <2>1. reg' = Scheduled(reg) /\ grinding' = NoGrind BY <1>3 DEF ChainInfo
  <2>2. reg' = [outstanding |-> reg.outstanding, owed |-> reg.owed,
                inFlight |-> reg.inFlight, timer |-> TRUE, watchdog |-> reg.watchdog]
    BY <1>1, <2>1, ScheduledFields
  <2> QED BY <1>1, <1>3, <2>1, <2>2 DEF IsReg, Counted, BuiltOn
<1>4. CASE info # poolTip
  <2>1. reg' = Scheduled(Superseded(reg)) /\ grinding' = NoGrind BY <1>4 DEF ChainInfo
  <2> DEFINE r == Superseded(reg)
  <2>2. r = [outstanding |-> {}, owed |-> reg.owed, inFlight |-> reg.inFlight,
             timer |-> reg.timer, watchdog |-> reg.watchdog]
    BY OutstandingFields DEF Superseded
  <2> HIDE DEF r
  <2>3. IsReg(r) BY <2>2 DEF IsReg
  <2>4. reg' = Scheduled(r) BY <2>1 DEF r
  <2>5. reg' = [outstanding |-> {}, owed |-> reg.owed, inFlight |-> reg.inFlight,
                timer |-> TRUE, watchdog |-> reg.watchdog]
    <3>1. Scheduled(r) =
            [outstanding |-> r.outstanding, owed |-> r.owed, inFlight |-> r.inFlight,
             timer |-> TRUE, watchdog |-> r.watchdog]
      BY <1>1, <2>3, LiveFields
    <3> QED BY <2>2, <2>4, <3>1
  <2> QED BY <1>1, <2>1, <2>5 DEF IsReg, Counted, BuiltOn
<1> QED BY <1>2, <1>3, <1>4

LEMMA WatchdogStep ==
  ASSUME NegoInv, ResultWatchdogFires
  PROVE  NegoInv' /\ Drops
<1> DEFINE r == [reg EXCEPT !.watchdog = FALSE]
<1>1. r = [outstanding |-> reg.outstanding, owed |-> reg.owed, inFlight |-> reg.inFlight,
           timer |-> reg.timer, watchdog |-> FALSE]
  BY WatchdogFields
<1>2. /\ reg' = Scheduled(r) /\ over = FALSE
      /\ UNCHANGED <<conn, socketGen, poolSide, grinding, chases, over>>
  BY DEF ResultWatchdogFires
<1> HIDE DEF r
<1>3. IsReg(r) BY <1>1 DEF IsReg
<1>4. reg' = [outstanding |-> reg.outstanding, owed |-> reg.owed, inFlight |-> reg.inFlight,
              timer |-> TRUE, watchdog |-> FALSE]
  <2>1. Scheduled(r) =
          [outstanding |-> r.outstanding, owed |-> r.owed, inFlight |-> r.inFlight,
           timer |-> TRUE, watchdog |-> r.watchdog]
    BY <1>2, <1>3, LiveFields
  <2> QED BY <1>1, <1>2, <2>1
<1> QED BY <1>2, <1>4 DEF IsReg, Counted, BuiltOn

(* What the counter says after an answer: none owed once it is zero. *)
LEMMA AnsweredCounts ==
  ASSUME NegoInv, NEW t \in reg.owed
  PROVE  LET r == Answered(t) IN
         /\ IsReg(r) /\ Counted(r)
         /\ r.inFlight = 0 => r.owed = {}
<1> DEFINE r == Answered(t)
<1>1. r = [outstanding |-> reg.outstanding, owed |-> reg.owed \ {t},
           inFlight |-> IF reg.inFlight = 0 THEN 0 ELSE reg.inFlight - 1,
           timer |-> reg.timer, watchdog |-> reg.watchdog]
  BY AnsweredFields
<1> HIDE DEF r
<1>2. IsReg(r) BY <1>1 DEF IsReg
<1>3. Counted(r)
  <2>1. r.owed = reg.owed \ {t} /\ r.inFlight \in Nat /\ r.inFlight >= reg.inFlight - 1
    BY <1>1 DEF IsReg
  <2> QED BY <2>1, AnswerCounted
<1>4. ASSUME r.inFlight = 0 PROVE r.owed = {}
  <2>1. IsFiniteSet(r.owed) /\ Cardinality(r.owed) <= 0 BY <1>3, <1>4 DEF Counted
  <2>2. Cardinality(r.owed) \in Nat BY <2>1, FS_CardinalityType
  <2>3. Cardinality(r.owed) = 0 BY <2>1, <2>2
  <2> QED BY <2>1, <2>3, FS_EmptySet
<1> QED BY <1>2, <1>3, <1>4 DEF r

(* An answer settles what is not in `kept`, and either grinds, or schedules, or
   leaves the timers as they are. *)
Settles(t, kept, timer, watchdog) ==
  /\ kept \subseteq reg.outstanding
  /\ (reg.outstanding \ kept) \intersect Answered(t).owed = {}
  /\ timer \in BOOLEAN /\ watchdog \in BOOLEAN
  /\ reg' = [outstanding |-> kept, owed |-> Answered(t).owed,
             inFlight |-> Answered(t).inFlight, timer |-> timer, watchdog |-> watchdog]
  /\ grinding' \in {grinding, info}
  /\ \/ timer = TRUE
     \/ grinding' # NoGrind
     \/ timer = reg.timer /\ watchdog = reg.watchdog

LEMMA AnswerStep ==
  ASSUME NegoInv, NEW t \in reg.owed, over = FALSE,
         UNCHANGED <<conn, socketGen, poolSide, chases, over>>,
         NEW kept, NEW timer, NEW watchdog, Settles(t, kept, timer, watchdog)
  PROVE  NegoInv' /\ Drops
<1> USE DEF Settles
<1> DEFINE r == Answered(t)
<1>1. IsReg(r) /\ Counted(r) BY AnsweredCounts
<1> HIDE DEF r
<1>2. reg' = [outstanding |-> kept, owed |-> r.owed, inFlight |-> r.inFlight,
              timer |-> timer, watchdog |-> watchdog]
  BY DEF r
<1>3. IsReg(reg') BY <1>1, <1>2 DEF IsReg
<1>4. RegInv' BY <1>1, <1>2, <1>3 DEF Counted, BuiltOn, IsReg
<1>5. LinkInv' BY <1>2
<1>6. PendingInv' BY <1>2
<1>7. Drops BY <1>2 DEF r
<1> QED BY <1>4, <1>5, <1>6, <1>7

LEMMA ResultStep ==
  ASSUME NegoInv, NEW t \in reg.owed, Result(t)
  PROVE  NegoInv' /\ Drops
<1> DEFINE r == Answered(t)
<1>1. r = [outstanding |-> reg.outstanding, owed |-> reg.owed \ {t},
           inFlight |-> IF reg.inFlight = 0 THEN 0 ELSE reg.inFlight - 1,
           timer |-> reg.timer, watchdog |-> reg.watchdog]
  BY AnsweredFields
<1>2. IsReg(r) /\ Counted(r) /\ (r.inFlight = 0 => r.owed = {})
  BY AnsweredCounts
<1>3. UNCHANGED <<conn, socketGen, poolSide, chases, over>> /\ over = FALSE
  BY DEF Result, Accept, AcceptUnusable, Reject, Forget, Hears, Listening
<1>4. ASSUME reg' = Unmatched(r), UNCHANGED grinding PROVE NegoInv' /\ Drops
  <2> HIDE DEF r
  <2>1. CASE r.inFlight = 0
    <3> DEFINE q == [r EXCEPT !.watchdog = FALSE]
    <3>1. q = [outstanding |-> r.outstanding, owed |-> r.owed, inFlight |-> r.inFlight,
               timer |-> r.timer, watchdog |-> FALSE]
      BY <1>2, WatchdogFields
    <3>2. reg' = Scheduled(q) BY <1>4, <2>1 DEF Unmatched
    <3> HIDE DEF q
    <3>3. IsReg(q) BY <1>2, <3>1 DEF IsReg
    <3>4. Scheduled(q) = [outstanding |-> q.outstanding, owed |-> q.owed,
                          inFlight |-> q.inFlight, timer |-> TRUE, watchdog |-> q.watchdog]
      BY <1>3, <3>3, LiveFields
    <3>5. reg' = [outstanding |-> reg.outstanding, owed |-> r.owed,
                  inFlight |-> r.inFlight, timer |-> TRUE, watchdog |-> FALSE]
      BY <1>1, <3>1, <3>2, <3>4
    <3>6. Settles(t, reg.outstanding, TRUE, FALSE) BY <1>4, <3>5 DEF r, Settles
    <3> HIDE DEF NegoInv, Drops
    <3> QED BY <1>3, <3>6, AnswerStep
  <2>2. CASE r.inFlight # 0
    <3>1. reg' = r BY <1>4, <2>2 DEF Unmatched
    <3>2. reg' = [outstanding |-> reg.outstanding, owed |-> r.owed,
                  inFlight |-> r.inFlight, timer |-> reg.timer, watchdog |-> reg.watchdog]
      BY <1>1, <3>1
    <3>3. reg.timer \in BOOLEAN /\ reg.watchdog \in BOOLEAN BY DEF IsReg
    <3>4. Settles(t, reg.outstanding, reg.timer, reg.watchdog)
      BY <1>4, <3>2, <3>3 DEF r, Settles
    <3> HIDE DEF NegoInv, Drops
    <3> QED BY <1>3, <3>4, AnswerStep
  <2> QED BY <2>1, <2>2
<1>5. ASSUME Matches(t) PROVE t.parent = info /\ info # 0
  BY <1>5 DEF Matches, BuiltOn
<1>6. Settled(r, t) = [outstanding |-> reg.outstanding \ {t}, owed |-> r.owed,
                       inFlight |-> r.inFlight, timer |-> reg.timer, watchdog |-> FALSE]
  <2> HIDE DEF r
  <2>1. Settled(r, t) = [r EXCEPT !.watchdog = FALSE, !.outstanding = r.outstanding \ {t}]
    BY DEF Settled
  <2>2. Settled(r, t) = [outstanding |-> r.outstanding \ {t}, owed |-> r.owed,
                         inFlight |-> r.inFlight, timer |-> r.timer, watchdog |-> FALSE]
    BY <1>2, <2>1, SettledFields
  <2> QED BY <1>1, <2>2
<1>7. t \notin r.owed BY <1>1
<1>8. CASE Accept(t)
  <2>1. CASE Matches(t)
    <3>1. grinding' = info /\ info # NoGrind /\ reg' = Settled(r, t)
      BY <1>5, <1>8, <2>1 DEF Accept, NoGrind
    <3>2. reg.timer \in BOOLEAN BY DEF IsReg
    <3>3. Settles(t, reg.outstanding \ {t}, reg.timer, FALSE)
      BY <1>6, <1>7, <3>1, <3>2 DEF Settles
    <3> HIDE DEF NegoInv, Drops
    <3> QED BY <1>3, <3>3, AnswerStep
  <2>2. CASE ~Matches(t) BY <1>4, <1>8, <2>2 DEF Accept
  <2> QED BY <2>1, <2>2
<1>9. CASE AcceptUnusable(t)
  <2>1. CASE Matches(t) /\ reg' = Scheduled(Settled(r, t))
    <3> DEFINE q == Settled(r, t)
    <3> HIDE DEF r, q
    <3>1. q = [outstanding |-> reg.outstanding \ {t}, owed |-> r.owed,
               inFlight |-> r.inFlight, timer |-> reg.timer, watchdog |-> FALSE]
      BY <1>6 DEF q
    <3>2. IsReg(q) BY <1>2, <3>1 DEF IsReg
    <3>3. Scheduled(q) = [outstanding |-> q.outstanding, owed |-> q.owed,
                          inFlight |-> q.inFlight, timer |-> TRUE, watchdog |-> q.watchdog]
      BY <1>3, <3>2, LiveFields
    <3>4. reg' = [outstanding |-> reg.outstanding \ {t}, owed |-> r.owed,
                  inFlight |-> r.inFlight, timer |-> TRUE, watchdog |-> FALSE]
      BY <2>1, <3>1, <3>3 DEF q
    <3>5. UNCHANGED grinding BY <1>9 DEF AcceptUnusable
    <3>6. Settles(t, reg.outstanding \ {t}, TRUE, FALSE)
      BY <1>7, <3>4, <3>5 DEF r, Settles
    <3> HIDE DEF NegoInv, Drops
    <3> QED BY <1>3, <3>6, AnswerStep
  <2> QED BY <1>4, <1>9, <2>1 DEF AcceptUnusable
<1>10. CASE Reject(t)
  <2>1. UNCHANGED grinding BY <1>10 DEF Reject
  <2>2. CASE Unambiguous(r)
    <3> DEFINE q == [r EXCEPT !.watchdog = FALSE, !.outstanding = {}]
    <3>1. reg' = Scheduled(q) BY <1>10, <2>2 DEF Reject
    <3>0. r.owed = {} BY <1>2, <2>2 DEF Unambiguous
    <3> HIDE DEF r
    <3>2. q = [outstanding |-> {}, owed |-> r.owed, inFlight |-> r.inFlight,
               timer |-> r.timer, watchdog |-> FALSE]
      BY <1>2, SettledFields
    <3> HIDE DEF q
    <3>3. IsReg(q) BY <1>2, <3>2 DEF IsReg
    <3>4. Scheduled(q) = [outstanding |-> q.outstanding, owed |-> q.owed,
                          inFlight |-> q.inFlight, timer |-> TRUE, watchdog |-> q.watchdog]
      BY <1>3, <3>3, LiveFields
    <3>5. reg' = [outstanding |-> {}, owed |-> r.owed,
                  inFlight |-> r.inFlight, timer |-> TRUE, watchdog |-> FALSE]
      BY <3>1, <3>2, <3>4
    <3>6. Settles(t, {}, TRUE, FALSE) BY <2>1, <3>0, <3>5 DEF r, Settles
    <3> HIDE DEF NegoInv, Drops
    <3> QED BY <1>3, <3>6, AnswerStep
  <2>3. CASE ~Unambiguous(r)
    <3>1. reg' = r BY <1>10, <2>3 DEF Reject
    <3>2. r.inFlight # 0 BY <2>3 DEF Unambiguous
    <3> QED BY <1>4, <2>1, <3>1, <3>2 DEF Unmatched
  <2> QED BY <2>2, <2>3
<1>11. CASE Forget(t)
  <2>1. reg' = [reg EXCEPT !.owed = reg.owed \ {t}] /\ UNCHANGED grinding
    BY <1>11 DEF Forget
  <2>2. reg' = [outstanding |-> reg.outstanding, owed |-> reg.owed \ {t},
                inFlight |-> reg.inFlight, timer |-> reg.timer, watchdog |-> reg.watchdog]
    BY <2>1, OwedFields
  <2>3. Counted(reg')
    <3>1. reg'.owed = reg.owed \ {t} /\ reg'.inFlight \in Nat
            /\ reg'.inFlight >= reg.inFlight - 1
      BY <2>2 DEF IsReg
    <3> QED BY <3>1, AnswerCounted
  <2>4. RegInv' /\ Drops BY <1>3, <2>1, <2>2, <2>3 DEF IsReg, BuiltOn
  <2>5. LinkInv' /\ PendingInv' BY <1>3, <2>1, <2>2
  <2> QED BY <2>4, <2>5
<1> QED BY <1>8, <1>9, <1>10, <1>11 DEF Result

LEMMA CloseStep ==
  ASSUME NegoInv, OnClose \/ TearDown
  PROVE  NegoInv' /\ Drops
<1>1. CASE OnClose
  <2>1. /\ reg' = [outstanding |-> {}, owed |-> {}, inFlight |-> 0,
                   timer |-> FALSE, watchdog |-> FALSE]
        /\ grinding' = NoGrind /\ greeted' = FALSE /\ conn' = "closed" /\ conn # "closed"
        /\ UNCHANGED <<socketGen, poolTip, info, chases, over>>
    BY <1>1 DEF OnClose, NoReg
  <2>2. IsFiniteSet({}) /\ Cardinality({}) = 0 BY FS_EmptySet
  <2>3. RegInv' BY <2>1, <2>2 DEF IsReg, Counted, BuiltOn
  <2> QED BY <2>1, <2>3
<1>2. CASE TearDown
  <2> DEFINE q == [reg EXCEPT !.timer = FALSE]
  <2>1. q = [outstanding |-> reg.outstanding, owed |-> reg.owed,
             inFlight |-> reg.inFlight, timer |-> FALSE, watchdog |-> reg.watchdog]
    BY TimerFields
  <2>2. reg' = [q EXCEPT !.watchdog = FALSE] BY <1>2 DEF TearDown
  <2> HIDE DEF q
  <2>3. IsReg(q) BY <2>1 DEF IsReg
  <2>4. reg' = [outstanding |-> q.outstanding, owed |-> q.owed,
                inFlight |-> q.inFlight, timer |-> q.timer, watchdog |-> FALSE]
    BY <2>2, <2>3, WatchdogFields
  <2>5. reg' = [outstanding |-> reg.outstanding, owed |-> reg.owed,
                inFlight |-> reg.inFlight, timer |-> FALSE, watchdog |-> FALSE]
    BY <2>1, <2>4
  <2>6. over' = TRUE /\ UNCHANGED <<socketGen, poolSide, grinding, chases>>
    BY <1>2 DEF TearDown
  <2> QED BY <2>5, <2>6 DEF IsReg, Counted, BuiltOn
<1> QED BY <1>1, <1>2

LEMMA NegoStep ==
  ASSUME NegoInv, NegoNext \/ UNCHANGED negoVars
  PROVE  NegoInv' /\ Drops
<1>1. ASSUME ShareStale \/ ScanOut PROVE NegoInv' /\ Drops
  <2>1. /\ reg' = Scheduled(reg) /\ grinding' = NoGrind
        /\ UNCHANGED <<conn, socketGen, poolSide, chases, over>>
    BY <1>1 DEF ShareStale, Rebuild, ScanOut, Working
  <2> QED BY <2>1, SchedulingStep
<1>2. CASE GrindWatchdogTicks
  <2>1. UNCHANGED <<conn, socketGen, poolSide, chases, over>>
    BY <1>2 DEF GrindWatchdogTicks, Working
  <2>2. \/ reg' = Scheduled(reg) /\ grinding' = NoGrind
        \/ UNCHANGED <<grinding, reg>>
    BY <1>2 DEF GrindWatchdogTicks
  <2>3. CASE UNCHANGED <<grinding, reg>>
    BY <2>1, <2>3 DEF IsReg, Counted, BuiltOn
  <2> QED BY <2>1, <2>2, <2>3, SchedulingStep
<1>3. ASSUME NEW c \in chases, CatchUpStep(c) PROVE NegoInv' /\ Drops
  BY <1>3, CatchUpStepKeeps
<1>4. ASSUME NEW t \in reg.owed, Result(t) PROVE NegoInv' /\ Drops
  BY <1>4, ResultStep
<1>5. ASSUME RegisterTimerFires \/ ResultWatchdogFires \/ ChainInfo
      PROVE  NegoInv' /\ Drops
  BY <1>5, TimerStep, WatchdogStep, ChainInfoStep
<1>6. ASSUME MakeHashes \/ (\E how \in {"stuck", "dead"} : HangUp(how)) \/ Connect
               \/ OnOpen \/ (\E height \in Tips : PoolMoves(height)) \/ UNCHANGED negoVars
      PROVE  NegoInv' /\ Drops
  BY <1>6, QuietStep
<1>7. ASSUME OnClose \/ TearDown PROVE NegoInv' /\ Drops
  BY <1>7, CloseStep
<1> HIDE DEF NegoInv, Drops
<1> QED BY <1>1, <1>2, <1>3, <1>4, <1>5, <1>6, <1>7 DEF NegoNext, Session

(* Of pool mode: the classic client leaves the negotiated one alone. *)
LEMMA ModeStep ==
  ASSUME NegoInv, [Next]_modeVars
  PROVE  NegoInv' /\ [Drops]_negoVars
<1>1. CASE HandOff
  <2>1. conn = "off" /\ conn' = "closed"
          /\ UNCHANGED <<socketGen, poolSide, grinding, reg, chases, over>>
    BY <1>1 DEF HandOff, Connecting
  <2> QED BY <2>1 DEF IsReg, Counted, BuiltOn
<1>2. CASE StartClassic \/ Classic \/ UNCHANGED modeVars
  <2>1. UNCHANGED negoVars BY <1>2 DEF StartClassic, Classic, modeVars
  <2> HIDE DEF NegoInv, Drops
  <2> QED BY <2>1, NegoStep
<1>3. CASE Negotiated
  <2> HIDE DEF NegoInv, Drops
  <2> QED BY <1>3, NegoStep DEF Negotiated
<1> QED BY <1>1, <1>2, <1>3 DEF Next

LEMMA NegoStarts == ASSUME Init PROVE NegoInv
<1>1. reg = [outstanding |-> {}, owed |-> {}, inFlight |-> 0,
             timer |-> FALSE, watchdog |-> FALSE]
  BY DEF Init, NegoQuiet, NoReg
<1>2. IsFiniteSet({}) /\ Cardinality({}) = 0 BY FS_EmptySet
<1>3. NegoQuiet BY DEF Init
<1>4. RegInv BY <1>1, <1>2, <1>3 DEF NegoQuiet, IsReg, Counted, BuiltOn
<1>5. LinkInv
  <2>1. /\ socketGen = 0 /\ chases = {} /\ over = FALSE /\ greeted = FALSE
        /\ poolTip = 1 /\ reg.outstanding = {}
    BY <1>1, <1>3 DEF NegoQuiet
  <2>2. chases \subseteq [gen : Int, page : BOOLEAN] BY <2>1
  <2>3. over \in BOOLEAN /\ greeted \in BOOLEAN BY <2>1
  <2>4. ~greeted BY <2>1
  <2> QED BY <2>1, <2>2, <2>3, <2>4
<1>6. PendingInv BY <1>1, <1>3 DEF NegoQuiet
<1> QED BY <1>4, <1>5, <1>6

USE DEF NoGrind

(* The inductive invariant of the negotiated client. *)
THEOREM NegoInvHolds == Spec => []NegoInv
<1> HIDE DEF NegoInv
<1>1. Init => NegoInv BY NegoStarts
<1>2. NegoInv /\ [Next]_modeVars => NegoInv' BY ModeStep
<1> QED BY <1>1, <1>2, PTL DEF Spec

(* What is ground, and what may be matched to a later acceptance, is built on the
   tip the pool announced last. *)
THEOREM MinesOnPoolTip == Spec => []GrindsOnPoolTip
<1>1. NegoInv => GrindsOnPoolTip BY DEF GrindsOnPoolTip, Parents, BuiltOn
<1> HIDE DEF NegoInv
<1> QED BY <1>1, NegoInvHolds, PTL

(* An idle session has a timer armed or its catch-up under way: no path through
   the handlers leaves it waiting for nothing. *)
THEOREM NeverForgotten == Spec => []RegistrationPending
<1>1. NegoInv => RegistrationPending BY DEF RegistrationPending
<1> HIDE DEF NegoInv
<1> QED BY <1>1, NegoInvHolds, PTL

(* A result that names no template drops none the pool may still accept. *)
THEOREM RejectionsDropNothing == Spec => SettlesOnlyAnswered
<1>1. NegoInv /\ [Next]_modeVars => [Drops]_negoVars BY ModeStep
<1> HIDE DEF NegoInv
<1> QED BY <1>1, NegoInvHolds, PTL DEF Spec, SettlesOnlyAnswered, Drops
=============================================================================
